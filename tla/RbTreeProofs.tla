---------------------------- MODULE RbTreeProofs ----------------------------
(***************************************************************************)
(* The red-black tree, for any keys and any number of them: the links in   *)
(* both directions, the order of the keys, the dictionary, the colours and *)
(* the number of black nodes, who owns each node after a fault, the        *)
(* driver's inserts, and the steps of a call that never lead back.         *)
(***************************************************************************)
EXTENDS RbTree, TreeHeapProofs

\* A heap with links to the first u nodes, in which no pair is split.
SoundHeap(h, u) ==
  /\ h \in [Nodes -> Node]
  /\ \A n \in Nodes : /\ h[n].parent \in 0..u /\ h[n].left \in 0..u /\ h[n].right \in 0..u
                      /\ h[n].val = Value(h[n].key)

\* The links of the first u nodes go both ways; a node is not on both sides of
\* another; and no parent links lead round in a circle: every set of nodes has
\* one whose parent is outside of it.
Linked(h, u) ==
  /\ \A n, m \in 1..u : IsChild(h, n, m) <=> h[m].parent = n
  /\ \A n \in 1..u : h[n].left = h[n].right => h[n].left = Nil
  /\ \A S \in SUBSET (1..u) : S # {} => \E n \in S : h[n].parent \notin S

CallType == [pc : {"idle", "insert", "recolor", "remove", "panicked", "failed", "dropped"},
             at : Link, key : Keys, ret : Values \cup {NoValue}]

\* What can go wrong.
Faults == {"unlinked", "not_red", "half_done", "removed", "stale"}

CallInv == /\ call \in CallType
           /\ call.at \in 0..used
           /\ call.pc = "recolor" => call.at # Nil

Inv == /\ used \in 0..MaxNodes /\ root \in 0..used
       /\ SoundHeap(heap, used)
       /\ CallInv
       /\ faults \subseteq Faults
       /\ faults = {} /\ call.pc # "dropped" => Linked(heap, used)

\* An address is a natural number, and more may be allocated later.
LEMMA Counting ==
  /\ MaxNodes \in Nat /\ Nil = 0 /\ Nil \notin Nodes
  /\ \A u \in 0..MaxNodes : 0..u \subseteq Link /\ 1..u \subseteq Nodes /\ 0..u = 1..u \cup {Nil}
  /\ \A u \in 0..MaxNodes : u < MaxNodes => /\ u + 1 \in Nodes /\ u + 1 \in 0..MaxNodes
                                            /\ 0..u \subseteq 0..(u + 1) /\ u + 1 \in 1..(u + 1)
                                            /\ u + 1 \notin 0..u /\ 1..(u + 1) = 1..u \cup {u + 1}
  BY TreeHeapAssumption DEF Nodes, Nil, Link
-----------------------------------------------------------------------------
(***************************************************************************)
(* Types and pairs, one kind of change after the other                     *)
(***************************************************************************)
\* A new node hangs below p and leads nowhere.
LEMMA FreshNode ==
  ASSUME NEW u \in 0..MaxNodes, NEW p \in 0..u, NEW c \in Colors, NEW k \in Keys
  PROVE  /\ Fresh(p, c, k) \in Node
         /\ Fresh(p, c, k).parent = p /\ Fresh(p, c, k).left = Nil /\ Fresh(p, c, k).right = Nil
         /\ Fresh(p, c, k).val = Value(Fresh(p, c, k).key)
  BY Counting DEF Fresh, Node, Values, Link

\* A node that is not allocated has no links.
LEMMA UnallocatedNode ==
  ASSUME NEW u \in 0..MaxNodes
  PROVE  /\ Unallocated \in Node /\ Unallocated.val = Value(Unallocated.key)
         /\ Unallocated.parent = Nil /\ Unallocated.left = Nil /\ Unallocated.right = Nil
<1>1. AnyKey \in Keys
  BY TreeHeapAssumption DEF AnyKey
<1>2. Nil \in 0..u /\ "Red" \in Colors
  BY Counting DEF Colors
<1> QED
  BY <1>1, <1>2, FreshNode DEF Unallocated

\* A new node in a heap that does not lead to it.
LEMMA GrowSound ==
  ASSUME NEW h, NEW u \in 0..MaxNodes, u < MaxNodes, SoundHeap(h, u),
         NEW p \in 0..u, NEW c \in Colors, NEW k \in Keys
  PROVE  SoundHeap([h EXCEPT ![u + 1] = Fresh(p, c, k)], u + 1)
<1>1. 0..u \subseteq 0..(u + 1) /\ Nil \in 0..(u + 1)
  BY Counting
<1> DEFINE h2 == [h EXCEPT ![u + 1] = Fresh(p, c, k)]
<1>2. ASSUME NEW n \in Nodes
      PROVE  /\ h2[n] \in Node
             /\ h2[n].parent \in 0..(u + 1) /\ h2[n].left \in 0..(u + 1) /\ h2[n].right \in 0..(u + 1)
             /\ h2[n].val = Value(h2[n].key)
  <2>1. h2[n] \in {h[n], Fresh(p, c, k)}
    BY DEF SoundHeap
  <2> HIDE DEF h2
  <2>2. CASE h2[n] = h[n]
    BY <1>1, <2>2 DEF SoundHeap
  <2>3. CASE h2[n] = Fresh(p, c, k)
    BY <1>1, <2>3, FreshNode
  <2> QED
    BY <2>1, <2>2, <2>3
<1>3. h2 \in [Nodes -> Node]
  <2>1. h2 = [n \in Nodes |-> h2[n]]
    BY DEF SoundHeap
  <2> QED
    BY <1>2, <2>1
<1> QED
  BY <1>2, <1>3 DEF SoundHeap

\* One link is set.
LEMMA LinkSound ==
  ASSUME NEW h, NEW u \in 0..MaxNodes, SoundHeap(h, u), NEW n \in Nodes, NEW x \in 0..u, NEW s \in Sides
  PROVE  SoundHeap([h EXCEPT ![n][s] = x], u)
<1>0. x \in Link
  BY Counting
<1>1. CASE s = "left"
  BY <1>0, <1>1 DEF SoundHeap, Node
<1>2. CASE s = "right"
  BY <1>0, <1>2 DEF SoundHeap, Node
<1> QED
  BY <1>1, <1>2 DEF Sides

\* One node is painted.
LEMMA PaintSound ==
  ASSUME NEW h, NEW u, SoundHeap(h, u), NEW n \in Nodes, NEW c \in Colors
  PROVE  /\ SoundHeap([h EXCEPT ![n].color = c], u)
         /\ \A m \in Nodes : /\ [h EXCEPT ![n].color = c][m].parent = h[m].parent
                             /\ [h EXCEPT ![n].color = c][m].left = h[m].left
                             /\ [h EXCEPT ![n].color = c][m].right = h[m].right
  BY DEF SoundHeap, Node

\* A rotation moves links within the allocated nodes.
LEMMA RaiseSound ==
  ASSUME NEW h, NEW u \in 0..MaxNodes, SoundHeap(h, u), NEW n \in 1..u, h[n].parent \in Nodes, NEW s \in Sides
  PROVE  SoundHeap(Raise(h, n, s), u)
<1> DEFINE p == h[n].parent
<1>1. n \in Nodes /\ p \in Nodes /\ p \in 0..u /\ n \in 0..u /\ n \in Link /\ p \in Link
  BY Counting DEF SoundHeap, Link
<1>2. h[n] \in Node /\ h[p] \in Node /\ h[p].parent \in 0..u
  BY <1>1 DEF SoundHeap
<1>3. h[n].left \in 0..u /\ h[n].right \in 0..u /\ 0..u \subseteq Link
  BY <1>1, Counting DEF SoundHeap
<1>4. ASSUME NEW m \in Nodes
      PROVE  /\ Raise(h, n, s)[m] \in Node
             /\ Raise(h, n, s)[m].parent \in 0..u
             /\ Raise(h, n, s)[m].left \in 0..u /\ Raise(h, n, s)[m].right \in 0..u
             /\ Raise(h, n, s)[m].val = Value(Raise(h, n, s)[m].key)
  <2>1. h[m] \in Node /\ h[m].parent \in 0..u /\ h[m].left \in 0..u /\ h[m].right \in 0..u
        /\ h[m].val = Value(h[m].key) /\ h[n].val = Value(h[n].key) /\ h[p].val = Value(h[p].key)
        /\ h[p].left \in 0..u /\ h[p].right \in 0..u
    BY <1>1 DEF SoundHeap
  <2>2. CASE s = "left"
    <3>1. Raise(h, n, s)[m] \in {[h[n] EXCEPT !.parent = h[p].parent, !.left = p],
                                 [h[p] EXCEPT !.parent = n, !.right = h[n].left],
                                 [h[m] EXCEPT !.parent = p], h[m]}
      BY <2>2 DEF Raise, Rev
    <3> HIDE DEF p
    <3> QED
      BY <1>1, <1>2, <1>3, <2>1, <3>1 DEF Node
  <2>3. CASE s = "right"
    <3>1. Raise(h, n, s)[m] \in {[h[n] EXCEPT !.parent = h[p].parent, !.right = p],
                                 [h[p] EXCEPT !.parent = n, !.left = h[n].right],
                                 [h[m] EXCEPT !.parent = p], h[m]}
      BY <2>3 DEF Raise, Rev
    <3> HIDE DEF p
    <3> QED
      BY <1>1, <1>2, <1>3, <2>1, <3>1 DEF Node
  <2> QED
    BY <2>2, <2>3 DEF Sides
<1>5. Raise(h, n, s) = [m \in Nodes |-> Raise(h, n, s)[m]]
  BY DEF Raise
<1> QED
  BY <1>4, <1>5 DEF SoundHeap

\* So does the one that stops half way.
LEMMA BeginLeftSound ==
  ASSUME NEW h, NEW u \in 0..MaxNodes, SoundHeap(h, u), NEW n \in Nodes
  PROVE  SoundHeap(BeginLeft(h, n), u)
<1>1. h[n].parent \in 0..u /\ h[n].parent \in Link
  BY Counting DEF SoundHeap
<1>2. ASSUME NEW m \in Nodes
      PROVE  BeginLeft(h, n)[m] \in {[h[n] EXCEPT !.left = h[n].parent],
                                     [h[m] EXCEPT !.parent = h[n].parent], h[m]}
  BY DEF BeginLeft
<1>3. BeginLeft(h, n) = [m \in Nodes |-> BeginLeft(h, n)[m]]
  BY DEF BeginLeft
<1>4. ASSUME NEW m \in Nodes
      PROVE  /\ BeginLeft(h, n)[m] \in Node
             /\ BeginLeft(h, n)[m].parent \in 0..u
             /\ BeginLeft(h, n)[m].left \in 0..u /\ BeginLeft(h, n)[m].right \in 0..u
             /\ BeginLeft(h, n)[m].val = Value(BeginLeft(h, n)[m].key)
  BY <1>1, <1>2 DEF SoundHeap, Node
<1> QED
  BY <1>3, <1>4 DEF SoundHeap

\* remove_node copies and moves whole pairs.
LEMMA RemoveNodeSound ==
  ASSUME NEW h, NEW u \in 0..MaxNodes, SoundHeap(h, u), NEW n \in Nodes
  PROVE  SoundHeap(RemoveNode(h, n), u)
<1>1. \A k \in Nodes : h[k].left \in Nodes \cup {Nil} /\ h[k].right \in Nodes \cup {Nil}
  BY DEF SoundHeap, Node, Link
<1>2. ASSUME NEW m \in Nodes
      PROVE  /\ RemoveNode(h, n)[m] \in Node
             /\ RemoveNode(h, n)[m].parent \in 0..u
             /\ RemoveNode(h, n)[m].left \in 0..u /\ RemoveNode(h, n)[m].right \in 0..u
             /\ RemoveNode(h, n)[m].val = Value(RemoveNode(h, n)[m].key)
  <2>1. \/ \E c \in Nodes : RemoveNode(h, n)[m] = h[c]
        \/ h[m].left \in Nodes /\ RemoveNode(h, n)[m] = PullUp(h, m)
    BY <1>1, RemoveNodeShape
  <2>2. CASE \E c \in Nodes : RemoveNode(h, n)[m] = h[c]
    BY <2>2 DEF SoundHeap
  <2>3. ASSUME h[m].left \in Nodes, RemoveNode(h, n)[m] = PullUp(h, m)
        PROVE  /\ RemoveNode(h, n)[m] \in Node
               /\ RemoveNode(h, n)[m].parent \in 0..u
               /\ RemoveNode(h, n)[m].left \in 0..u /\ RemoveNode(h, n)[m].right \in 0..u
               /\ RemoveNode(h, n)[m].val = Value(RemoveNode(h, n)[m].key)
    <3>1. Unlinked(h, h[m].left) \in 0..u /\ Unlinked(h, h[m].left) \in Link
      BY <2>3, Counting, UnlinkedType DEF SoundHeap, Link
    <3>2. /\ h[m] \in Node /\ h[h[m].left] \in Node
          /\ h[m].parent \in 0..u /\ h[m].right \in 0..u
          /\ h[h[m].left].val = Value(h[h[m].left].key)
      BY <2>3 DEF SoundHeap
    <3> QED
      BY <2>3, <3>1, <3>2 DEF PullUp, Node
  <2> QED
    BY <2>1, <2>2, <2>3
<1>3. RemoveNode(h, n) = [m \in Nodes |-> RemoveNode(h, n)[m]]
  BY DEF RemoveNode
<1> QED
  BY <1>2, <1>3 DEF SoundHeap
-----------------------------------------------------------------------------
(***************************************************************************)
(* The links in both directions                                            *)
(***************************************************************************)
\* Nothing but parent, left and right matters.
LEMMA SameLinks ==
  ASSUME NEW h, NEW h2, NEW u, Linked(h, u),
         \A m \in 1..u : h2[m].parent = h[m].parent /\ h2[m].left = h[m].left /\ h2[m].right = h[m].right
  PROVE  Linked(h2, u)
  BY DEF Linked, IsChild

\* The next node to be allocated hangs on side s of p, where no child was.
Hangs(h, h2, u, p, s) ==
  /\ h[p][s] = Nil /\ h2[p][s] = u + 1 /\ h2[p][Rev(s)] = h[p][Rev(s)]
  /\ h2[u + 1].parent = p /\ h2[u + 1].left = Nil /\ h2[u + 1].right = Nil
  /\ \A m \in 1..u : h2[m].parent = h[m].parent
  /\ \A m \in 1..u \ {p} : h2[m].left = h[m].left /\ h2[m].right = h[m].right

\* A new leaf keeps the links in both directions.
LEMMA GrowLinked ==
  ASSUME NEW h, NEW u \in 0..MaxNodes, u < MaxNodes, SoundHeap(h, u), Linked(h, u),
         NEW p \in 1..u, NEW s \in Sides, NEW h2, Hangs(h, h2, u, p, s)
  PROVE  Linked(h2, u + 1)
<1> USE DEF Hangs
<1>1. /\ 1..(u + 1) = 1..u \cup {u + 1} /\ u + 1 \notin 0..u /\ 0..u = 1..u \cup {Nil} /\ Nil = 0
      /\ Nil \notin 1..(u + 1) /\ 1..u \subseteq Nodes
  BY Counting
<1>2. \A m \in 1..u : h[m].parent \in 0..u /\ h[m].left \in 0..u /\ h[m].right \in 0..u
  BY <1>1 DEF SoundHeap
<1>3. \A m : IsChild(h2, p, m) /\ m # Nil <=> m = u + 1 \/ (IsChild(h, p, m) /\ m # Nil)
  <2>1. CASE s = "left" BY <1>1, <2>1 DEF IsChild, Rev
  <2>2. CASE s = "right" BY <1>1, <2>2 DEF IsChild, Rev
  <2> QED BY <2>1, <2>2 DEF Sides
<1>4. \A n, m \in 1..(u + 1) : IsChild(h2, n, m) <=> h2[m].parent = n
  <2> TAKE n, m \in 1..(u + 1)
  <2>1. CASE n = u + 1
    BY <1>1, <1>2, <2>1 DEF IsChild
  <2>2. CASE n \in 1..u /\ m = u + 1 /\ n # p
    BY <1>1, <1>2, <2>2 DEF IsChild
  <2>3. CASE n \in 1..u /\ m \in 1..u /\ n # p
    BY <2>3 DEF IsChild, Linked
  <2>4. CASE n = p /\ m = u + 1
    BY <1>1, <1>3, <2>4
  <2>5. CASE n = p /\ m \in 1..u
    <3>1. m # u + 1 /\ m # Nil
      BY <1>1, <2>5
    <3>2. IsChild(h2, p, m) <=> IsChild(h, p, m)
      BY <1>3, <3>1
    <3>3. IsChild(h, p, m) <=> h[m].parent = p
      BY <2>5 DEF Linked
    <3> QED
      BY <2>5, <3>2, <3>3
  <2> QED
    BY <1>1, <2>1, <2>2, <2>3, <2>4, <2>5
<1>5. \A n \in 1..(u + 1) : h2[n].left = h2[n].right => h2[n].left = Nil
  <2>1. h[p].left # u + 1 /\ h[p].right # u + 1
    BY <1>1, <1>2
  <2>2. h2[p].left # h2[p].right
    <3>1. CASE s = "left" BY <2>1, <3>1 DEF Rev
    <3>2. CASE s = "right" BY <2>1, <3>2 DEF Rev
    <3> QED BY <3>1, <3>2 DEF Sides
  <2> QED
    BY <1>1, <2>2 DEF Linked
<1>6. ASSUME NEW S \in SUBSET (1..(u + 1)), S # {}
      PROVE  \E n \in S : h2[n].parent \notin S
  <2> SUFFICES ASSUME \A n \in S : h2[n].parent \in S PROVE FALSE
    OBVIOUS
  <2> DEFINE T == S \ {u + 1}
  <2>1. T # {} /\ T \in SUBSET (1..u)
    BY <1>1, <1>6
  <2>2. \A n \in T : h[n].parent \in T
    BY <1>1, <1>2, <2>1
  <2> QED
    BY <2>1, <2>2 DEF Linked
<1> QED
  BY <1>4, <1>5, <1>6 DEF Linked

\* The nodes that take part in a rotation are different ones.
LEMMA AllApart ==
  ASSUME NEW h, NEW u \in 0..MaxNodes, Linked(h, u), NEW n \in 1..u, NEW p \in 1..u,
         h[n].parent = p
  PROVE  /\ n # p /\ h[p].parent # n /\ h[p].parent # p
         /\ \A b \in 1..u : h[b].parent = n => b # n /\ b # p /\ h[p].parent # b
<1>1. \A S \in SUBSET (1..u) : S # {} => \E m \in S : h[m].parent \notin S
  BY DEF Linked
<1>2. n # p /\ h[p].parent # p
  <2>1. {p} \in SUBSET (1..u) /\ {p} # {}
    OBVIOUS
  <2>2. h[p].parent # p
    BY <1>1, <2>1
  <2> QED
    BY <2>2
<1>3. h[p].parent # n
  <2>1. {n, p} \in SUBSET (1..u) /\ {n, p} # {}
    OBVIOUS
  <2> QED
    BY <1>1, <2>1
<1>4. ASSUME NEW b \in 1..u, h[b].parent = n PROVE b # n /\ b # p /\ h[p].parent # b
  <2>1. {n, p, b} \in SUBSET (1..u) /\ {n, p, b} # {}
    OBVIOUS
  <2>2. h[p].parent # b
    BY <1>1, <1>4, <2>1
  <2> QED
    BY <1>2, <1>3, <1>4, <2>2
<1> QED
  BY <1>2, <1>3, <1>4

\* Node n is turned above its parent p and below g, and hands over its child b:
\* the changes of the parent links, and of who is a child of whom.
Turns(h, R, u, n, p, g, b) ==
  /\ h[n].parent = p /\ h[p].parent = g /\ (b # Nil => h[b].parent = n)
  /\ R[n].parent = g /\ R[p].parent = n /\ (b # Nil => R[b].parent = p)
  /\ \A m \in 1..u \ {n, p, b} : R[m].parent = h[m].parent
  /\ \A m \in 1..u : IsChild(R, n, m) <=> m = p \/ (IsChild(h, n, m) /\ m # b)
  /\ \A m \in 1..u : IsChild(R, p, m) <=> m = b \/ (IsChild(h, p, m) /\ m # n)
  /\ g # Nil => \A m \in 1..u : IsChild(R, g, m) <=> m = n \/ (IsChild(h, g, m) /\ m # p)
  /\ \A x \in 1..u \ {n, p, g} : \A m \in 1..u : IsChild(R, x, m) <=> IsChild(h, x, m)

\* These changes fit together.
LEMMA TurnedLinks ==
  ASSUME NEW h, NEW R, NEW u \in 0..MaxNodes, Linked(h, u),
         NEW n \in 1..u, NEW p \in 1..u, NEW g \in 0..u, NEW b \in 0..u,
         Turns(h, R, u, n, p, g, b)
  PROVE  /\ \A x, m \in 1..u : IsChild(R, x, m) <=> R[m].parent = x
         /\ \A S \in SUBSET (1..u) : S # {} => \E m \in S : R[m].parent \notin S
<1> USE DEF Turns
<1>1. /\ n # p /\ g # n /\ g # p
      /\ b # Nil => b \in 1..u /\ b # n /\ b # p /\ g # b
      /\ g # Nil => g \in 1..u
      /\ Nil \notin 1..u
  BY AllApart, Counting
<1>2. \A x, m \in 1..u : IsChild(h, x, m) <=> h[m].parent = x
  BY DEF Linked
<1>3. \A x, m \in 1..u : IsChild(R, x, m) <=> R[m].parent = x
  <2> TAKE x, m \in 1..u
  <2>1. CASE x = n BY <1>1, <1>2, <2>1
  <2>2. CASE x = p BY <1>1, <1>2, <2>2
  <2>3. CASE x = g BY <1>1, <1>2, <2>3
  <2>4. CASE x \notin {n, p, g} BY <1>1, <1>2, <2>4
  <2> QED BY <2>1, <2>2, <2>3, <2>4
<1>4. ASSUME NEW S \in SUBSET (1..u), S # {}, \A m \in S : R[m].parent \in S
      PROVE  FALSE
  <2> DEFINE T == IF n \in S THEN S \cup {p} ELSE S
  <2>1. T \in SUBSET (1..u) /\ T # {}
    BY <1>4
  <2>2. p \in S => n \in S
    BY <1>4
  <2>3. n \in S => g \in S
    BY <1>4
  <2>4. b # Nil /\ b \in S => n \in S
    BY <1>4, <2>2
  <2>5. ASSUME NEW m \in T PROVE h[m].parent \in T
    <3>1. CASE m = n BY <2>5, <3>1
    <3>2. CASE m = p BY <1>1, <2>2, <2>3, <2>5, <3>2
    <3>3. CASE m = b /\ m # Nil BY <1>1, <2>4, <2>5, <3>3
    <3>4. CASE m \notin {n, p, b} BY <1>4, <2>1, <2>5, <3>4
    <3> QED BY <1>1, <2>1, <2>5, <3>1, <3>2, <3>3, <3>4
  <2> HIDE DEF T
  <2> QED
    BY <2>1, <2>5 DEF Linked
<1> QED
  BY <1>3, <1>4

\* What Raise does to each link.
LEMMA RaiseFields ==
  ASSUME NEW h, NEW u \in 0..MaxNodes, SoundHeap(h, u), NEW s \in Sides,
         NEW n \in 1..u, NEW p \in 1..u, h[n].parent = p, n # p,
         h[n][s] # n, h[n][s] # p
  PROVE  LET A == Raise(h, n, s)
         IN  /\ A[n].parent = h[p].parent /\ A[n][s] = p /\ A[n][Rev(s)] = h[n][Rev(s)]
             /\ A[p].parent = n /\ A[p][Rev(s)] = h[n][s] /\ A[p][s] = h[p][s]
             /\ \A m \in 1..u : m \notin {n, p}
                  => /\ A[m].parent = IF m = h[n][s] THEN p ELSE h[m].parent
                     /\ A[m].left = h[m].left /\ A[m].right = h[m].right
<1>1. 1..u \subseteq Nodes
  BY Counting
<1>2. \A m \in 1..u : h[m] \in Node
  BY <1>1 DEF SoundHeap
<1>3. CASE s = "left"
  BY <1>1, <1>2, <1>3 DEF Raise, Rev, Node
<1>4. CASE s = "right"
  BY <1>1, <1>2, <1>4 DEF Raise, Rev, Node
<1> QED
  BY <1>3, <1>4 DEF Sides

\* Node n has been turned above its parent p, with the subtree in between handed
\* over, and stands where p stood: the links in both directions.
Lifted(h, R, u, n, s) ==
  LET p == h[n].parent
  IN  /\ R[n].parent = h[p].parent /\ R[n][s] = p /\ R[n][Rev(s)] = h[n][Rev(s)]
      /\ R[p].parent = n /\ R[p][Rev(s)] = h[n][s] /\ R[p][s] = h[p][s]
      /\ \A m \in 1..u \ {n, p} :
           /\ R[m].parent = IF m = h[n][s] THEN p ELSE h[m].parent
           /\ R[m].left = IF h[m].left = p THEN n ELSE h[m].left
           /\ R[m].right = IF h[m].right = p THEN n ELSE h[m].right

\* A rotation keeps the links, provided that the one above is turned too.
LEMMA RotationLinked ==
  ASSUME NEW h, NEW u \in 0..MaxNodes, SoundHeap(h, u), Linked(h, u), NEW s \in Sides,
         NEW n \in 1..u, NEW p \in 1..u, NEW g \in 0..u,
         h[n].parent = p, h[p][Rev(s)] = n, h[p].parent = g,
         NEW R,
         \A m \in 1..u : R[m].parent = Raise(h, n, s)[m].parent,
         \A m \in 1..u \ {g} : /\ R[m].left = Raise(h, n, s)[m].left
                              /\ R[m].right = Raise(h, n, s)[m].right,
         g # Nil => \E t \in Sides : h[g][t] = p /\ R[g][t] = n /\ R[g][Rev(t)] = h[g][Rev(t)]
  PROVE  /\ Linked(R, u) /\ R[n].parent = g /\ (g # Nil => R[g].parent = h[g].parent)
         /\ Lifted(h, R, u, n, s)
<1> DEFINE b == h[n][s]
           A == Raise(h, n, s)
<1>1. 1..u \subseteq Nodes /\ 0..u = 1..u \cup {Nil} /\ Nil \notin 1..u
  BY Counting
<1>2. b \in 0..u /\ (b # Nil => b \in 1..u /\ h[b].parent = n)
  <2>1. b \in 0..u
    BY <1>1 DEF SoundHeap, Sides
  <2>2. b # Nil => IsChild(h, n, b) /\ b \in 1..u
    BY <1>1, <2>1 DEF IsChild, Sides
  <2> QED
    BY <2>1, <2>2 DEF Linked
<1>3. /\ n # p /\ g # n /\ g # p
      /\ b # n /\ b # p /\ (b # Nil => g # b)
  BY <1>1, <1>2, AllApart
<1>4. /\ A[n].parent = g /\ A[n][s] = p /\ A[n][Rev(s)] = h[n][Rev(s)]
      /\ A[p].parent = n /\ A[p][Rev(s)] = b /\ A[p][s] = h[p][s]
      /\ \A m \in 1..u : m \notin {n, p}
           => /\ A[m].parent = IF m = b THEN p ELSE h[m].parent
              /\ A[m].left = h[m].left /\ A[m].right = h[m].right
  BY <1>3, RaiseFields
<1>5. /\ \A m \in 1..u : R[m].parent = A[m].parent
      /\ \A m \in 1..u \ {g} : R[m].left = A[m].left /\ R[m].right = A[m].right
  OBVIOUS
<1> HIDE DEF A, b
<1>6. /\ R[n].parent = g /\ R[n][s] = p /\ R[n][Rev(s)] = h[n][Rev(s)]
      /\ R[p].parent = n /\ R[p][Rev(s)] = b /\ R[p][s] = h[p][s]
  <2>1. /\ R[n].parent = A[n].parent /\ R[n].left = A[n].left /\ R[n].right = A[n].right
        /\ R[p].parent = A[p].parent /\ R[p].left = A[p].left /\ R[p].right = A[p].right
    BY <1>3, <1>5
  <2>2. CASE s = "left" BY <1>4, <2>1, <2>2 DEF Rev
  <2>3. CASE s = "right" BY <1>4, <2>1, <2>3 DEF Rev
  <2> QED BY <2>2, <2>3 DEF Sides
<1>7. \A m \in 1..u : m \notin {n, p} =>
        /\ R[m].parent = IF m = b THEN p ELSE h[m].parent
        /\ m # g => R[m].left = h[m].left /\ R[m].right = h[m].right
  BY <1>4, <1>5
<1>8. \A m, x \in 1..u : IsChild(h, m, x) <=> h[x].parent = m
  BY DEF Linked
<1>9. \A m \in 1..u : h[m].left = h[m].right => h[m].left = Nil
  BY DEF Linked
<1>10. \A m \in 1..u : IsChild(R, n, m) <=> m = p \/ (IsChild(h, n, m) /\ m # b)
  <2>1. CASE s = "left" BY <1>1, <1>6, <1>9, <2>1 DEF IsChild, Rev, b
  <2>2. CASE s = "right" BY <1>1, <1>6, <1>9, <2>2 DEF IsChild, Rev, b
  <2> QED BY <2>1, <2>2 DEF Sides
<1>11. \A m \in 1..u : IsChild(R, p, m) <=> m = b \/ (IsChild(h, p, m) /\ m # n)
  <2>1. CASE s = "left" BY <1>1, <1>6, <1>9, <2>1 DEF IsChild, Rev
  <2>2. CASE s = "right" BY <1>1, <1>6, <1>9, <2>2 DEF IsChild, Rev
  <2> QED BY <2>1, <2>2 DEF Sides
<1>12. ASSUME g # Nil
       PROVE  /\ \A m \in 1..u : IsChild(R, g, m) <=> m = n \/ (IsChild(h, g, m) /\ m # p)
              /\ R[g].left = R[g].right => R[g].left = Nil
  <2>1. PICK t \in Sides : h[g][t] = p /\ R[g][t] = n /\ R[g][Rev(t)] = h[g][Rev(t)]
    BY <1>12
  <2>2. ~IsChild(h, g, n) /\ g \in 1..u
    BY <1>1, <1>3, <1>8, <1>12
  <2>3. CASE t = "left" BY <1>1, <1>9, <2>1, <2>2, <2>3 DEF IsChild, Rev
  <2>4. CASE t = "right" BY <1>1, <1>9, <2>1, <2>2, <2>4 DEF IsChild, Rev
  <2> QED BY <2>3, <2>4 DEF Sides
<1>13. \A x \in 1..u \ {n, p, g} : \A m \in 1..u : IsChild(R, x, m) <=> IsChild(h, x, m)
  BY <1>7 DEF IsChild
<1>14. /\ \A x, m \in 1..u : IsChild(R, x, m) <=> R[m].parent = x
       /\ \A S \in SUBSET (1..u) : S # {} => \E m \in S : R[m].parent \notin S
  <2>1. \A m \in 1..u \ {n, p, b} : R[m].parent = h[m].parent
    BY <1>7
  <2>2. b # Nil => R[b].parent = p
    BY <1>2, <1>3, <1>7
  <2>3. g # Nil => \A m \in 1..u : IsChild(R, g, m) <=> m = n \/ (IsChild(h, g, m) /\ m # p)
    BY <1>12
  <2>4. R[n].parent = g /\ R[p].parent = n /\ b \in 0..u /\ (b # Nil => h[b].parent = n)
    BY <1>2, <1>6
  <2>5. Turns(h, R, u, n, p, g, b)
    BY <1>10, <1>11, <1>13, <2>1, <2>2, <2>3, <2>4 DEF Turns
  <2> QED
    BY <2>4, <2>5, TurnedLinks
<1>15. \A m \in 1..u : R[m].left = R[m].right => R[m].left = Nil
  <2> TAKE m \in 1..u
  <2>1. CASE m = n
    <3>1. ~IsChild(h, n, p)
      BY <1>3, <1>8
    <3>2. CASE s = "left" BY <1>6, <2>1, <3>1, <3>2 DEF IsChild, Rev
    <3>3. CASE s = "right" BY <1>6, <2>1, <3>1, <3>3 DEF IsChild, Rev
    <3> QED BY <3>2, <3>3 DEF Sides
  <2>2. CASE m = p
    <3>1. b # Nil => ~IsChild(h, p, b)
      BY <1>2, <1>3, <1>8
    <3>2. CASE s = "left" BY <1>6, <2>2, <3>1, <3>2 DEF IsChild, Rev
    <3>3. CASE s = "right" BY <1>6, <2>2, <3>1, <3>3 DEF IsChild, Rev
    <3> QED BY <3>2, <3>3 DEF Sides
  <2>3. CASE m = g
    BY <1>1, <1>12, <2>3
  <2>4. CASE m \notin {n, p, g}
    BY <1>7, <1>9, <2>4
  <2> QED
    BY <2>1, <2>2, <2>3, <2>4
<1>16. Linked(R, u)
  BY <1>14, <1>15 DEF Linked
<1>17. g # Nil => R[g].parent = h[g].parent
  BY <1>1, <1>2, <1>3, <1>7
<1>18. Lifted(h, R, u, n, s)
  <2>1. ASSUME NEW m \in 1..u \ {n, p}
        PROVE  /\ R[m].left = IF h[m].left = p THEN n ELSE h[m].left
               /\ R[m].right = IF h[m].right = p THEN n ELSE h[m].right
    <3>1. CASE m = g
      <4>1. PICK t \in Sides : h[g][t] = p /\ R[g][t] = n /\ R[g][Rev(t)] = h[g][Rev(t)]
        BY <1>1, <2>1, <3>1
      <4>2. h[g].left # h[g].right
        BY <1>1, <1>9, <2>1, <3>1, <4>1 DEF Sides
      <4> QED
        BY <3>1, <4>1, <4>2 DEF Sides, Rev
    <3>2. CASE m # g
      BY <1>7, <1>8, <2>1, <3>2 DEF IsChild
    <3> QED
      BY <3>1, <3>2
  <2> QED
    BY <1>6, <1>7, <2>1 DEF Lifted, b
<1> QED
  BY <1>6, <1>16, <1>17, <1>18

\* rot_left_par, which turns the link above as well.
LEMMA RotLeftKeeps ==
  ASSUME NEW h, NEW u \in 0..MaxNodes, SoundHeap(h, u),
         NEW n \in 1..u, NEW p \in 1..u, h[n].parent = p
  PROVE  /\ SoundHeap(RotLeft(h, n), u)
         /\ Linked(h, u) /\ h[p].right = n =>
              LET g == h[p].parent
              IN  /\ Linked(RotLeft(h, n), u) /\ RotLeft(h, n)[n].parent = g
                  /\ Lifted(h, RotLeft(h, n), u, n, "left")
                  /\ g # Nil => /\ RotLeft(h, n)[g].parent = h[g].parent
                                /\ h[g].left = p => RotLeft(h, n)[g].left = n
<1> DEFINE g == h[p].parent
           A == Raise(h, n, "left")
           t == SideOf(A, g, p)
<1>1. /\ 1..u \subseteq Nodes /\ 0..u = 1..u \cup {Nil} /\ Nil \notin 1..u
      /\ g \in 0..u /\ n \in 0..u /\ "left" \in Sides /\ t \in Sides
  BY Counting DEF SoundHeap, Sides, SideOf
<1>2. SoundHeap(A, u)
  BY <1>1, RaiseSound
<1>3. RotLeft(h, n) = IF g = Nil THEN A ELSE [A EXCEPT ![g][t] = n]
  BY DEF RotLeft
<1>4. SoundHeap(RotLeft(h, n), u)
  <2> HIDE DEF A, g, t
  <2> QED
    BY <1>1, <1>2, <1>3, LinkSound
<1>5. ASSUME Linked(h, u), h[p].right = n
      PROVE  /\ Linked(RotLeft(h, n), u) /\ RotLeft(h, n)[n].parent = g
             /\ Lifted(h, RotLeft(h, n), u, n, "left")
             /\ g # Nil => /\ RotLeft(h, n)[g].parent = h[g].parent
                           /\ h[g].left = p => RotLeft(h, n)[g].left = n
  <2> DEFINE R == RotLeft(h, n)
  <2>1. CASE g = Nil
    <3>1. R = A /\ Rev("left") = "right"
      BY <1>3, <2>1 DEF Rev
    <3> HIDE DEF R
    <3> QED
      BY <1>1, <1>5, <2>1, <3>1, RotationLinked DEF R
  <2>2. CASE g # Nil
    <3>0. g \in 1..u /\ g # n /\ g # p /\ n # p
      BY <1>1, <1>5, <2>2, AllApart
    <3>1. R = [A EXCEPT ![g][t] = n]
      BY <1>3, <2>2
    <3>2. \A m \in 1..u : A[m] \in Node
      BY <1>1, <1>2 DEF SoundHeap
    <3>3. A[g].left = h[g].left /\ A[g].right = h[g].right
      <4>1. h[n].left # n /\ h[n].left # p
        <5>1. h[n].left \in 1..u => h[h[n].left].parent = n
          BY <1>5 DEF Linked, IsChild
        <5> QED
          BY <1>1, <1>5, <5>1, AllApart
      <4> QED
        BY <1>1, <3>0, <4>1, RaiseFields
    <3>4. A \in [Nodes -> Node]
      BY <1>2 DEF SoundHeap
    <3>13. t \in Sides /\ t = IF A[g].left = p THEN "left" ELSE "right"
      BY <1>1 DEF SideOf
    <3> HIDE DEF A
    <3>5. /\ \A m \in 1..u : R[m].parent = A[m].parent
          /\ \A m \in 1..u \ {g} : R[m].left = A[m].left /\ R[m].right = A[m].right
          /\ R[g][t] = n /\ R[g][Rev(t)] = A[g][Rev(t)]
      <4>1. CASE t = "left" BY <1>1, <3>0, <3>1, <3>2, <3>4, <4>1 DEF Rev, Node
      <4>2. CASE t = "right" BY <1>1, <3>0, <3>1, <3>2, <3>4, <4>2 DEF Rev, Node
      <4> QED BY <1>1, <4>1, <4>2 DEF Sides
    <3>6. h[g][t] = p /\ (h[g].left = p => t = "left")
      <4>1. IsChild(h, g, p)
        BY <1>5, <3>0 DEF Linked
      <4> QED
        BY <3>3, <3>13, <4>1 DEF IsChild
    <3>7. R[g][Rev(t)] = h[g][Rev(t)]
      BY <3>3, <3>5 DEF Rev
    <3>8. h[p][Rev("left")] = n
      BY <1>5 DEF Rev
    <3>9. /\ \A m \in 1..u : R[m].parent = Raise(h, n, "left")[m].parent
          /\ \A m \in 1..u \ {g} : /\ R[m].left = Raise(h, n, "left")[m].left
                                 /\ R[m].right = Raise(h, n, "left")[m].right
      BY <3>5 DEF A
    <3> HIDE DEF R, t, g
    <3>10. h[p].parent = g
      BY DEF g
    <3>11. /\ Linked(R, u) /\ R[n].parent = g /\ (g # Nil => R[g].parent = h[g].parent)
           /\ Lifted(h, R, u, n, "left")
      BY <1>1, <1>5, <3>5, <3>6, <3>7, <3>8, <3>9, <3>10, RotationLinked
    <3> QED
      BY <3>5, <3>6, <3>11 DEF R, g
  <2> QED
    BY <2>1, <2>2
<1> QED
  BY <1>4, <1>5

\* rot_right_par, which keeps the links when there is none above.
LEMMA RotRightKeeps ==
  ASSUME NEW h, NEW u \in 0..MaxNodes, SoundHeap(h, u),
         NEW n \in 1..u, NEW p \in 1..u, h[n].parent = p
  PROVE  /\ SoundHeap(RotRight(h, n), u)
         /\ Linked(h, u) /\ h[p].left = n /\ h[p].parent = Nil
              => Linked(RotRight(h, n), u) /\ Lifted(h, RotRight(h, n), u, n, "right")
<1>1. 1..u \subseteq Nodes /\ Nil \in 0..u /\ "right" \in Sides /\ Rev("right") = "left"
  BY Counting DEF Sides, Rev
<1>2. SoundHeap(RotRight(h, n), u)
  BY <1>1, RaiseSound DEF RotRight
<1>3. ASSUME Linked(h, u), h[p].left = n, h[p].parent = Nil
      PROVE  Linked(RotRight(h, n), u) /\ Lifted(h, RotRight(h, n), u, n, "right")
  <2>1. RotRight(h, n) = Raise(h, n, "right")
    BY DEF RotRight
  <2> QED
    BY <1>1, <1>3, <2>1, RotationLinked
<1> QED
  BY <1>2, <1>3

\* Paint changes neither.
LEMMA PaintKeeps ==
  ASSUME NEW h, NEW u \in 0..MaxNodes, SoundHeap(h, u), NEW n \in 1..u, NEW c \in Colors
  PROVE  /\ SoundHeap([h EXCEPT ![n].color = c], u)
         /\ Linked(h, u) => Linked([h EXCEPT ![n].color = c], u)
         /\ \A m \in 1..u : [h EXCEPT ![n].color = c][m].parent = h[m].parent
<1> DEFINE h2 == [h EXCEPT ![n].color = c]
<1>1. 1..u \subseteq Nodes
  BY Counting
<1>2. SoundHeap(h2, u)
  BY <1>1, PaintSound
<1>3. \A m \in 1..u : h2[m].parent = h[m].parent /\ h2[m].left = h[m].left /\ h2[m].right = h[m].right
  BY <1>1, PaintSound
<1> HIDE DEF h2
<1>4. Linked(h, u) => Linked(h2, u)
  BY <1>3, SameLinks
<1> QED
  BY <1>2, <1>3, <1>4 DEF h2
-----------------------------------------------------------------------------
(***************************************************************************)
(* Every step                                                              *)
(***************************************************************************)
\* The empty tree satisfies the invariant.
LEMMA InitInv == Init => Inv
<1> SUFFICES ASSUME Init PROVE Inv
  OBVIOUS
<1>1. used \in 0..MaxNodes /\ root \in 0..used /\ 1..used = {} /\ Nil = 0 /\ Nil \in Link
  BY Counting DEF Init, Link
<1>2. SoundHeap(heap, used)
  <2>1. \A n \in Nodes : heap[n] = Unallocated
    BY DEF Init
  <2>2. Nil \in 0..used
    BY <1>1
  <2> QED
    BY <1>1, <2>1, <2>2, UnallocatedNode DEF Init, SoundHeap
<1>3. CallInv
  <2>1. AnyKey \in Keys
    BY TreeHeapAssumption DEF AnyKey
  <2> QED
    BY <1>1, <2>1 DEF Init, CallInv, CallType
<1>4. Linked(heap, used)
  BY <1>1 DEF Linked
<1> QED
  BY <1>1, <1>2, <1>3, <1>4 DEF Init, Inv

\* The steps that move the call on and leave the heap alone.
LEMMA CallStep ==
  ASSUME Inv, UNCHANGED <<root, heap, used, faults>>, CallInv',
         call.pc = "dropped" => call'.pc = "dropped"
  PROVE  Inv'
  BY DEF Inv

\* The steps that only have to keep the types: a fault has happened.
LEMMA FaultStep ==
  ASSUME used' \in 0..MaxNodes, root' \in 0..used', SoundHeap(heap', used'), CallInv',
         faults' # {}, faults' \subseteq Faults
  PROVE  Inv'
  BY DEF Inv

\* The descent of an insert and the node it hangs below the leaf.
LEMMA InsertStep == Inv /\ Insert => Inv'
<1> SUFFICES ASSUME Inv, Insert PROVE Inv'
  OBVIOUS
<1>0. /\ used \in 0..MaxNodes /\ root \in 0..used /\ SoundHeap(heap, used) /\ CallInv
      /\ At \in 0..used /\ call \in CallType /\ call.key \in Keys /\ call.pc = "insert"
      /\ 0..used = 1..used \cup {Nil} /\ 1..used \subseteq Nodes /\ 0..used \subseteq Link /\ Nil = 0
  BY Counting DEF Inv, CallInv, CallType, At, Insert, InsertFirst, InsertDescend, InsertAttach,
     InsertPresent, InsertNoMemory
<1>1. ASSUME NEW s \in Sides, At # Nil PROVE heap[At][s] \in 0..used
  BY <1>0, <1>1 DEF SoundHeap, Sides
<1>2. CASE InsertFirst
  <2> DEFINE new == Fresh(Nil, "Black", call.key)
  <2>1. /\ used < MaxNodes /\ used' = used + 1 /\ used' \in 0..MaxNodes /\ used' \in 0..used'
        /\ heap' = [heap EXCEPT ![used + 1] = new] /\ root' = used' /\ faults' = faults
        /\ 1..used' = 1..used \cup {used'} /\ used' \in Nodes /\ used' \notin 0..used
        /\ Nil \in 0..used' /\ Nil \in 0..used /\ "Black" \in Colors /\ Nil \notin 1..used'
    BY <1>0, <1>2, Counting DEF InsertFirst, Alloc, Colors
  <2>2. SoundHeap(heap', used')
    BY <1>0, <2>1, GrowSound
  <2>3. CallInv'
    BY <1>0, <1>2, <2>1 DEF InsertFirst, Return, CallInv, CallType, Link
  <2>4. ASSUME Linked(heap, used) PROVE Linked(heap', used')
    <3>1. /\ heap'[used'].parent = Nil /\ heap'[used'].left = Nil /\ heap'[used'].right = Nil
          /\ \A m \in 1..used : heap'[m] = heap[m]
      BY <1>0, <2>1, FreshNode DEF SoundHeap
    <3>2. \A m \in 1..used : /\ heap[m].parent \in 0..used
                             /\ heap[m].left \in 0..used /\ heap[m].right \in 0..used
      BY <1>0 DEF SoundHeap
    <3>3. \A n, m \in 1..used' : IsChild(heap', n, m) <=> heap'[m].parent = n
      <4> TAKE n, m \in 1..used'
      <4>1. CASE n = used' BY <2>1, <3>1, <3>2, <4>1 DEF IsChild
      <4>2. CASE n \in 1..used /\ m = used' BY <2>1, <3>1, <3>2, <4>2 DEF IsChild
      <4>3. CASE n \in 1..used /\ m \in 1..used BY <2>4, <3>1, <4>3 DEF IsChild, Linked
      <4> QED BY <2>1, <4>1, <4>2, <4>3
    <3>4. \A n \in 1..used' : heap'[n].left = heap'[n].right => heap'[n].left = Nil
      BY <2>1, <2>4, <3>1 DEF Linked
    <3>5. ASSUME NEW S \in SUBSET (1..used'), S # {} PROVE \E n \in S : heap'[n].parent \notin S
      <4>1. CASE used' \in S BY <2>1, <3>1, <4>1
      <4>2. CASE used' \notin S
        <5>1. S \in SUBSET (1..used)
          BY <2>1, <4>2
        <5>2. \E n \in S : heap[n].parent \notin S
          BY <2>4, <3>5, <5>1 DEF Linked
        <5> QED
          BY <3>1, <5>1, <5>2
      <4> QED BY <4>1, <4>2
    <3> QED
      BY <3>3, <3>4, <3>5 DEF Linked
  <2> QED
    BY <1>0, <1>2, <2>1, <2>2, <2>3, <2>4 DEF Inv
<1>3. CASE InsertDescend
  <2>1. Side(At, call.key) \in Sides
    BY DEF Side, Sides
  <2>2. heap[At][Side(At, call.key)] \in 0..used
    BY <1>1, <1>3, <2>1 DEF InsertDescend
  <2>3. CallInv'
    BY <1>0, <1>3, <2>2 DEF InsertDescend, Goto, CallInv, CallType
  <2> QED
    BY <1>0, <1>3, <2>3, CallStep DEF InsertDescend
<1>4. CASE InsertAttach
  <2> DEFINE s == Side(At, call.key)
             new == Fresh(At, "Red", call.key)
             h == [heap EXCEPT ![used + 1] = new]
  <2>1. /\ used < MaxNodes /\ used' = used + 1 /\ used' \in 0..MaxNodes /\ used' \in 0..used'
        /\ heap' = [h EXCEPT ![At][s] = used'] /\ root' = root /\ faults' = faults
        /\ used' \in Nodes /\ used' \notin 0..used /\ 0..used \subseteq 0..used'
        /\ "Red" \in Colors /\ s \in Sides /\ At \in 1..used /\ At \in Nodes /\ heap[At][s] = Nil
        /\ At # used' /\ used' # Nil /\ used' \in Link
    BY <1>0, <1>4, Counting DEF InsertAttach, Alloc, Colors, Side, Sides, Link
  <2>2. SoundHeap(h, used')
    BY <1>0, <2>1, GrowSound
  <2>3. SoundHeap(heap', used')
    <3> HIDE DEF h, s
    <3> QED BY <2>1, <2>2, LinkSound
  <2>4. CallInv'
    <3> HIDE DEF h, s, new
    <3>1. CASE heap[At].color = "Red"
      <4>1. call' = [call EXCEPT !.pc = "recolor", !.at = used']
        BY <1>4, <3>1 DEF InsertAttach
      <4>2. call'.at = used' /\ call' \in CallType
        BY <1>0, <2>1, <4>1 DEF CallType
      <4> QED BY <2>1, <4>2 DEF CallInv
    <3>2. CASE heap[At].color # "Red"
      <4>1. call' = [call EXCEPT !.pc = "idle", !.at = Nil, !.ret = NoValue]
        BY <1>4, <3>2 DEF InsertAttach, Return
      <4>2. call'.at = Nil /\ call'.pc = "idle" /\ call' \in CallType
        BY <1>0, <4>1 DEF CallType
      <4> QED BY <1>0, <2>1, <4>2 DEF CallInv
    <3> QED BY <3>1, <3>2
  <2>5. ASSUME Linked(heap, used) PROVE Linked(heap', used')
    <3>1. h[used'] = new /\ \A m \in 1..used : h[m] = heap[m]
      BY <1>0, <2>1 DEF SoundHeap
    <3>2. h \in [Nodes -> Node]
      BY <2>2 DEF SoundHeap
    <3>3. new.parent = At /\ new.left = Nil /\ new.right = Nil
      BY <1>0, <2>1, FreshNode
    <3>4. \A m \in Nodes : m # At => heap'[m] = h[m]
      <4> HIDE DEF h, s
      <4> QED BY <2>1, <3>2
    <3>5. /\ heap'[At].parent = heap[At].parent
          /\ heap'[At][s] = used' /\ heap'[At][Rev(s)] = heap[At][Rev(s)]
      <4>1. h[At] = heap[At] /\ h[At] \in Node /\ heap'[At] = [h[At] EXCEPT ![s] = used']
        <5> HIDE DEF h, s
        <5> QED BY <2>1, <3>1, <3>2
      <4> HIDE DEF h, s
      <4>2. CASE s = "left" BY <4>1, <4>2 DEF Rev, Node
      <4>3. CASE s = "right" BY <4>1, <4>3 DEF Rev, Node
      <4> QED BY <2>1, <4>2, <4>3 DEF Sides
    <3>6. /\ heap'[used + 1].parent = At /\ heap'[used + 1].left = Nil /\ heap'[used + 1].right = Nil
      BY <2>1, <3>1, <3>3, <3>4
    <3>7. /\ \A m \in 1..used : heap'[m].parent = heap[m].parent
          /\ \A m \in 1..used \ {At} : heap'[m].left = heap[m].left /\ heap'[m].right = heap[m].right
      <4> HIDE DEF h, s
      <4> QED BY <1>0, <2>1, <3>1, <3>4, <3>5
    <3>8. Linked(heap', used + 1)
      <4> HIDE DEF s, h
      <4>1. Hangs(heap, heap', used, At, s)
        BY <2>1, <3>5, <3>6, <3>7 DEF Hangs
      <4> QED BY <1>0, <2>1, <2>5, <4>1, GrowLinked
    <3> QED
      BY <2>1, <3>8
  <2> QED
    BY <1>0, <1>4, <2>1, <2>3, <2>4, <2>5 DEF Inv
<1>5. CASE InsertPresent
  <2>1. CallInv'
    BY <1>0, <1>5 DEF InsertPresent, Panic, CallInv, CallType
  <2> QED
    BY <1>0, <1>5, <2>1, CallStep DEF InsertPresent, Panic
<1>6. CASE InsertNoMemory
  <2>1. CallInv'
    BY <1>0, <1>6 DEF InsertNoMemory, Return, CallInv, CallType
  <2> QED
    BY <1>0, <1>6, <2>1, CallStep DEF InsertNoMemory
<1> QED
  BY <1>2, <1>3, <1>4, <1>5, <1>6 DEF Insert

\* Two nodes are painted.
LEMMA PaintTwice ==
  ASSUME NEW h, NEW u \in 0..MaxNodes, SoundHeap(h, u),
         NEW n \in 1..u, NEW c \in Colors, NEW m \in 1..u, NEW d \in Colors
  PROVE  /\ SoundHeap([h EXCEPT ![n].color = c, ![m].color = d], u)
         /\ Linked(h, u) => Linked([h EXCEPT ![n].color = c, ![m].color = d], u)
<1> DEFINE h1 == [h EXCEPT ![n].color = c]
<1>1. SoundHeap(h1, u) /\ (Linked(h, u) => Linked(h1, u))
  BY PaintKeeps
<1> HIDE DEF h1
<1>2. /\ SoundHeap([h1 EXCEPT ![m].color = d], u)
      /\ Linked(h1, u) => Linked([h1 EXCEPT ![m].color = d], u)
  BY <1>1, PaintKeeps
<1> QED
  BY <1>1, <1>2 DEF h1

\* recolor_2 goes on with a node.
LEMMA GoOnKeeps ==
  ASSUME Inv, call.pc = "recolor", SoundHeap(heap', used), used' = used, GoOn(heap')
  PROVE  CallInv'
<1>1. /\ At \in 1..used /\ call \in CallType /\ 0..used \subseteq Link /\ Nil \notin 1..used
      /\ 0..used = 1..used \cup {Nil} /\ 1..used \subseteq Nodes
  BY Counting DEF Inv, CallInv, At
<1> DEFINE x == IF heap'[At].parent = Nil THEN At ELSE heap'[At].parent
<1>2. x \in 1..used
  BY <1>1 DEF SoundHeap
<1>3. call' = [call EXCEPT !.at = x]
  BY DEF GoOn, Goto
<1> HIDE DEF x
<1>4. call' \in CallType /\ call'.at = x
  BY <1>1, <1>2, <1>3 DEF CallType
<1> QED
  BY <1>1, <1>2, <1>4 DEF CallInv

\* A call ends.
LEMMA ReturnKeeps ==
  ASSUME Inv, used' \in 0..MaxNodes, NEW v \in Values \cup {NoValue}, Return(v)
  PROVE  CallInv' /\ call'.pc = "idle"
<1>1. call \in CallType /\ Nil \in Link /\ Nil \in 0..used'
  BY Counting DEF Inv, CallInv, Link
<1>2. call' = [call EXCEPT !.pc = "idle", !.at = Nil, !.ret = v]
  BY DEF Return
<1>3. call' \in CallType /\ call'.at = Nil /\ call'.pc = "idle"
  BY <1>1, <1>2 DEF CallType
<1> QED
  BY <1>1, <1>3 DEF CallInv

\* The node raised by rot_left_par is below another one again.
LEMMA RotLeftParent ==
  ASSUME NEW h, NEW u \in 0..MaxNodes, SoundHeap(h, u), NEW n \in 1..u, NEW p \in 1..u, h[n].parent = p,
         h[p].parent # Nil
  PROVE  RotLeft(h, n)[n].parent \in 1..u
<1> DEFINE g == h[p].parent
           A == Raise(h, n, "left")
           t == SideOf(A, g, p)
<1>1. n \in Nodes /\ p \in Nodes /\ n \in 0..u /\ "left" \in Sides /\ t \in Sides
  BY Counting DEF Sides, SideOf
<1>2. h[n] \in Node /\ h[p] \in Node /\ g \in 1..u
  BY <1>1, Counting DEF SoundHeap
<1>3. A[n].parent \in 1..u
  <2>1. A[n] \in {[h[n] EXCEPT !.parent = g, !.left = p], [h[p] EXCEPT !.parent = n, !.right = h[n].left],
                  [h[n] EXCEPT !.parent = p]}
    BY <1>1 DEF Raise, Rev
  <2> HIDE DEF A, g
  <2> QED
    BY <1>2, <2>1 DEF Node
<1>4. RotLeft(h, n) = IF g = Nil THEN A ELSE [A EXCEPT ![g][t] = n]
  BY DEF RotLeft
<1>5. SoundHeap(A, u)
  BY <1>1, RaiseSound
<1>6. A \in [Nodes -> Node]
  BY <1>5 DEF SoundHeap
<1> HIDE DEF A, t
<1>7. CASE t = "left" BY <1>1, <1>3, <1>4, <1>6, <1>7 DEF Node
<1>8. CASE t = "right" BY <1>1, <1>3, <1>4, <1>6, <1>8 DEF Node
<1> QED
  BY <1>1, <1>7, <1>8 DEF Sides

\* Every iteration of recolor_2.
LEMMA RecolorStep == Inv /\ Recolor => Inv'
<1> SUFFICES ASSUME Inv, Recolor PROVE Inv'
  OBVIOUS
<1>0. /\ used \in 0..MaxNodes /\ root \in 0..used /\ SoundHeap(heap, used) /\ CallInv
      /\ At \in 1..used /\ Parent \in 0..used /\ call \in CallType /\ call.pc = "recolor"
      /\ 0..used = 1..used \cup {Nil} /\ 1..used \subseteq Nodes /\ 0..used \subseteq Link
      /\ Nil \notin 1..used /\ {"Red", "Black"} \subseteq Colors /\ {"left", "right"} \subseteq Sides
      /\ faults \subseteq Faults
      /\ faults = {} => Linked(heap, used)
  <2>1. call.pc = "recolor"
    BY DEF Recolor, RecolorDone, RecolorPanic, Repaint, RotateOnceLeft, RotateOnceRight,
       RotateTwice, RotateOncePanic, RotateTwicePanic, Rotates, RedUncle, HasGrand, RedParent, Recoloring
  <2> QED
    BY <2>1, Counting DEF Inv, CallInv, At, Parent, SoundHeap, Colors, Sides
<1>1. CASE RecolorDone
  <2>1. used' = used /\ faults' = faults /\ NoValue \in Values \cup {NoValue}
    BY <1>1 DEF RecolorDone
  <2>2. CallInv' /\ call'.pc = "idle"
    BY <1>0, <1>1, <2>1, ReturnKeeps DEF RecolorDone
  <2>3. CASE Parent = Nil
    <3>1. root' = At /\ heap' = [heap EXCEPT ![At].color = "Black"]
      BY <1>1, <2>3 DEF RecolorDone
    <3>2. SoundHeap(heap', used) /\ (Linked(heap, used) => Linked(heap', used))
      BY <1>0, <3>1, PaintKeeps
    <3> QED
      BY <1>0, <2>1, <2>2, <3>1, <3>2 DEF Inv
  <2>4. CASE Parent # Nil
    BY <1>0, <1>1, <2>1, <2>2, <2>4 DEF RecolorDone, Inv
  <2> QED
    BY <2>3, <2>4
<1>2. CASE RecolorPanic
  <2>1. CallInv'
    BY <1>0, <1>2 DEF RecolorPanic, Panic, CallInv, CallType
  <2> QED
    BY <1>0, <1>2, <2>1, CallStep DEF RecolorPanic, Panic
<1>3. ASSUME HasGrand
      PROVE  Parent \in 1..used /\ Grand \in 1..used /\ IsChild(heap, Grand, Parent)
  BY <1>0, <1>3 DEF HasGrand, RedParent, Grand, SoundHeap
<1>4. CASE Repaint
  <2>1. Parent \in 1..used /\ Grand \in 1..used /\ Uncle \in 1..used
    <3>1. HasGrand /\ Uncle # Nil
      BY <1>4 DEF Repaint, RedUncle
    <3>2. Uncle \in 0..used
      BY <1>0, <1>3, <3>1 DEF Uncle, SoundHeap
    <3> QED
      BY <1>0, <1>3, <3>1, <3>2
  <2> DEFINE h == [heap EXCEPT ![Parent].color = "Black", ![Uncle].color = "Black"]
  <2>2. SoundHeap(h, used) /\ (Linked(heap, used) => Linked(h, used))
    BY <1>0, <2>1, PaintTwice
  <2>3. used' = used /\ root' = root /\ faults' = faults /\ NoValue \in Values \cup {NoValue}
        /\ IF heap[Grand].parent = Nil
           THEN heap' = h /\ Return(NoValue)
           ELSE heap' = [h EXCEPT ![Grand].color = "Red"] /\ Goto(Grand)
    BY <1>4 DEF Repaint
  <2> HIDE DEF h
  <2>4. CASE heap[Grand].parent = Nil
    <3>1. CallInv'
      BY <1>0, <2>3, <2>4, ReturnKeeps
    <3> QED
      BY <1>0, <2>2, <2>3, <2>4, <3>1 DEF Inv
  <2>5. CASE heap[Grand].parent # Nil
    <3>1. SoundHeap(heap', used) /\ (Linked(h, used) => Linked(heap', used))
      BY <1>0, <2>1, <2>2, <2>3, <2>5, PaintKeeps
    <3>2. CallInv'
      <4>1. call' = [call EXCEPT !.at = Grand]
        BY <2>3, <2>5 DEF Goto
      <4>2. call' \in CallType /\ call'.at = Grand
        BY <1>0, <2>1, <4>1 DEF CallType
      <4> QED
        BY <1>0, <2>1, <2>3, <4>2 DEF CallInv
    <3> QED
      BY <1>0, <2>2, <2>3, <3>1, <3>2 DEF Inv
  <2> QED
    BY <2>4, <2>5
<1>5. ASSUME Rotates
      PROVE  /\ Parent \in 1..used /\ Grand \in 1..used
             /\ heap[At].parent = Parent /\ heap[Parent].parent = Grand
             /\ Turned = "left" => heap[Grand].right = Parent
             /\ Turned = "right" => heap[Grand].left = Parent
             /\ ~Straight /\ Turned = "right" => heap[Parent].right = At
             /\ Turned \in {"left", "right"}
  <2>1. HasGrand /\ IsChild(heap, Parent, At)
    BY <1>5 DEF Rotates
  <2> QED
    BY <1>3, <2>1 DEF Turned, Straight, SideOf, IsChild, Parent, Grand
<1>6. CASE RotateOnceLeft
  <2> DEFINE R == RotLeft(heap, Parent)
  <2>0. Rotates /\ Turned = "left"
    BY <1>6 DEF RotateOnceLeft
  <2>1. SoundHeap(R, used) /\ (Linked(heap, used) => Linked(R, used))
    BY <1>0, <1>5, <2>0, RotLeftKeeps
  <2>2. /\ heap' = [R EXCEPT ![Grand].color = "Red", ![Parent].color = "Black"]
        /\ GoOn(heap') /\ root' = root /\ used' = used /\ faults' = faults \cup Stale
    BY <1>6 DEF RotateOnceLeft
  <2> HIDE DEF R
  <2>3. SoundHeap(heap', used) /\ (Linked(R, used) => Linked(heap', used))
    BY <1>0, <1>5, <2>0, <2>1, <2>2, PaintTwice
  <2>4. CallInv'
    BY <1>0, <2>2, <2>3, GoOnKeeps
  <2>5. faults' \subseteq Faults /\ (faults' = {} => faults = {})
    BY <1>0, <2>2 DEF Stale, Faults
  <2> QED
    BY <1>0, <2>1, <2>2, <2>3, <2>4, <2>5 DEF Inv
<1>7. CASE RotateOnceRight
  <2> DEFINE R == RotRight(heap, Parent)
  <2>0. Rotates /\ Turned = "right"
    BY <1>7 DEF RotateOnceRight
  <2>1. SoundHeap(R, used) /\ (Linked(heap, used) /\ heap[Grand].parent = Nil => Linked(R, used))
    BY <1>0, <1>5, <2>0, RotRightKeeps
  <2>2. /\ heap' = [R EXCEPT ![Grand].color = "Red", ![Parent].color = "Black"]
        /\ GoOn(heap') /\ root' = root /\ used' = used
        /\ faults' = faults \cup Stale \cup (IF Unlinks(heap, Parent) THEN {"unlinked"} ELSE {})
    BY <1>7 DEF RotateOnceRight
  <2> HIDE DEF R
  <2>3. SoundHeap(heap', used) /\ (Linked(R, used) => Linked(heap', used))
    BY <1>0, <1>5, <2>0, <2>1, <2>2, PaintTwice
  <2>4. CallInv'
    BY <1>0, <2>2, <2>3, GoOnKeeps
  <2>5. faults' = {} => faults = {} /\ heap[Grand].parent = Nil
    BY <1>5, <2>0, <2>2 DEF Unlinks
  <2>6. faults' \subseteq Faults
    BY <1>0, <2>2 DEF Stale, Faults
  <2> QED
    BY <1>0, <2>1, <2>2, <2>3, <2>4, <2>5, <2>6 DEF Inv
<1>8. CASE RotateTwice
  <2> DEFINE h == RotLeft(heap, At)
             R == RotRight(h, At)
             h1 == [R EXCEPT ![At].color = "Black"]
  <2>0. Rotates /\ Turned = "right" /\ ~Straight
    BY <1>8 DEF RotateTwice
  <2>1. /\ heap' = [h1 EXCEPT ![Parent].color = "Red", ![Grand].color = "Red"]
        /\ GoOn(heap') /\ root' = root /\ used' = used
        /\ faults' = faults \cup Stale \cup (IF Unlinks(h, At) THEN {"unlinked"} ELSE {})
                            \cup (IF heap[At].color = "Black" THEN {"not_red"} ELSE {})
    BY <1>8 DEF RotateTwice
  <2>2. SoundHeap(h, used) /\ h[At].parent \in 1..used
    BY <1>0, <1>5, <2>0, RotLeftKeeps, RotLeftParent
  <2>3. Linked(heap, used) => /\ Linked(h, used) /\ h[At].parent = Grand
                              /\ h[Grand].parent = heap[Grand].parent /\ h[Grand].left = At
    BY <1>0, <1>5, <2>0, RotLeftKeeps
  <2>4. SoundHeap(R, used)
        /\ (Linked(heap, used) /\ h[h[At].parent].parent = Nil => Linked(R, used))
    <3> HIDE DEF h
    <3> QED
      BY <1>0, <2>2, <2>3, RotRightKeeps
  <2>5. SoundHeap(h1, used) /\ (Linked(R, used) => Linked(h1, used))
    <3> HIDE DEF R
    <3> QED
      BY <1>0, <2>4, PaintKeeps
  <2>6. SoundHeap(heap', used) /\ (Linked(h1, used) => Linked(heap', used))
    <3> HIDE DEF h1
    <3> QED
      BY <1>0, <1>5, <2>0, <2>1, <2>5, PaintTwice
  <2> HIDE DEF h, R, h1
  <2>7. CallInv'
    BY <1>0, <2>1, <2>6, GoOnKeeps
  <2>8. faults' = {} => faults = {} /\ h[h[At].parent].parent = Nil
    BY <2>1 DEF Unlinks
  <2>9. faults' \subseteq Faults
    BY <1>0, <2>1 DEF Stale, Faults
  <2> QED
    BY <1>0, <2>1, <2>3, <2>4, <2>5, <2>6, <2>7, <2>8, <2>9 DEF Inv
<1>9. ASSUME NEW h, SoundHeap(h, used), HalfDone(h)
      PROVE  Inv'
  <2>1. heap' = h /\ root' = root /\ used' = used /\ faults' = faults \cup Stale \cup {"half_done"}
        /\ call' = [call EXCEPT !.pc = "failed"]
    BY <1>9 DEF HalfDone
  <2>2. CallInv'
    BY <1>0, <2>1 DEF CallInv, CallType
  <2>3. faults' # {} /\ faults' \subseteq Faults
    BY <1>0, <2>1 DEF Stale, Faults
  <2> QED
    BY <1>0, <1>9, <2>1, <2>2, <2>3, FaultStep
<1>10. CASE RotateOncePanic
  <2>1. Rotates /\ HalfDone(Raise(heap, Parent, "left"))
    BY <1>10 DEF RotateOncePanic
  <2>2. SoundHeap(Raise(heap, Parent, "left"), used)
    BY <1>0, <1>5, <2>1, RaiseSound
  <2> QED
    BY <1>9, <2>1, <2>2
<1>11. CASE RotateTwicePanic
  <2>1. Rotates /\ HalfDone(BeginLeft(RotRight(heap, At), At))
    BY <1>11 DEF RotateTwicePanic
  <2>2. SoundHeap(RotRight(heap, At), used)
    BY <1>0, <1>5, <2>1, RaiseSound DEF RotRight
  <2>3. SoundHeap(BeginLeft(RotRight(heap, At), At), used)
    BY <1>0, <2>2, BeginLeftSound
  <2> QED
    BY <1>9, <2>1, <2>3
<1> QED
  BY <1>1, <1>2, <1>4, <1>6, <1>7, <1>8, <1>10, <1>11 DEF Recolor

\* remove_node and the copies RbTree::remove and TreeNode::remove make.
LEMMA RemoveStep == Inv /\ Remove => Inv'
<1> SUFFICES ASSUME Inv, Remove PROVE Inv'
  OBVIOUS
<1>0. /\ used \in 0..MaxNodes /\ root \in 0..used /\ SoundHeap(heap, used) /\ CallInv
      /\ At \in 0..used /\ call \in CallType /\ call.pc = "remove"
      /\ 0..used = 1..used \cup {Nil} /\ 1..used \subseteq Nodes /\ 0..used \subseteq Link /\ Nil \in 0..used
      /\ faults \subseteq Faults
  <2>1. call.pc = "remove"
    BY DEF Remove, RemoveRoot, RemoveDescend, RemoveChild, RemoveNothing, Searching
  <2> QED
    BY <2>1, Counting DEF Inv, CallInv, At
<1>1. ASSUME At # Nil
      PROVE  /\ At \in 1..used /\ At \in Nodes /\ heap[At].val \in Values
             /\ Way \in Sides /\ Candidate \in 0..used
  BY <1>0, <1>1 DEF SoundHeap, Node, Way, Candidate, Sides
<1>2. ASSUME used' = used, root' \in 0..used, SoundHeap(heap', used), faults' = faults \cup {"removed"},
             Return(heap[At].val), At # Nil
      PROVE  Inv'
  <2>1. CallInv'
    BY <1>0, <1>1, <1>2, ReturnKeeps
  <2>2. faults' # {} /\ faults' \subseteq Faults
    BY <1>0, <1>2 DEF Faults
  <2> QED
    BY <1>0, <1>2, <2>1, <2>2, FaultStep
<1>3. CASE RemoveRoot
  <2>1. /\ At # Nil /\ heap' = RemoveNode(heap, At) /\ root' = Unlinked(heap, At) /\ used' = used
        /\ faults' = faults \cup {"removed"} /\ Return(heap[At].val)
    BY <1>3 DEF RemoveRoot
  <2>2. SoundHeap(heap', used)
    BY <1>0, <1>1, <2>1, RemoveNodeSound
  <2>3. root' \in 0..used
    BY <1>0, <2>1, UnlinkedType
  <2> QED
    BY <1>2, <2>1, <2>2, <2>3
<1>4. CASE RemoveChild
  <2> DEFINE c == Candidate
             x == Unlinked(heap, c)
             R == RemoveNode(heap, c)
             h == [R EXCEPT ![At][Way] = x]
  <2>1. /\ At # Nil /\ c # Nil /\ root' = root /\ used' = used
        /\ heap' = [h EXCEPT ![At].key = heap[c].key, ![At].val = heap[c].val]
        /\ faults' = faults \cup {"removed"} /\ Return(heap[At].val)
    BY <1>4 DEF RemoveChild, Searching
  <2>2. At \in Nodes /\ Way \in Sides /\ c \in 0..used /\ c \in Nodes
    BY <1>0, <1>1, <2>1
  <2>3. x \in 0..used
    BY <1>0, <2>2, UnlinkedType
  <2>4. heap[c].key \in Keys /\ heap[c].val \in Values /\ heap[c].val = Value(heap[c].key)
    BY <1>0, <2>2 DEF SoundHeap, Node
  <2>5. SoundHeap(R, used)
    BY <1>0, <2>2, RemoveNodeSound
  <2>6. SoundHeap(h, used)
    <3> HIDE DEF R, x, c
    <3> QED
      BY <1>0, <2>2, <2>3, <2>5, LinkSound
  <2> HIDE DEF h, c
  <2>7. SoundHeap(heap', used)
    <3>1. heap' = [m \in Nodes |-> IF m = At THEN [h[m] EXCEPT !.key = heap[c].key, !.val = heap[c].val]
                                             ELSE h[m]]
      BY <2>1, <2>2, <2>6 DEF SoundHeap
    <3>2. ASSUME NEW m \in Nodes
          PROVE  /\ heap'[m] \in Node
                 /\ heap'[m].parent \in 0..used /\ heap'[m].left \in 0..used /\ heap'[m].right \in 0..used
                 /\ heap'[m].val = Value(heap'[m].key)
      <4>1. /\ h[m] \in Node /\ h[m].val = Value(h[m].key)
            /\ h[m].parent \in 0..used /\ h[m].left \in 0..used /\ h[m].right \in 0..used
        BY <2>6 DEF SoundHeap
      <4>2. heap'[m] \in {h[m], [h[m] EXCEPT !.key = heap[c].key, !.val = heap[c].val]}
        BY <3>1
      <4> QED
        BY <2>4, <4>1, <4>2 DEF Node
    <3> QED
      BY <3>1, <3>2 DEF SoundHeap
  <2> QED
    BY <1>0, <1>2, <2>1, <2>7
<1>5. CASE RemoveDescend
  <2>1. Candidate \in 0..used /\ call' = [call EXCEPT !.at = Candidate]
        /\ UNCHANGED <<root, heap, used, faults>>
    BY <1>1, <1>5 DEF RemoveDescend, Searching, Goto
  <2>2. call' \in CallType /\ call'.at = Candidate /\ call'.pc = "remove"
    BY <1>0, <2>1 DEF CallType
  <2>3. CallInv'
    BY <2>1, <2>2 DEF CallInv
  <2> QED
    BY <1>0, <2>1, <2>2, <2>3, CallStep
<1>6. CASE RemoveNothing
  <2>1. Return(NoValue) /\ UNCHANGED <<root, heap, used, faults>>
    BY <1>6 DEF RemoveNothing
  <2>2. CallInv'
    BY <1>0, <2>1, ReturnKeeps
  <2> QED
    BY <1>0, <2>1, <2>2, CallStep
<1> QED
  BY <1>3, <1>4, <1>5, <1>6 DEF Remove

\* Every step keeps the invariant.
LEMMA InvStep == Inv /\ [Next]_vars => Inv'
<1> SUFFICES ASSUME Inv, [Next]_vars PROVE Inv'
  OBVIOUS
<1>0. /\ used \in 0..MaxNodes /\ root \in 0..used /\ SoundHeap(heap, used) /\ CallInv
      /\ call \in CallType /\ 0..used \subseteq Link /\ Nil \in 0..used /\ 1..used \subseteq Nodes
      /\ faults \subseteq Faults
  BY Counting DEF Inv, CallInv
<1>1. CASE UNCHANGED vars
  BY <1>1 DEF vars, Inv, CallInv
<1>2. ASSUME NEW op \in {"insert", "remove"}, NEW k \in Keys, Call(op, k) PROVE Inv'
  <2>1. CallInv'
    BY <1>0, <1>2 DEF Call, CallInv, CallType
  <2> QED
    BY <1>2, <2>1, CallStep DEF Call
<1>3. CASE DropTree
  <2>1. /\ used' = used /\ root' \in 0..used /\ faults' = faults
        /\ call' = [call EXCEPT !.pc = "dropped"]
        /\ heap' = [n \in Nodes |-> IF n \in Reach(heap, root) THEN Unallocated ELSE heap[n]]
    BY <1>0, <1>3 DEF DropTree
  <2>2. SoundHeap(heap', used)
    BY <1>0, <2>1, UnallocatedNode DEF SoundHeap
  <2>3. CallInv' /\ call'.pc = "dropped"
    BY <1>0, <2>1 DEF CallInv, CallType
  <2> QED
    BY <1>0, <2>1, <2>2, <2>3 DEF Inv
<1> QED
  BY <1>1, <1>2, <1>3, InsertStep, RecolorStep, RemoveStep, RemovableAssumption DEF Next
-----------------------------------------------------------------------------
\* Types, whole pairs and links in both directions are kept together.
THEOREM Inductive == Spec => []Inv
  BY InitInv, InvStep, PTL DEF Spec

\* The nodes and the call keep their types, and no link leads to memory that
\* was not allocated, also after an assert that failed in the middle of a
\* rotation (rb_tree.rs:149-190, 192-376).
THEOREM TypeCorrect == Spec => []TypeOK
<1>1. Inv => TypeOK
  BY DEF Inv, CallInv, CallType, SoundHeap, TypeOK, At, Faults
<1> QED
  BY <1>1, Inductive, PTL

\* A value stays with its key, however the nodes are turned and copied
\* (rb_tree.rs:149-190, 355-357, 413-415).
THEOREM PairsAlwaysStay == Spec => []PairsStay
<1>1. Inv => PairsStay
  BY EntriesOfNodes DEF Inv, SoundHeap, PairsStay
<1> QED
  BY <1>1, Inductive, PTL

\* Until a fault the links go both ways, through any number of inserts and
\* iterations of recolor_2, however deep the tree is (rb_tree.rs:149-190).
THEOREM LinksAlwaysAgree == Spec => []LinksAgree
<1>1. Inv => LinksAgree
  BY DEF Inv, Linked, LinksAgree
<1> QED
  BY <1>1, Inductive, PTL
-----------------------------------------------------------------------------
(***************************************************************************)
(* What is reached while the links go both ways                            *)
(***************************************************************************)
\* Links that lead to allocated nodes only.
LEMMA SoundRooted ==
  ASSUME NEW h, NEW u \in 0..MaxNodes, SoundHeap(h, u), NEW x \in 0..u
  PROVE  /\ Rooted(h, x) /\ Reach(h, x) \subseteq 1..u /\ 1..u \subseteq Nodes /\ Nil \notin 1..u
         /\ \A n \in 1..u : Children(h, n) \subseteq 1..u /\ h[n].left \in 0..u /\ h[n].right \in 0..u
<1>1. 0..u = 1..u \cup {Nil} /\ 1..u \subseteq Nodes /\ Nil \notin 1..u /\ 0..u \subseteq Nodes \cup {Nil}
  BY Counting DEF Link
<1>2. \A n \in Nodes : h[n].left \in 0..u /\ h[n].right \in 0..u /\ Children(h, n) \subseteq 1..u
  BY <1>1 DEF SoundHeap, Children
<1>3. Rooted(h, x)
  BY <1>1, <1>2 DEF Rooted, Closed
<1>4. Closed(h, 1..u) /\ x \in 1..u \cup {Nil}
  BY <1>1, <1>2 DEF Closed
<1>5. Reach(h, x) \subseteq 1..u
  BY <1>4, ReachLeast
<1> QED
  BY <1>1, <1>2, <1>3, <1>5

\* The owner of a node is its parent.
LEMMA OwnerIsParent ==
  ASSUME NEW h, NEW u \in 0..MaxNodes, SoundHeap(h, u), Linked(h, u), NEW n \in 1..u, NEW m
  PROVE  m \in Children(h, n) <=> m \in 1..u /\ h[m].parent = n
<1>1. Children(h, n) \subseteq 1..u /\ Nil \notin 1..u
  <2>1. 0 \in 0..u
    BY Counting
  <2> QED
    BY <2>1, SoundRooted
<1>2. m \in 1..u => (IsChild(h, n, m) <=> h[m].parent = n)
  BY DEF Linked
<1> QED
  BY <1>1, <1>2 DEF Children, IsChild

\* Wherever one begins, the nodes that are reached form a tree.
LEMMA LinkedTree ==
  ASSUME NEW h, NEW u \in 0..MaxNodes, SoundHeap(h, u), Linked(h, u), NEW r \in 0..u
  PROVE  Tree(h, r)
<1> DEFINE S == Reach(h, r)
<1>1. S \subseteq 1..u /\ Rooted(h, r)
  BY SoundRooted
<1>2. \A n, m \in S : Children(h, n) \cap Children(h, m) # {} => n = m
  BY <1>1, OwnerIsParent
<1>3. \A n \in S : h[n].left = h[n].right => h[n].left = Nil
  BY <1>1 DEF Linked
<1>4. ASSUME NEW n \in S, r \in Children(h, n) PROVE FALSE
  <2>1. n \in 1..u /\ h[r].parent = n
    BY <1>1, <1>4, OwnerIsParent
  <2>2. ASSUME NEW m \in S PROVE h[m].parent \in S
    <3>1. CASE m = r BY <1>4, <2>1, <3>1
    <3>2. CASE m # r
      <4>1. PICK o \in S : m \in Children(h, o)
        BY <1>1, <3>2, HasOwner
      <4> QED
        BY <1>1, <4>1, OwnerIsParent
    <3> QED BY <3>1, <3>2
  <2> HIDE DEF S
  <2> QED
    BY <1>1, <1>4, <2>2 DEF Linked
<1> QED
  BY <1>2, <1>3, <1>4 DEF Tree

\* r is the one node without parent.
Topped(h, u, r) == r \in 1..u /\ \A n \in 1..u : h[n].parent = Nil <=> n = r

\* From there every node is reached.
LEMMA AllReached ==
  ASSUME NEW h, NEW u \in 0..MaxNodes, SoundHeap(h, u), Linked(h, u), NEW r, Topped(h, u, r)
  PROVE  Reach(h, r) = 1..u
<1> DEFINE S == 1..u \ Reach(h, r)
<1>1. r \in 1..u /\ r \in 0..u /\ r # Nil
  BY Counting DEF Topped
<1>2. Rooted(h, r) /\ Reach(h, r) \subseteq 1..u
  BY <1>1, SoundRooted
<1>3. r \in Reach(h, r)
  BY <1>1, <1>2, ReachRoot
<1>4. ASSUME S # {} PROVE FALSE
  <2>1. S \in SUBSET (1..u)
    OBVIOUS
  <2>2. PICK n \in S : h[n].parent \notin S
    BY <1>4, <2>1 DEF Linked
  <2>3. n \in 1..u /\ n # r /\ h[n].parent # Nil
    BY <1>3, <2>2 DEF Topped
  <2>4. h[n].parent \in 1..u
    BY <2>3, Counting DEF SoundHeap
  <2>5. h[n].parent \in Reach(h, r)
    BY <2>2, <2>4
  <2>6. n \in Children(h, h[n].parent)
    BY <2>3, <2>4, OwnerIsParent
  <2>7. Closed(h, Reach(h, r))
    BY <1>2, ReachClosed
  <2> QED
    BY <2>2, <2>5, <2>6, <2>7 DEF Closed
<1> QED
  BY <1>2, <1>4

\* A rotation may change the top, when it raises a node above it.
LEMMA LiftTop ==
  ASSUME NEW h, NEW R, NEW u \in 0..MaxNodes, SoundHeap(h, u), Linked(h, u),
         NEW n \in 1..u, NEW s \in Sides, h[n].parent \in 1..u, Lifted(h, R, u, n, s),
         NEW r, Topped(h, u, r)
  PROVE  Topped(R, u, IF r = h[n].parent THEN n ELSE r)
<1> DEFINE p == h[n].parent
<1>1. n # p /\ Nil \notin 1..u
  BY AllApart, Counting
<1>2. /\ R[n].parent = h[p].parent /\ R[p].parent = n
      /\ \A m \in 1..u \ {n, p} : R[m].parent = IF m = h[n][s] THEN p ELSE h[m].parent
  BY DEF Lifted
<1>3. h[n][s] \in 0..u
  BY Counting DEF SoundHeap, Sides
<1>4. h[n][s] # Nil => h[h[n][s]].parent = n /\ h[n][s] \in 1..u
  <2>1. h[n][s] # Nil => h[n][s] \in Children(h, n)
    BY DEF Sides, Children
  <2> QED
    BY <2>1, OwnerIsParent
<1>5. p \in 1..u /\ h[n].parent = p
  OBVIOUS
<1> HIDE DEF p
<1> QED
  BY <1>1, <1>2, <1>3, <1>4, <1>5 DEF Topped

\* The same nodes are reached from all but the two that are turned.
LEMMA LiftReach ==
  ASSUME NEW h, NEW R, NEW u \in 0..MaxNodes, SoundHeap(h, u), Linked(h, u),
         SoundHeap(R, u), Linked(R, u),
         NEW n \in 1..u, NEW s \in Sides, NEW p \in 1..u, h[n].parent = p, h[p][Rev(s)] = n,
         Lifted(h, R, u, n, s)
  PROVE  /\ \A x \in 0..u \ {n, p} : Reach(R, x) = Reach(h, x)
         /\ Reach(R, n) = Reach(h, p)
         /\ Reach(R, p) = {p} \cup Reach(h, h[n][s]) \cup Reach(h, h[p][s])
<1> DEFINE b == h[n][s]
           a == h[n][Rev(s)]
           c == h[p][s]
<1>0. /\ n # p /\ Nil \notin 1..u /\ 0..u = 1..u \cup {Nil} /\ n \in Nodes /\ p \in Nodes
      /\ h[p].parent # n /\ h[p].parent # p
  BY AllApart, Counting
<1>1. a \in 0..u /\ b \in 0..u /\ c \in 0..u
  BY Counting DEF SoundHeap, Sides, Rev
<1>2. /\ Children(h, n) = {a, b} \ {Nil} /\ Children(h, p) = {n, c} \ {Nil}
      /\ Children(R, n) = {a, p} \ {Nil} /\ Children(R, p) = {b, c} \ {Nil}
  <2>1. CASE s = "left" BY <2>1 DEF Lifted, Children, Rev
  <2>2. CASE s = "right" BY <2>2 DEF Lifted, Children, Rev
  <2> QED BY <2>1, <2>2 DEF Sides
<1>3. \A m \in 1..u \ {n, p} : /\ p \notin Children(h, m) => Children(R, m) = Children(h, m)
                              /\ p \in Children(h, m) => /\ n \in Children(R, m)
                                                         /\ Children(R, m) \subseteq Children(h, m) \cup {n}
                                                         /\ Children(h, m) \subseteq Children(R, m) \cup {p}
  BY <1>0 DEF Lifted, Children
<1>31. ASSUME NEW m \in 1..u, m \notin {n, p}, p \notin Children(h, m)
      PROVE  Children(R, m) = Children(h, m)
  BY <1>0, <1>31 DEF Lifted, Children
<1>4. \A x \in 0..u : /\ Rooted(h, x) /\ Rooted(R, x) /\ Reach(h, x) \subseteq 1..u /\ Reach(R, x) \subseteq 1..u
                      /\ Closed(h, Reach(h, x)) /\ Closed(R, Reach(R, x))
                      /\ x # Nil => x \in Reach(h, x) /\ x \in Reach(R, x)
  BY SoundRooted, ReachClosed, ReachRoot
<1>5. ASSUME NEW x \in 0..u \ {n, p} PROVE Reach(R, x) = Reach(h, x)
  <2> DEFINE S == Reach(h, x)
             T == Reach(R, x)
  <2>1. n \in S => p \in S
    <3>1. ASSUME n \in S PROVE p \in S
      <4>1. PICK o \in S : n \in Children(h, o)
        BY <1>4, <3>1, HasOwner
      <4>2. o \in 1..u /\ h[n].parent = o
        BY <1>4, <4>1, OwnerIsParent
      <4> QED BY <4>1, <4>2
    <3> QED BY <3>1
  <2>2. p \in T => n \in T
    <3>1. ASSUME p \in T PROVE n \in T
      <4>1. PICK o \in T : p \in Children(R, o)
        BY <1>4, <3>1, HasOwner
      <4>2. o \in 1..u /\ R[p].parent = o
        BY <1>4, <4>1, OwnerIsParent
      <4>3. R[p].parent = n
        BY DEF Lifted
      <4> QED BY <4>1, <4>2, <4>3
    <3> QED BY <3>1
  <2>3. Closed(h, S) /\ Closed(R, T) /\ S \subseteq 1..u /\ T \subseteq 1..u
        /\ x \in S \cup {Nil} /\ x \in T \cup {Nil}
    BY <1>4
  <2> HIDE DEF S, T, a, b, c
  <2>4. Closed(R, S)
    <3>1. ASSUME NEW m \in S PROVE Children(R, m) \subseteq S
      <4>1. Children(h, m) \subseteq S
        BY <2>3 DEF Closed
      <4>2. CASE m = n
        <5>1. p \in S
          BY <2>1, <4>2
        <5> QED BY <1>2, <4>1, <4>2, <5>1
      <4>3. CASE m = p
        <5>1. n \in S
          BY <1>0, <1>2, <4>1, <4>3
        <5>2. Children(h, n) \subseteq S
          BY <2>3, <5>1 DEF Closed
        <5> QED BY <1>2, <4>1, <4>3, <5>2
      <4>4. CASE m \notin {n, p} /\ p \in Children(h, m)
        <5>1. Children(h, p) \subseteq S
          BY <2>3, <4>1, <4>4 DEF Closed
        <5>2. n \in S
          BY <1>0, <1>2, <5>1
        <5> QED BY <1>3, <2>3, <4>1, <4>4, <5>2
      <4>5. CASE m \notin {n, p} /\ p \notin Children(h, m)
        <5>1. m \in 1..u
          BY <2>3
        <5>2. Children(R, m) = Children(h, m)
          BY <1>31, <4>5, <5>1
        <5> QED BY <4>1, <5>2
      <4> QED BY <4>2, <4>3, <4>4, <4>5
    <3> QED BY <3>1 DEF Closed
  <2>5. Closed(h, T)
    <3>1. ASSUME NEW m \in T PROVE Children(h, m) \subseteq T
      <4>1. Children(R, m) \subseteq T
        BY <2>3 DEF Closed
      <4>2. CASE m = n
        <5>1. p \in T
          BY <1>0, <1>2, <4>1, <4>2
        <5>2. Children(R, p) \subseteq T
          BY <2>3, <5>1 DEF Closed
        <5> QED BY <1>2, <4>1, <4>2, <5>2
      <4>3. CASE m = p
        <5>1. n \in T
          BY <2>2, <4>3
        <5> QED BY <1>2, <4>1, <4>3, <5>1
      <4>4. CASE m \notin {n, p} /\ p \in Children(h, m)
        <5>1. n \in T
          BY <1>3, <2>3, <4>1, <4>4
        <5>2. p \in T
          <6>1. Children(R, n) \subseteq T
            BY <2>3, <5>1 DEF Closed
          <6> QED BY <1>0, <1>2, <6>1
        <5> QED BY <1>3, <2>3, <4>1, <4>4, <5>2
      <4>5. CASE m \notin {n, p} /\ p \notin Children(h, m)
        <5>1. m \in 1..u
          BY <2>3
        <5>2. Children(R, m) = Children(h, m)
          BY <1>31, <4>5, <5>1
        <5> QED BY <4>1, <5>2
      <4> QED BY <4>2, <4>3, <4>4, <4>5
    <3> QED BY <3>1 DEF Closed
  <2>6. T \subseteq S
    BY <2>3, <2>4, ReachLeast DEF T
  <2>7. S \subseteq T
    BY <2>3, <2>5, ReachLeast DEF S
  <2> QED BY <2>6, <2>7 DEF S, T
<1>6. /\ a \notin {n, p} /\ b \notin {n, p} /\ c \notin {n, p}
  <2>1. /\ a \in Children(h, n) \/ a = Nil
        /\ b \in Children(h, n) \/ b = Nil
        /\ c \in Children(h, p) \/ c = Nil
    BY <1>2
  <2>2. /\ a # Nil => h[a].parent = n /\ a \in 1..u
        /\ b # Nil => h[b].parent = n /\ b \in 1..u
        /\ c # Nil => h[c].parent = p /\ c \in 1..u
    BY <2>1, OwnerIsParent
  <2>3. c # n
    <3>1. h[p].left = h[p].right => h[p].left = Nil
      BY DEF Linked
    <3> QED BY <1>0, <3>1 DEF Sides, Rev
  <2>4. h[p].parent # p
    BY <1>0
  <2> QED
    BY <1>0, <2>2, <2>3, <2>4, AllApart
<1>7. Reach(R, p) = {p} \cup Reach(h, b) \cup Reach(h, c)
  <2>1. Reach(R, p) = {p} \cup Reach(R, R[p].left) \cup Reach(R, R[p].right)
    BY <1>0, <1>4, ReachUnfold
  <2>2. {R[p].left, R[p].right} = {b, c}
    <3>1. CASE s = "left" BY <3>1 DEF Lifted, Rev
    <3>2. CASE s = "right" BY <3>2 DEF Lifted, Rev
    <3> QED BY <3>1, <3>2 DEF Sides
  <2>3. Reach(R, b) = Reach(h, b) /\ Reach(R, c) = Reach(h, c)
    BY <1>1, <1>5, <1>6
  <2> HIDE DEF a, b, c
  <2> QED BY <2>1, <2>2, <2>3
<1>8. Reach(R, n) = {n} \cup Reach(h, a) \cup Reach(R, p)
  <2>1. Reach(R, n) = {n} \cup Reach(R, R[n].left) \cup Reach(R, R[n].right)
    BY <1>0, <1>4, ReachUnfold
  <2>2. {R[n].left, R[n].right} = {a, p}
    <3>1. CASE s = "left" BY <3>1 DEF Lifted, Rev
    <3>2. CASE s = "right" BY <3>2 DEF Lifted, Rev
    <3> QED BY <3>1, <3>2 DEF Sides
  <2>3. Reach(R, a) = Reach(h, a)
    BY <1>1, <1>5, <1>6
  <2> HIDE DEF a, b, c
  <2> QED BY <2>1, <2>2, <2>3
<1>9. Reach(h, n) = {n} \cup Reach(h, a) \cup Reach(h, b)
  <2>1. Reach(h, n) = {n} \cup Reach(h, h[n].left) \cup Reach(h, h[n].right)
    BY <1>0, <1>4, ReachUnfold
  <2>2. {h[n].left, h[n].right} = {a, b}
    BY DEF Sides, Rev
  <2> HIDE DEF a, b, c
  <2> QED BY <2>1, <2>2
<1>10. Reach(h, p) = {p} \cup Reach(h, n) \cup Reach(h, c)
  <2>1. Reach(h, p) = {p} \cup Reach(h, h[p].left) \cup Reach(h, h[p].right)
    BY <1>0, <1>4, ReachUnfold
  <2>2. {h[p].left, h[p].right} = {n, c}
    BY DEF Sides, Rev
  <2> HIDE DEF a, b, c
  <2> QED BY <2>1, <2>2
<1> HIDE DEF a, b, c
<1>11. Reach(R, n) = Reach(h, p)
  BY <1>7, <1>8, <1>9, <1>10
<1> QED
  BY <1>5, <1>7, <1>11 DEF b, c
-----------------------------------------------------------------------------
(***************************************************************************)
(* The order of the keys                                                   *)
(***************************************************************************)
\* Key b belongs on side s of key a.
OnSide(s, a, b) == IF s = "right" THEN a < b ELSE b < a

\* Sides are mirror images of each other, and strict: rev and cmp
\* (rb_tree.rs:108-118, 193-221).
LEMMA OnSideFacts ==
  ASSUME NEW s \in Sides, NEW a \in Int, NEW b \in Int
  PROVE  /\ OnSide(Rev(s), a, b) <=> OnSide(s, b, a)
         /\ \A c \in Int : OnSide(s, a, b) /\ OnSide(s, b, c) => OnSide(s, a, c)
         /\ OnSide(s, a, b) => a # b
         /\ a # b => OnSide(IF a < b THEN "right" ELSE "left", a, b)
  BY DEF OnSide, Sides, Rev

\* Below every one of the nodes each key is on the side where it belongs.
InOrder(h, u) ==
  \A n \in 1..u, s \in Sides : \A m \in Reach(h, h[n][s]) : OnSide(s, h[n].key, h[m].key)

\* In a tree of all nodes this is the order by which KeysInOrder compares.
LEMMA InOrderIs ==
  ASSUME NEW h, NEW u, NEW r, Reach(h, r) = 1..u
  PROVE  InOrder(h, u) <=> Ordered(h, r, "right")
<1>1. InOrder(h, u) <=> \A n \in 1..u : /\ \A m \in Reach(h, h[n].right) : OnSide("right", h[n].key, h[m].key)
                                       /\ \A m \in Reach(h, h[n].left) : OnSide("left", h[n].key, h[m].key)
  BY DEF InOrder, Sides
<1> QED
  BY <1>1 DEF Ordered, OnSide, Rev

\* The children of the nodes that are turned, and of the others.
LEMMA LiftApart ==
  ASSUME NEW h, NEW u \in 0..MaxNodes, SoundHeap(h, u), Linked(h, u),
         NEW n \in 1..u, NEW p \in 1..u, NEW s \in Sides, h[n].parent = p, h[p][Rev(s)] = n
  PROVE  /\ \A t \in Sides : h[n][t] \in 0..u \ {n, p}
         /\ h[p][s] \in 0..u \ {n, p} /\ n # p
         /\ \A x \in 1..u \ {n, p}, t \in Sides : h[x][t] \in 0..u \ {n}
<1>0. /\ n # p /\ Nil \notin 1..u /\ 0..u = 1..u \cup {Nil}
      /\ h[p].parent # n /\ h[p].parent # p
  BY AllApart, Counting
<1>1. \A x \in 1..u, t \in Sides : h[x][t] \in 0..u
  BY Counting DEF SoundHeap, Sides
<1>2. \A x \in 1..u, t \in Sides : h[x][t] # Nil => h[h[x][t]].parent = x
  <2> TAKE x \in 1..u, t \in Sides
  <2>1. h[x][t] # Nil => h[x][t] \in Children(h, x)
    BY DEF Sides, Children
  <2> QED
    BY <2>1, OwnerIsParent
<1>3. h[p][s] # n
  <2>1. h[p].left = h[p].right => h[p].left = Nil
    BY DEF Linked
  <2> QED BY <1>0, <2>1 DEF Sides, Rev
<1>4. \A t \in Sides : h[n][t] # n /\ h[n][t] # p
  BY <1>0, <1>2
<1>5. h[p][s] # p
  BY <1>0, <1>2
<1>6. \A x \in 1..u \ {n, p}, t \in Sides : h[x][t] # n
  BY <1>0, <1>2
<1> QED
  BY <1>0, <1>1, <1>3, <1>4, <1>5, <1>6

\* A rotation hands over the subtree in between, and no key is out of order.
LEMMA LiftOrder ==
  ASSUME NEW h, NEW R, NEW u \in 0..MaxNodes, SoundHeap(h, u), Linked(h, u),
         SoundHeap(R, u), Linked(R, u),
         NEW n \in 1..u, NEW s \in Sides, NEW p \in 1..u, h[n].parent = p, h[p][Rev(s)] = n,
         Lifted(h, R, u, n, s), \A m \in 1..u : R[m].key = h[m].key,
         InOrder(h, u)
  PROVE  InOrder(R, u)
<1> DEFINE b == h[n][s]
           a == h[n][Rev(s)]
           c == h[p][s]
<1>0. Rev(s) \in Sides /\ Rev(Rev(s)) = s /\ Sides = {s, Rev(s)} /\ 1..u \subseteq Nodes
  BY Counting DEF Sides, Rev
<1>1. /\ a \in 0..u \ {n, p} /\ b \in 0..u \ {n, p} /\ c \in 0..u \ {n, p} /\ n # p
      /\ \A x \in 1..u \ {n, p}, t \in Sides : h[x][t] \in 0..u \ {n}
  BY <1>0, LiftApart
<1>2. /\ R[n][s] = p /\ R[n][Rev(s)] = a /\ R[p][Rev(s)] = b /\ R[p][s] = c
      /\ \A x \in 1..u \ {n, p}, t \in Sides : R[x][t] = IF h[x][t] = p THEN n ELSE h[x][t]
  BY DEF Lifted, Sides
<1>3. /\ \A x \in 0..u \ {n, p} : Reach(R, x) = Reach(h, x)
      /\ Reach(R, n) = Reach(h, p)
      /\ Reach(R, p) = {p} \cup Reach(h, b) \cup Reach(h, c)
  BY LiftReach
<1>4. \A x \in 1..u : h[x].key \in Int /\ R[x].key = h[x].key
  BY <1>0, TreeHeapAssumption DEF SoundHeap, Node
<1>5. \A x \in 0..u : Reach(h, x) \subseteq 1..u /\ Rooted(h, x)
  BY SoundRooted
<1>6. n \in Reach(h, h[p][Rev(s)]) /\ Reach(h, b) \subseteq Reach(h, n)
  <2>1. n \in Reach(h, n) /\ n # Nil /\ Rooted(h, n)
    BY <1>5, Counting, ReachRoot
  <2>2. Reach(h, n) = {n} \cup Reach(h, h[n].left) \cup Reach(h, h[n].right)
    BY <1>0, <2>1, ReachUnfold
  <2> QED
    BY <2>1, <2>2 DEF Sides
<1>7. \A x \in 1..u, t \in Sides : \A m \in Reach(h, h[x][t]) : OnSide(t, h[x].key, h[m].key)
  BY DEF InOrder
<1>71. ASSUME \A x \in 1..u, t \in Sides : \A m \in Reach(R, R[x][t]) : OnSide(t, h[x].key, h[m].key)
      PROVE  InOrder(R, u)
  <2>1. \A x \in 1..u, t \in Sides : R[x][t] \in 0..u
    BY Counting DEF SoundHeap, Sides
  <2>2. \A x \in 1..u, t \in Sides : Reach(R, R[x][t]) \subseteq 1..u
    BY <2>1, SoundRooted
  <2> QED
    BY <1>4, <1>71, <2>2 DEF InOrder
<1> SUFFICES \A x \in 1..u, t \in Sides : \A m \in Reach(R, R[x][t]) : OnSide(t, h[x].key, h[m].key)
  BY <1>71
<1> TAKE x \in 1..u, t \in Sides
<1> TAKE m \in Reach(R, R[x][t])
<1>8. CASE x \notin {n, p}
  <2>1. Reach(R, R[x][t]) = Reach(h, h[x][t])
    <3>1. CASE h[x][t] = p BY <1>2, <1>3, <1>8, <3>1
    <3>2. CASE h[x][t] # p BY <1>1, <1>2, <1>3, <1>8, <3>2
    <3> QED BY <3>1, <3>2
  <2> QED
    BY <1>7, <2>1
<1>9. OnSide(s, h[n].key, h[p].key)
  <2>1. OnSide(Rev(s), h[p].key, h[n].key)
    BY <1>0, <1>6, <1>7
  <2> QED
    BY <1>4, <2>1, OnSideFacts
<1> HIDE DEF a, b, c
<1>10. CASE x = n /\ t = s
  <2>1. m \in {p} \cup Reach(h, b) \cup Reach(h, c)
    BY <1>2, <1>3, <1>10
  <2>2. CASE m = p BY <1>9, <1>10, <2>2
  <2>3. CASE m \in Reach(h, b) BY <1>7, <1>10, <2>3 DEF b
  <2>4. CASE m \in Reach(h, c)
    <3>1. OnSide(s, h[p].key, h[m].key)
      BY <1>7, <2>4 DEF c
    <3>2. m \in 1..u
      BY <1>1, <1>5, <2>4
    <3> QED
      BY <1>4, <1>9, <1>10, <3>1, <3>2, OnSideFacts
  <2> QED BY <2>1, <2>2, <2>3, <2>4
<1>11. CASE x = n /\ t = Rev(s)
  <2>1. m \in Reach(h, a)
    BY <1>1, <1>2, <1>3, <1>11
  <2> QED BY <1>7, <1>11, <2>1 DEF a
<1>12. CASE x = p /\ t = Rev(s)
  <2>1. m \in Reach(h, b)
    BY <1>1, <1>2, <1>3, <1>12
  <2>2. m \in Reach(h, h[p][Rev(s)])
    BY <1>6, <2>1
  <2> QED BY <1>7, <1>12, <2>2
<1>13. CASE x = p /\ t = s
  <2>1. m \in Reach(h, c)
    BY <1>1, <1>2, <1>3, <1>13
  <2> QED BY <1>7, <1>13, <2>1 DEF c
<1> QED
  BY <1>0, <1>8, <1>10, <1>11, <1>12, <1>13
-----------------------------------------------------------------------------
(***************************************************************************)
(* What the rotations of recolor_2 do while nothing has gone wrong         *)
(***************************************************************************)
\* Nothing has gone wrong, and the tree is in use.
Whole == faults = {} /\ call.pc # "dropped"

\* Keys and values stay in their nodes.
PairsKept(h, R, u) == \A m \in 1..u : R[m].key = h[m].key /\ R[m].val = h[m].val

ColorsKept(h, R, u) == \A m \in 1..u : R[m].color = h[m].color

AllLinks(h, R, u) == \A m \in 1..u : R[m].parent = h[m].parent /\ R[m].left = h[m].left /\ R[m].right = h[m].right

\* A rotation moves no key, value or colour (rb_tree.rs:149-190): first the part
\* that both directions share ...
LEMMA RaiseData ==
  ASSUME NEW h, NEW u \in 0..MaxNodes, SoundHeap(h, u), NEW n \in 1..u, NEW p \in 1..u, h[n].parent = p, NEW s \in Sides
  PROVE  PairsKept(h, Raise(h, n, s), u) /\ ColorsKept(h, Raise(h, n, s), u)
<1>1. n \in Nodes /\ p \in Nodes /\ 1..u \subseteq Nodes
  BY Counting
<1>2. \A m \in 1..u : h[m] \in Node
  BY <1>1 DEF SoundHeap
<1>3. ASSUME NEW m \in 1..u
      PROVE  /\ Raise(h, n, s)[m].key = h[m].key /\ Raise(h, n, s)[m].val = h[m].val
             /\ Raise(h, n, s)[m].color = h[m].color
  <2>1. \/ m = n /\ Raise(h, n, s)[m] = [h[n] EXCEPT !.parent = h[p].parent, ![s] = p]
        \/ m = p /\ Raise(h, n, s)[m] = [h[p] EXCEPT !.parent = n, ![Rev(s)] = h[n][s]]
        \/ Raise(h, n, s)[m] = [h[m] EXCEPT !.parent = p]
        \/ Raise(h, n, s)[m] = h[m]
    BY <1>1 DEF Raise
  <2> QED BY <1>2, <2>1 DEF Node, Sides, Rev
<1> QED
  BY <1>3 DEF PairsKept, ColorsKept

\* ... then each direction.
LEMMA RotData ==
  ASSUME NEW h, NEW u \in 0..MaxNodes, SoundHeap(h, u), NEW n \in 1..u, NEW p \in 1..u, h[n].parent = p
  PROVE  /\ PairsKept(h, RotLeft(h, n), u) /\ ColorsKept(h, RotLeft(h, n), u)
         /\ PairsKept(h, RotRight(h, n), u) /\ ColorsKept(h, RotRight(h, n), u)
<1> DEFINE g == h[h[n].parent].parent
           A == Raise(h, n, "left")
           t == SideOf(A, g, h[n].parent)
<1>0. "left" \in Sides /\ "right" \in Sides /\ t \in Sides /\ 1..u \subseteq Nodes
  BY Counting DEF Sides, SideOf
<1>1. PairsKept(h, A, u) /\ ColorsKept(h, A, u) /\ SoundHeap(A, u)
  <2>1. n \in Nodes /\ h[n].parent \in Nodes
    BY <1>0
  <2>2. Raise(h, n, "left") = A
    OBVIOUS
  <2> HIDE DEF A
  <2> QED BY <1>0, <2>1, <2>2, RaiseData, RaiseSound
<1>2. RotLeft(h, n) = IF g = Nil THEN A ELSE [A EXCEPT ![g][t] = n]
  BY DEF RotLeft
<1>3. \A m \in 1..u : A[m] \in Node /\ A \in [Nodes -> Node]
  BY <1>0, <1>1 DEF SoundHeap
<1> HIDE DEF A, g, t
<1>4. \A m \in 1..u : /\ RotLeft(h, n)[m].key = A[m].key /\ RotLeft(h, n)[m].val = A[m].val
                      /\ RotLeft(h, n)[m].color = A[m].color
  <2>1. CASE t = "left" BY <1>0, <1>2, <1>3, <2>1 DEF Node
  <2>2. CASE t = "right" BY <1>0, <1>2, <1>3, <2>2 DEF Node
  <2> QED BY <1>0, <2>1, <2>2 DEF Sides
<1>5. PairsKept(h, RotLeft(h, n), u) /\ ColorsKept(h, RotLeft(h, n), u)
  BY <1>1, <1>4 DEF PairsKept, ColorsKept
<1>6. PairsKept(h, RotRight(h, n), u) /\ ColorsKept(h, RotRight(h, n), u)
  BY <1>0, RaiseData DEF RotRight
<1> QED
  BY <1>5, <1>6

\* Two nodes, or twice the same, are painted, and nothing else changes.
Painted(h, R, u, n, c, x, d) ==
  /\ AllLinks(h, R, u) /\ PairsKept(h, R, u) /\ SoundHeap(R, u)
  /\ \A m \in 1..u : R[m].color = IF m = x THEN d ELSE IF m = n THEN c ELSE h[m].color

\* An assignment to the colour of one node ...
LEMMA PaintOneIs ==
  ASSUME NEW h, NEW u \in 0..MaxNodes, SoundHeap(h, u), NEW n \in 1..u, NEW c \in Colors
  PROVE  Painted(h, [h EXCEPT ![n].color = c], u, n, c, n, c)
<1> DEFINE R == [h EXCEPT ![n].color = c]
<1>1. 1..u \subseteq Nodes
  BY Counting
<1>2. h \in [Nodes -> Node]
  BY DEF SoundHeap
<1>3. SoundHeap(R, u)
  BY <1>1, PaintSound
<1>4. \A m \in 1..u : R[m].color = IF m = n THEN c ELSE h[m].color
  BY <1>1, <1>2 DEF Node
<1>5. AllLinks(h, R, u) /\ PairsKept(h, R, u)
  BY <1>1, <1>2 DEF AllLinks, PairsKept, Node
<1> HIDE DEF R
<1> QED
  BY <1>3, <1>4, <1>5 DEF Painted, R

\* ... and to those of two.
LEMMA PaintTwoIs ==
  ASSUME NEW h, NEW u \in 0..MaxNodes, SoundHeap(h, u), NEW n \in 1..u, NEW c \in Colors,
         NEW x \in 1..u, NEW d \in Colors
  PROVE  Painted(h, [h EXCEPT ![n].color = c, ![x].color = d], u, n, c, x, d)
<1> DEFINE h1 == [h EXCEPT ![n].color = c]
           R == [h1 EXCEPT ![x].color = d]
<1>1. Painted(h, h1, u, n, c, n, c)
  BY PaintOneIs
<1>2. SoundHeap(h1, u)
  BY <1>1 DEF Painted
<1>3. R = [h EXCEPT ![n].color = c, ![x].color = d]
  OBVIOUS
<1> HIDE DEF h1
<1>4. Painted(h1, R, u, x, d, x, d)
  BY <1>2, PaintOneIs
<1> HIDE DEF R
<1>5. Painted(h, R, u, n, c, x, d)
  BY <1>1, <1>4 DEF Painted, AllLinks, PairsKept
<1> QED
  BY <1>3, <1>5

\* What is turned stays turned when it is painted.
LEMMA PaintLifted ==
  ASSUME NEW h, NEW R, NEW R2, NEW u, NEW n \in 1..u, h[n].parent \in 1..u, NEW s \in Sides,
         Lifted(h, R, u, n, s), AllLinks(R, R2, u)
  PROVE  Lifted(h, R2, u, n, s)
<1>1. CASE s = "left" BY <1>1 DEF Lifted, AllLinks, Rev
<1>2. CASE s = "right" BY <1>2 DEF Lifted, AllLinks, Rev
<1> QED BY <1>1, <1>2 DEF Sides

\* Where the nodes that take part in a rotation hang.
LEMMA RotatesAt ==
  ASSUME Inv, Rotates
  PROVE  /\ At \in 1..used /\ Parent \in 1..used /\ Grand \in 1..used
         /\ heap[At].parent = Parent /\ heap[Parent].parent = Grand
         /\ Turned \in Sides /\ Rev(Turned) \in Sides /\ heap[Grand][Rev(Turned)] = Parent
         /\ Straight => heap[Parent][Rev(Turned)] = At
         /\ ~Straight => heap[Parent][Turned] = At
         /\ call.pc = "recolor" /\ ~RedUncle /\ heap[Parent].color = "Red"
<1>1. RedParent /\ HasGrand /\ Grand # Nil /\ Parent # Nil /\ At # Nil /\ call.pc = "recolor" /\ ~RedUncle
      /\ IsChild(heap, Grand, Parent) /\ IsChild(heap, Parent, At) /\ heap[Parent].color = "Red"
  BY DEF Rotates, HasGrand, RedParent, Recoloring, Inv, CallInv, At
<1>2. used \in 0..MaxNodes /\ SoundHeap(heap, used) /\ At \in 0..used /\ 0..used = 1..used \cup {Nil}
      /\ 1..used \subseteq Nodes
  BY Counting DEF Inv, CallInv, At
<1>3. At \in 1..used /\ Parent \in 1..used
  BY <1>1, <1>2 DEF SoundHeap, Parent
<1>4. Grand \in 1..used
  BY <1>1, <1>2, <1>3 DEF SoundHeap, Grand
<1> QED
  BY <1>1, <1>3, <1>4 DEF Turned, Straight, SideOf, IsChild, Parent, Grand, Sides, Rev

\* A single rotation: its links and colours.
Once(s) ==
  /\ At \in 1..used /\ Parent \in 1..used /\ Grand \in 1..used /\ s \in Sides
  /\ heap[At].parent = Parent /\ heap[Parent].parent = Grand
  /\ heap[Grand][Rev(s)] = Parent /\ heap[Parent][Rev(s)] = At
  /\ heap[Parent].color = "Red" /\ ~RedUncle /\ HasGrand
  /\ Linked(heap', used) /\ Lifted(heap, heap', used, Parent, s) /\ PairsKept(heap, heap', used)
  /\ \A m \in 1..used : heap'[m].color = IF m = Parent THEN "Black" ELSE
                                         IF m = Grand THEN "Red" ELSE heap[m].color
  /\ root' = root /\ used' = used /\ GoOn(heap') /\ call.pc = "recolor"

\* A single rotation without a fault turns the parent above the grandparent
\* (rb_tree.rs:304-317).
LEMMA OnceIs ==
  ASSUME Inv, Inv', faults' = {}, call.pc # "dropped", RotateOnceLeft \/ RotateOnceRight
  PROVE  Whole /\ \E s \in Sides : Once(s)
<1> DEFINE s == IF Turned = "left" THEN "left" ELSE "right"
           R == IF Turned = "left" THEN RotLeft(heap, Parent) ELSE RotRight(heap, Parent)
<1>0. Rotates /\ Straight /\ HasGrand
  BY DEF RotateOnceLeft, RotateOnceRight, Rotates
<1>1. /\ At \in 1..used /\ Parent \in 1..used /\ Grand \in 1..used
      /\ heap[At].parent = Parent /\ heap[Parent].parent = Grand
      /\ heap[Grand][Rev(s)] = Parent /\ heap[Parent][Rev(s)] = At /\ s \in Sides
      /\ call.pc = "recolor" /\ ~RedUncle /\ heap[Parent].color = "Red"
  BY <1>0, RotatesAt DEF Sides
<1>2. /\ heap' = [R EXCEPT ![Grand].color = "Red", ![Parent].color = "Black"]
      /\ faults = {} /\ (s = "right" => heap[Grand].parent = Nil)
      /\ root' = root /\ used' = used /\ GoOn(heap')
  <2>1. CASE RotateOnceLeft BY <1>1, <2>1 DEF RotateOnceLeft, Stale
  <2>2. CASE RotateOnceRight BY <1>1, <2>2 DEF RotateOnceRight, Stale, Unlinks
  <2> QED BY <2>1, <2>2
<1>3. /\ used \in 0..MaxNodes /\ SoundHeap(heap, used) /\ Linked(heap, used)
      /\ {"Red", "Black"} \subseteq Colors
  BY <1>1, <1>2 DEF Inv, Colors
<1>4. /\ SoundHeap(R, used) /\ Linked(R, used) /\ Lifted(heap, R, used, Parent, s)
      /\ PairsKept(heap, R, used) /\ ColorsKept(heap, R, used)
  <2>1. CASE s = "left"
    <3>1. heap[Grand].right = Parent /\ R = RotLeft(heap, Parent)
      BY <1>1, <2>1 DEF Rev
    <3> HIDE DEF R, s
    <3> QED BY <1>1, <1>3, <2>1, <3>1, RotLeftKeeps, RotData, AllApart
  <2>2. CASE s = "right"
    <3>1. heap[Grand].left = Parent /\ R = RotRight(heap, Parent)
      BY <1>1, <2>2 DEF Rev
    <3> HIDE DEF R, s
    <3> QED BY <1>1, <1>2, <1>3, <2>2, <3>1, RotRightKeeps, RotData, AllApart
  <2> QED BY <2>1, <2>2
<1> HIDE DEF R, s
<1>5. /\ AllLinks(R, heap', used) /\ PairsKept(R, heap', used) /\ SoundHeap(heap', used)
      /\ \A m \in 1..used : heap'[m].color = IF m = Parent THEN "Black" ELSE
                                             IF m = Grand THEN "Red" ELSE R[m].color
  <2>0. "Red" \in Colors /\ "Black" \in Colors
    BY DEF Colors
  <2>1. Painted(R, [R EXCEPT ![Grand].color = "Red", ![Parent].color = "Black"], used,
                Grand, "Red", Parent, "Black")
    BY <1>1, <1>3, <1>4, <2>0, PaintTwoIs
  <2>2. Painted(R, heap', used, Grand, "Red", Parent, "Black")
    BY <1>2, <2>1
  <2> QED BY <2>2 DEF Painted
<1>6. Lifted(heap, heap', used, Parent, s)
  BY <1>1, <1>4, <1>5, PaintLifted
<1>7. Linked(heap', used)
  BY <1>4, <1>5, SameLinks DEF AllLinks
<1>8. PairsKept(heap, heap', used)
  BY <1>4, <1>5 DEF PairsKept
<1>9. \A m \in 1..used : heap'[m].color = IF m = Parent THEN "Black" ELSE
                                          IF m = Grand THEN "Red" ELSE heap[m].color
  BY <1>4, <1>5 DEF ColorsKept
<1>10. Once(s)
  BY <1>0, <1>1, <1>2, <1>6, <1>7, <1>8, <1>9 DEF Once
<1> QED
  BY <1>1, <1>2, <1>10 DEF Whole

\* A double rotation at the top: the heap h between the two.
Twice(h) ==
  /\ At \in 1..used /\ Parent \in 1..used /\ Grand \in 1..used
  /\ heap[At].parent = Parent /\ heap[Parent].parent = Grand /\ heap[Grand].parent = Nil
  /\ heap[Grand].left = Parent /\ heap[Parent].right = At
  /\ heap[Parent].color = "Red" /\ heap[At].color = "Red" /\ ~RedUncle /\ HasGrand
  /\ SoundHeap(h, used) /\ Linked(h, used) /\ Lifted(heap, h, used, At, "left") /\ PairsKept(heap, h, used)
  /\ h[At].parent = Grand /\ h[Grand].left = At
  /\ Linked(heap', used) /\ Lifted(h, heap', used, At, "right") /\ PairsKept(h, heap', used)
  /\ \A m \in 1..used : heap'[m].color = IF m = At THEN "Black" ELSE
                                         IF m = Parent \/ m = Grand THEN "Red" ELSE heap[m].color
  /\ root' = root /\ used' = used /\ GoOn(heap') /\ call.pc = "recolor"

\* A double rotation without a fault turns the node above its parent and then
\* above the grandparent, which was the top (rb_tree.rs:280-302).
LEMMA TwiceIs ==
  ASSUME Inv, Inv', faults' = {}, call.pc # "dropped", RotateTwice
  PROVE  Whole /\ \E h : Twice(h)
<1> DEFINE h == RotLeft(heap, At)
           R == RotRight(h, At)
           h1 == [R EXCEPT ![At].color = "Black"]
<1>0. Rotates /\ ~Straight /\ HasGrand /\ Turned = "right"
  BY DEF RotateTwice, Rotates
<1>1. /\ At \in 1..used /\ Parent \in 1..used /\ Grand \in 1..used
      /\ heap[At].parent = Parent /\ heap[Parent].parent = Grand
      /\ heap[Grand].left = Parent /\ heap[Parent].right = At
      /\ call.pc = "recolor" /\ ~RedUncle /\ heap[Parent].color = "Red"
  BY <1>0, RotatesAt DEF Sides, Rev
<1>2. /\ heap' = [h1 EXCEPT ![Parent].color = "Red", ![Grand].color = "Red"]
      /\ faults = {} /\ h[h[At].parent].parent = Nil /\ heap[At].color # "Black"
      /\ root' = root /\ used' = used /\ GoOn(heap')
  BY DEF RotateTwice, Stale, Unlinks
<1>3. /\ used \in 0..MaxNodes /\ SoundHeap(heap, used) /\ Linked(heap, used)
      /\ {"Red", "Black"} \subseteq Colors /\ 1..used \subseteq Nodes /\ "left" \in Sides /\ "right" \in Sides
  BY <1>1, <1>2, Counting DEF Inv, Colors, Sides
<1>4. heap[At].color = "Red"
  BY <1>1, <1>2, <1>3 DEF SoundHeap, Node, Colors
<1>5. /\ SoundHeap(h, used) /\ Linked(h, used) /\ Lifted(heap, h, used, At, "left")
      /\ PairsKept(heap, h, used) /\ ColorsKept(heap, h, used)
      /\ h[At].parent = Grand /\ h[Grand].parent = heap[Grand].parent /\ h[Grand].left = At
  BY <1>1, <1>3, Counting, RotLeftKeeps, RotData, AllApart
<1> HIDE DEF h
<1>6. heap[Grand].parent = Nil
  BY <1>2, <1>5
<1>7. /\ SoundHeap(R, used) /\ Linked(R, used) /\ Lifted(h, R, used, At, "right")
      /\ PairsKept(h, R, used) /\ ColorsKept(h, R, used)
  BY <1>1, <1>3, <1>5, <1>6, RotRightKeeps, RotData, AllApart
<1> HIDE DEF R
<1>8. /\ AllLinks(R, h1, used) /\ PairsKept(R, h1, used) /\ SoundHeap(h1, used)
      /\ \A m \in 1..used : h1[m].color = IF m = At THEN "Black" ELSE R[m].color
  <2>1. Painted(R, h1, used, At, "Black", At, "Black")
    BY <1>1, <1>3, <1>7, PaintOneIs
  <2> HIDE DEF h1
  <2> QED BY <2>1 DEF Painted
<1> HIDE DEF h1
<1>9. /\ AllLinks(h1, heap', used) /\ PairsKept(h1, heap', used) /\ SoundHeap(heap', used)
      /\ \A m \in 1..used : heap'[m].color = IF m = Grand THEN "Red" ELSE
                                             IF m = Parent THEN "Red" ELSE h1[m].color
  <2>0. "Red" \in Colors
    BY DEF Colors
  <2>1. Painted(h1, [h1 EXCEPT ![Parent].color = "Red", ![Grand].color = "Red"], used,
                Parent, "Red", Grand, "Red")
    BY <1>1, <1>3, <1>8, <2>0, PaintTwoIs
  <2>2. Painted(h1, heap', used, Parent, "Red", Grand, "Red")
    BY <1>2, <2>1
  <2> QED BY <2>2 DEF Painted
<1>10. AllLinks(R, heap', used) /\ PairsKept(h, heap', used)
  BY <1>7, <1>8, <1>9 DEF AllLinks, PairsKept
<1>11. Lifted(h, heap', used, At, "right")
  BY <1>1, <1>3, <1>5, <1>7, <1>10, PaintLifted
<1>12. Linked(heap', used)
  BY <1>7, <1>10, SameLinks DEF AllLinks
<1>13. At # Parent /\ At # Grand
  BY <1>1, <1>3, AllApart
<1>14. \A m \in 1..used : heap'[m].color = IF m = At THEN "Black" ELSE
                                           IF m = Parent \/ m = Grand THEN "Red" ELSE heap[m].color
  BY <1>5, <1>7, <1>8, <1>9, <1>13 DEF ColorsKept
<1>15. Twice(h)
  BY <1>0, <1>1, <1>2, <1>4, <1>5, <1>6, <1>10, <1>11, <1>12, <1>14 DEF Twice
<1> QED
  BY <1>1, <1>2, <1>15 DEF Whole
-----------------------------------------------------------------------------
(***************************************************************************)
(* Where a call is, and which node has no parent                           *)
(***************************************************************************)
\* A descent is at a reached node; only an empty tree has no node to begin at.
Where == /\ call.pc \in {"insert", "remove"} => At \in Reach(heap, root) \cup {Nil} /\ call.ret = NoValue
         /\ call.pc = "insert" /\ At = Nil => root = Nil

\* Until a fault, one node has no parent: the root or, before the loop ends, the
\* node that has been turned above it.
Rooting ==
  Whole => IF root = Nil THEN used = 0
           ELSE /\ Topped(heap, used, Top)
                /\ heap[root].parent # Nil => call.pc = "recolor" /\ At = Top

\* The heap is rooted wherever a link to an allocated node leads.
LEMMA HeapRooted ==
  Inv => /\ used \in 0..MaxNodes /\ Nil \notin 1..used /\ 0..used = 1..used \cup {Nil} /\ 1..used \subseteq Nodes
         /\ \A x \in 0..used : Rooted(heap, x) /\ Reach(heap, x) \subseteq 1..used
         /\ root \in 0..used /\ call.at \in 0..used
         /\ \A n \in 1..used : /\ heap[n].parent \in 0..used /\ heap[n].left \in 0..used
                              /\ heap[n].right \in 0..used /\ heap[n] \in Node
<1> SUFFICES ASSUME Inv
             PROVE  /\ used \in 0..MaxNodes /\ Nil \notin 1..used /\ 0..used = 1..used \cup {Nil}
                    /\ 1..used \subseteq Nodes
                    /\ \A x \in 0..used : Rooted(heap, x) /\ Reach(heap, x) \subseteq 1..used
                    /\ root \in 0..used /\ call.at \in 0..used
                    /\ \A n \in 1..used : /\ heap[n].parent \in 0..used /\ heap[n].left \in 0..used
                                         /\ heap[n].right \in 0..used /\ heap[n] \in Node
  OBVIOUS
<1>1. used \in 0..MaxNodes /\ SoundHeap(heap, used) /\ root \in 0..used /\ call.at \in 0..used
  BY DEF Inv, CallInv
<1>2. Nil \notin 1..used /\ 0..used = 1..used \cup {Nil} /\ 1..used \subseteq Nodes
  BY <1>1, Counting
<1> QED
  BY <1>1, <1>2, SoundRooted DEF SoundHeap

\* In a tree with links in both directions the link above the turned node is
\* still there when all others are set.
LEMMA AboveLinked ==
  ASSUME Inv, Linked(heap, used), Rotates
  PROVE  LinkedAbove
<1> SUFFICES ASSUME heap[Grand].parent # Nil
             PROVE  IsChild(Raise(heap, Parent, "left"), heap[Grand].parent, Grand)
  BY DEF LinkedAbove
<1> DEFINE g == heap[Grand].parent
           A == Raise(heap, Parent, "left")
<1>1. /\ Parent \in 1..used /\ Grand \in 1..used /\ heap[Parent].parent = Grand
      /\ used \in 0..MaxNodes /\ SoundHeap(heap, used) /\ "left" \in Sides
      /\ g \in 1..used /\ heap[Parent].left \in 0..used /\ 0..used = 1..used \cup {Nil}
  BY RotatesAt, HeapRooted DEF Inv, Sides
<1>2. g # Parent /\ g # Grand /\ Parent # Grand
  BY <1>1, AllApart
<1>3. heap[Parent].left # Parent /\ heap[Parent].left # Grand
  <2>1. heap[Parent].left \in 1..used => heap[heap[Parent].left].parent = Parent
    BY <1>1 DEF Linked, IsChild
  <2> QED
    BY <1>1, <2>1, AllApart, Counting
<1>4. A[g].left = heap[g].left /\ A[g].right = heap[g].right
  BY <1>1, <1>2, <1>3, RaiseFields
<1>5. IsChild(heap, g, Grand)
  BY <1>1 DEF Linked
<1> QED
  BY <1>4, <1>5 DEF IsChild

\* What goes on with a descent.
LEMMA Descents ==
  ASSUME Inv, Next, call'.pc \in {"insert", "remove"}
  PROVE  /\ UNCHANGED <<heap, root, used, faults>>
         /\ \/ call'.at = root /\ call'.ret = NoValue /\ call.pc = "idle"
            \/ /\ call'.pc = call.pc /\ call'.ret = call.ret /\ call'.key = call.key /\ At # Nil
               /\ call'.at \in Children(heap, At)
               /\ InsertDescend \/ RemoveDescend
<1>0. call \in CallType
  BY DEF Inv, CallInv
<1>1. CASE \E op \in {"insert", "remove"}, k \in Keys : Call(op, k)
  BY <1>0, <1>1 DEF Call, CallType
<1>2. CASE InsertDescend
  <2>1. call' = [call EXCEPT !.at = heap[At][Side(At, call.key)]] /\ UNCHANGED <<heap, root, used, faults>>
        /\ heap[At][Side(At, call.key)] # Nil /\ At # Nil
    BY <1>2 DEF InsertDescend, Goto
  <2>2. heap[At][Side(At, call.key)] \in Children(heap, At)
    BY <2>1 DEF Children, Side
  <2> QED
    BY <1>0, <1>2, <2>1, <2>2 DEF CallType
<1>3. CASE RemoveDescend
  <2>1. call' = [call EXCEPT !.at = Candidate] /\ UNCHANGED <<heap, root, used, faults>>
        /\ Candidate # Nil /\ At # Nil
    BY <1>3 DEF RemoveDescend, Goto, Searching
  <2>2. Candidate \in Children(heap, At)
    BY <2>1 DEF Children, Candidate, Way
  <2> QED
    BY <1>0, <1>3, <2>1, <2>2 DEF CallType
<1>4. CASE InsertFirst \/ InsertAttach \/ InsertPresent \/ InsertNoMemory
  <2>1. call'.pc \in {"idle", "recolor", "panicked"}
    BY <1>0, <1>4 DEF InsertFirst, InsertAttach, InsertPresent, InsertNoMemory, Return, Panic, CallType
  <2> QED BY <2>1
<1>5. CASE Recolor
  <2>1. call.pc = "recolor"
    BY <1>5 DEF Recolor, RecolorDone, RecolorPanic, Repaint, RotateOnceLeft, RotateOnceRight,
       RotateTwice, RotateOncePanic, RotateTwicePanic, Rotates, RedUncle, HasGrand, RedParent, Recoloring
  <2>2. \/ \E x : call' = [call EXCEPT !.pc = "idle", !.at = Nil, !.ret = x]
        \/ \E x : call' = [call EXCEPT !.pc = x] /\ x = "failed"
        \/ \E x : call' = [call EXCEPT !.at = x]
    <3>1. CASE RecolorDone BY <3>1 DEF RecolorDone, Return
    <3>2. CASE RecolorPanic BY <3>2 DEF RecolorPanic, Panic
    <3>3. CASE Repaint BY <3>3 DEF Repaint, Return, Goto
    <3>4. CASE RotateOnceLeft BY <3>4 DEF RotateOnceLeft, GoOn, Goto
    <3>5. CASE RotateOnceRight BY <3>5 DEF RotateOnceRight, GoOn, Goto
    <3>6. CASE RotateTwice BY <3>6 DEF RotateTwice, GoOn, Goto
    <3>7. CASE RotateOncePanic BY <3>7 DEF RotateOncePanic, HalfDone
    <3>8. CASE RotateTwicePanic BY <3>8 DEF RotateTwicePanic, HalfDone
    <3> QED BY <1>5, <3>1, <3>2, <3>3, <3>4, <3>5, <3>6, <3>7, <3>8 DEF Recolor
  <2>3. call'.pc \in {"idle", "failed", "recolor"}
    BY <1>0, <2>1, <2>2 DEF CallType
  <2> QED BY <2>3
<1>6. CASE RemoveRoot \/ RemoveChild \/ RemoveNothing
  <2>1. call'.pc = "idle"
    BY <1>0, <1>6 DEF RemoveRoot, RemoveChild, RemoveNothing, Return, CallType
  <2> QED BY <2>1
<1>7. CASE DropTree
  <2>1. call'.pc = "dropped"
    BY <1>0, <1>7 DEF DropTree, CallType
  <2> QED BY <2>1
<1> QED
  BY <1>1, <1>2, <1>3, <1>4, <1>5, <1>6, <1>7, RemovableAssumption DEF Next, Insert, Remove

\* Every call begins at the root and goes down by links (rb_tree.rs:44-61,
\* 195-223, 351-376).
LEMMA WhereStep == Inv /\ Where /\ [Next]_vars => Where'
<1> SUFFICES ASSUME Inv, Where, [Next]_vars PROVE Where'
  OBVIOUS
<1>0. /\ root \in 0..used /\ Rooted(heap, root) /\ Nil \notin Nodes /\ root \in Nodes \cup {Nil}
      /\ Closed(heap, Reach(heap, root))
      /\ root # Nil => root \in Reach(heap, root)
  <2>1. root \in 0..used /\ Rooted(heap, root)
    BY HeapRooted
  <2> QED BY <2>1, NilNotNode, ReachClosed, ReachRoot DEF Rooted
<1>1. CASE UNCHANGED vars
  BY <1>1 DEF vars, Where, At
<1>2. ASSUME Next, call'.pc \in {"insert", "remove"} PROVE Where'
  <2>1. UNCHANGED <<heap, root>>
    BY <1>2, Descents
  <2>2. CASE call'.at = root /\ call'.ret = NoValue
    BY <1>0, <2>1, <2>2 DEF Where, At
  <2>3. CASE /\ call'.pc = call.pc /\ call'.ret = call.ret /\ At # Nil
             /\ call'.at \in Children(heap, At)
    <3>1. call'.at \in Reach(heap, root) /\ call'.at # Nil
      BY <1>0, <1>2, <2>3 DEF Where, Closed, Children
    <3> QED BY <1>2, <2>1, <2>3, <3>1 DEF Where, At
  <2> QED BY <1>2, <2>2, <2>3, Descents
<1>3. ASSUME call'.pc \notin {"insert", "remove"} PROVE Where'
  BY <1>3 DEF Where
<1> QED
  BY <1>1, <1>2, <1>3

\* What a new leaf is, and what stays.
Hung(s) ==
  /\ s = Side(At, call.key) /\ s \in Sides /\ At \in 1..used /\ heap[At][s] = Nil /\ heap[At].key # call.key
  /\ used < MaxNodes /\ used' = used + 1 /\ 1..used' = 1..used \cup {used'} /\ used' \notin 0..used
  /\ used' \in Nodes
  /\ root' = root /\ faults' = faults
  /\ heap'[used'] = Fresh(At, "Red", call.key)
  /\ heap'[At][s] = used' /\ heap'[At][Rev(s)] = heap[At][Rev(s)]
  /\ \A m \in 1..used : /\ heap'[m].parent = heap[m].parent /\ heap'[m].color = heap[m].color
                        /\ heap'[m].key = heap[m].key /\ heap'[m].val = heap[m].val
                        /\ m # At => heap'[m].left = heap[m].left /\ heap'[m].right = heap[m].right
  /\ IF heap[At].color = "Red" THEN call' = [call EXCEPT !.pc = "recolor", !.at = used']
                               ELSE Return(NoValue)

\* The leaf of an insert is such a leaf (rb_tree.rs:198-211, 225-238).
LEMMA HungIs == ASSUME Inv, InsertAttach PROVE \E s \in Sides : Hung(s)
<1> DEFINE s == Side(At, call.key)
           h == [heap EXCEPT ![used + 1] = Fresh(At, "Red", call.key)]
<1>1. /\ At # Nil /\ heap[At].key # call.key /\ heap[At][s] = Nil /\ used < MaxNodes /\ used' = used + 1
      /\ heap' = [h EXCEPT ![At][s] = used'] /\ root' = root /\ faults' = faults
      /\ IF heap[At].color = "Red" THEN call' = [call EXCEPT !.pc = "recolor", !.at = used']
                                   ELSE Return(NoValue)
  BY DEF InsertAttach, Alloc
<1>2. /\ used \in 0..MaxNodes /\ At \in 1..used /\ 1..used \subseteq Nodes /\ used' \in Nodes
      /\ 1..used' = 1..used \cup {used'} /\ used' \notin 0..used /\ s \in Sides
  BY <1>1, HeapRooted, Counting DEF At, Side, Sides
<1>3. heap \in [Nodes -> Node]
  BY DEF Inv, SoundHeap
<1>4. /\ h \in [Nodes -> {heap[n] : n \in Nodes} \cup {h[used + 1]}]
      /\ h[used'] = Fresh(At, "Red", call.key) /\ \A m \in 1..used : h[m] = heap[m]
  BY <1>1, <1>2, <1>3
<1> HIDE DEF h, s
<1>5. /\ \A m \in Nodes : m # At => heap'[m] = h[m]
      /\ heap'[At] = [heap[At] EXCEPT ![s] = used']
  BY <1>1, <1>2, <1>4
<1>6. heap[At] \in Node /\ At # used'
  BY <1>2, <1>3
<1>7. /\ heap'[At][s] = used' /\ heap'[At][Rev(s)] = heap[At][Rev(s)]
      /\ heap'[At].parent = heap[At].parent /\ heap'[At].color = heap[At].color
      /\ heap'[At].key = heap[At].key /\ heap'[At].val = heap[At].val
  <2>1. CASE s = "left" BY <1>5, <1>6, <2>1 DEF Node, Rev
  <2>2. CASE s = "right" BY <1>5, <1>6, <2>2 DEF Node, Rev
  <2> QED BY <1>2, <2>1, <2>2 DEF Sides
<1>8. heap'[used'] = Fresh(At, "Red", call.key)
  BY <1>2, <1>4, <1>5, <1>6
<1>9. \A m \in 1..used : m # At => heap'[m] = heap[m]
  BY <1>2, <1>4, <1>5
<1>10. Hung(s)
  BY <1>1, <1>2, <1>7, <1>8, <1>9 DEF Hung, s
<1> QED
  BY <1>2, <1>10

\* The steps that neither fail nor drop the tree, and change it.
LEMMA WholeCases ==
  ASSUME Inv, Inv', Next, faults' = {}, call'.pc # "dropped"
  PROVE  /\ Whole
         /\ \/ UNCHANGED <<root, heap, used>> /\ call.pc # "recolor" /\ call'.pc \notin {"recolor", "failed"}
            \/ InsertFirst \/ InsertAttach \/ RecolorDone \/ RecolorPanic \/ Repaint
            \/ \E s \in Sides : Once(s)
            \/ \E h : Twice(h)
<1>0. call \in CallType
  BY DEF Inv, CallInv
<1>1. CASE \E op \in {"insert", "remove"}, k \in Keys : Call(op, k)
  BY <1>0, <1>1 DEF Call, Whole
<1>2. CASE InsertDescend \/ InsertPresent \/ InsertNoMemory \/ RemoveDescend \/ RemoveNothing
  BY <1>0, <1>2 DEF InsertDescend, InsertPresent, InsertNoMemory, RemoveDescend, RemoveNothing,
     Searching, Goto, Return, Panic, Whole, CallType
<1>3. CASE InsertFirst BY <1>3 DEF InsertFirst, Whole
<1>4. CASE InsertAttach BY <1>4 DEF InsertAttach, Whole
<1>5. CASE RecolorDone BY <1>5 DEF RecolorDone, Recoloring, Whole
<1>6. CASE RecolorPanic BY <1>6 DEF RecolorPanic, RedParent, Recoloring, Panic, Whole
<1>7. CASE Repaint BY <1>7 DEF Repaint, RedUncle, HasGrand, RedParent, Recoloring, Whole
<1>8. CASE RotateOnceLeft \/ RotateOnceRight
  <2>1. call.pc # "dropped"
    BY <1>8 DEF RotateOnceLeft, RotateOnceRight, Rotates, HasGrand, RedParent, Recoloring
  <2> QED BY <1>8, <2>1, OnceIs
<1>9. CASE RotateTwice
  <2>1. call.pc # "dropped"
    BY <1>9 DEF RotateTwice, Rotates, HasGrand, RedParent, Recoloring
  <2> QED BY <1>9, <2>1, TwiceIs
<1>10. CASE RotateOncePanic \/ RotateTwicePanic
  BY <1>10 DEF RotateOncePanic, RotateTwicePanic, HalfDone
<1>11. CASE RemoveRoot \/ RemoveChild
  BY <1>11 DEF RemoveRoot, RemoveChild
<1>12. CASE DropTree
  BY <1>0, <1>12 DEF DropTree, CallType
<1> QED
  BY <1>1, <1>2, <1>3, <1>4, <1>5, <1>6, <1>7, <1>8, <1>9, <1>10, <1>11, <1>12, RemovableAssumption
     DEF Next, Insert, Recolor, Remove

\* The loop ends: links and pairs stay, and a top node is painted.
Done ==
  /\ At \in 1..used /\ call.pc = "recolor" /\ ~RedParent
  /\ AllLinks(heap, heap', used) /\ PairsKept(heap, heap', used)
  /\ \A m \in 1..used : heap'[m].color = IF Parent = Nil /\ m = At THEN "Black" ELSE heap[m].color
  /\ root' = (IF Parent = Nil THEN At ELSE root) /\ used' = used /\ call'.pc = "idle" /\ faults' = faults

\* The end of recolor_2 below a black node or at the top is such an end
\* (rb_tree.rs:253-258, 332-336).
LEMMA DoneIs == ASSUME Inv, RecolorDone PROVE Done
<1>1. /\ call.pc = "recolor" /\ ~RedParent /\ used' = used /\ faults' = faults
      /\ At \in 0..used /\ At # Nil /\ SoundHeap(heap, used) /\ used \in 0..MaxNodes /\ "Black" \in Colors
      /\ call \in CallType /\ call' = [call EXCEPT !.pc = "idle", !.at = Nil, !.ret = NoValue]
  BY DEF RecolorDone, Recoloring, Inv, CallInv, At, Colors, Return
<1>2. At \in 1..used /\ call'.pc = "idle"
  BY <1>1, HeapRooted DEF CallType
<1>3. CASE Parent = Nil
  <2>1. root' = At /\ heap' = [heap EXCEPT ![At].color = "Black"]
    BY <1>3 DEF RecolorDone
  <2>2. Painted(heap, [heap EXCEPT ![At].color = "Black"], used, At, "Black", At, "Black")
    BY <1>1, <1>2, PaintOneIs
  <2>3. Painted(heap, heap', used, At, "Black", At, "Black")
    BY <2>1, <2>2
  <2> QED BY <1>1, <1>2, <1>3, <2>1, <2>3 DEF Painted, Done
<1>4. CASE Parent # Nil
  BY <1>1, <1>2, <1>4 DEF RecolorDone, Done, AllLinks, PairsKept
<1> QED
  BY <1>3, <1>4

\* Where the nodes above a node hang that recolor_2 looks at.
LEMMA HasGrandAt ==
  ASSUME Inv, HasGrand
  PROVE  /\ At \in 1..used /\ Parent \in 1..used /\ Grand \in 1..used
         /\ heap[At].parent = Parent /\ heap[Parent].parent = Grand
         /\ IsChild(heap, Grand, Parent) /\ heap[Parent].color = "Red" /\ call.pc = "recolor"
         /\ Uncle \in 0..used /\ IsChild(heap, Grand, Uncle)
         /\ heap[Grand].left # heap[Grand].right => Uncle # Parent
<1>1. /\ RedParent /\ Grand # Nil /\ IsChild(heap, Grand, Parent) /\ Parent # Nil /\ call.pc = "recolor"
      /\ heap[Parent].color = "Red"
  BY DEF HasGrand, RedParent, Recoloring
<1>2. At \in 1..used
  BY <1>1, HeapRooted DEF Inv, CallInv, At
<1>3. Parent \in 1..used
  BY <1>1, <1>2, HeapRooted DEF Parent
<1>4. Grand \in 1..used
  BY <1>1, <1>3, HeapRooted DEF Grand
<1>5. Uncle \in 0..used
  BY <1>4, HeapRooted DEF Uncle
<1> QED
  BY <1>1, <1>2, <1>3, <1>4, <1>5 DEF Parent, Grand, Uncle, IsChild

\* The children of the grandparent are painted, and perhaps the grandparent.
Repainted ==
  /\ At \in 1..used /\ Parent \in 1..used /\ Grand \in 1..used /\ Uncle \in 1..used
  /\ heap[At].parent = Parent /\ heap[Parent].parent = Grand /\ HasGrand
  /\ heap[Parent].color = "Red" /\ heap[Uncle].color = "Red" /\ call.pc = "recolor"
  /\ AllLinks(heap, heap', used) /\ PairsKept(heap, heap', used)
  /\ \A m \in 1..used : heap'[m].color = IF m = Grand /\ heap[Grand].parent # Nil THEN "Red" ELSE
                                         IF m \in {Parent, Uncle} THEN "Black" ELSE heap[m].color
  /\ root' = root /\ used' = used /\ faults' = faults
  /\ IF heap[Grand].parent = Nil THEN call'.pc = "idle" ELSE call'.pc = "recolor" /\ call'.at = Grand

\* The branch for a red uncle is such a change (rb_tree.rs:262-273).
LEMMA RepaintIs == ASSUME Inv, Repaint PROVE Repainted
<1> DEFINE h == [heap EXCEPT ![Parent].color = "Black", ![Uncle].color = "Black"]
<1>1. /\ HasGrand /\ Uncle # Nil /\ heap[Uncle].color = "Red" /\ root' = root /\ used' = used /\ faults' = faults
      /\ IF heap[Grand].parent = Nil
         THEN heap' = h /\ Return(NoValue)
         ELSE heap' = [h EXCEPT ![Grand].color = "Red"] /\ Goto(Grand)
  BY DEF Repaint, RedUncle
<1>2. /\ At \in 1..used /\ Parent \in 1..used /\ Grand \in 1..used
      /\ heap[At].parent = Parent /\ heap[Parent].parent = Grand
      /\ heap[Parent].color = "Red" /\ call.pc = "recolor" /\ Uncle \in 0..used
  BY <1>1, HasGrandAt
<1>3. /\ Uncle \in 1..used /\ SoundHeap(heap, used) /\ used \in 0..MaxNodes /\ call \in CallType
      /\ "Black" \in Colors /\ "Red" \in Colors /\ Grand \in Link
  BY <1>1, <1>2, HeapRooted, Counting DEF Inv, CallInv, Colors
<1>4. Painted(heap, h, used, Parent, "Black", Uncle, "Black")
  BY <1>2, <1>3, PaintTwoIs
<1> HIDE DEF h
<1>5. CASE heap[Grand].parent = Nil
  <2>1. heap' = h /\ call' = [call EXCEPT !.pc = "idle", !.at = Nil, !.ret = NoValue]
    BY <1>1, <1>5 DEF Return
  <2>2. call'.pc = "idle"
    BY <1>3, <2>1 DEF CallType
  <2> QED BY <1>1, <1>2, <1>3, <1>4, <1>5, <2>1, <2>2 DEF Repainted, Painted
<1>6. CASE heap[Grand].parent # Nil
  <2>1. heap' = [h EXCEPT ![Grand].color = "Red"] /\ call' = [call EXCEPT !.at = Grand]
    BY <1>1, <1>6 DEF Goto
  <2>2. call'.pc = "recolor" /\ call'.at = Grand
    BY <1>2, <1>3, <2>1 DEF CallType
  <2>3. SoundHeap(h, used)
    BY <1>4 DEF Painted
  <2>4. Painted(h, [h EXCEPT ![Grand].color = "Red"], used, Grand, "Red", Grand, "Red")
    BY <1>2, <1>3, <2>3, PaintOneIs
  <2>5. Painted(h, heap', used, Grand, "Red", Grand, "Red")
    BY <2>1, <2>4
  <2>6. AllLinks(heap, heap', used) /\ PairsKept(heap, heap', used)
    BY <1>4, <2>5 DEF Painted, AllLinks, PairsKept
  <2> QED BY <1>1, <1>2, <1>3, <1>4, <1>6, <2>2, <2>5, <2>6 DEF Repainted, Painted
<1> QED
  BY <1>5, <1>6

\* Above a node in the loop that has a parent, the root is the top.
LEMMA BelowTop ==
  ASSUME Inv, Rooting, Whole, call.pc = "recolor", Parent # Nil
  PROVE  root # Nil /\ heap[root].parent = Nil /\ Top = root /\ Topped(heap, used, root) /\ root \in 1..used
<1>1. At \in 1..used
  BY HeapRooted DEF Inv, CallInv, At
<1>2. root # Nil
  BY <1>1, HeapRooted DEF Rooting
<1>3. Topped(heap, used, Top) /\ (heap[root].parent # Nil => At = Top)
  BY <1>2 DEF Rooting
<1>4. heap[root].parent = Nil
  BY <1>1, <1>3 DEF Topped, Parent
<1> QED
  BY <1>2, <1>3, <1>4, HeapRooted DEF Top

\* Where the loop goes on after a single rotation, and after a double one.
LEMMA OnceMoves ==
  ASSUME Inv, Inv', Whole, NEW s \in Sides, Once(s)
  PROVE  /\ heap'[At].parent = Parent /\ heap'[Parent].parent = heap[Grand].parent
         /\ heap'[Grand].parent = Parent /\ call'.at = Parent /\ call'.pc = "recolor"
         /\ heap[Parent][s] # At /\ At # Parent /\ At # Grand /\ Parent # Grand
<1>1. /\ At \in 1..used /\ Parent \in 1..used /\ Grand \in 1..used
      /\ heap[At].parent = Parent /\ heap[Parent].parent = Grand /\ heap[Parent][Rev(s)] = At
      /\ Lifted(heap, heap', used, Parent, s) /\ GoOn(heap') /\ call.pc = "recolor"
  BY DEF Once
<1>2. Linked(heap, used) /\ used \in 0..MaxNodes /\ call \in CallType /\ Nil \notin 1..used /\ Parent \in Link
  <2>1. used \in 0..MaxNodes /\ call \in CallType
    BY DEF Inv, CallInv
  <2> QED BY <1>1, <2>1, Counting DEF Inv, Whole
<1>3. At # Parent /\ At # Grand /\ Parent # Grand
  BY <1>1, <1>2, AllApart
<1>4. heap[Parent][s] # At
  <2>1. heap[Parent].left = heap[Parent].right => heap[Parent].left = Nil
    BY <1>1, <1>2 DEF Linked
  <2> QED BY <1>1, <1>2, <2>1 DEF Sides, Rev
<1>5. /\ heap'[At].parent = Parent /\ heap'[Parent].parent = heap[Grand].parent
      /\ heap'[Grand].parent = Parent
  BY <1>1, <1>3, <1>4 DEF Lifted
<1>6. call' = [call EXCEPT !.at = Parent]
  BY <1>1, <1>2, <1>5 DEF GoOn, Goto
<1>7. call'.at = Parent /\ call'.pc = "recolor"
  BY <1>1, <1>2, <1>6 DEF CallType
<1> QED
  BY <1>3, <1>4, <1>5, <1>7

\* After a double rotation without a fault the node itself is the top.
LEMMA TwiceMoves ==
  ASSUME Inv, Inv', Whole, NEW h, Twice(h)
  PROVE  /\ heap'[At].parent = Nil /\ call'.at = At /\ call'.pc = "recolor"
         /\ At # Parent /\ At # Grand /\ Parent # Grand
<1>1. /\ At \in 1..used /\ Parent \in 1..used /\ Grand \in 1..used
      /\ heap[At].parent = Parent /\ heap[Parent].parent = Grand /\ heap[Grand].parent = Nil
      /\ Lifted(heap, h, used, At, "left") /\ h[At].parent = Grand /\ heap[Parent].right = At
      /\ Lifted(h, heap', used, At, "right") /\ GoOn(heap') /\ call.pc = "recolor"
  BY DEF Twice
<1>2. Linked(heap, used) /\ used \in 0..MaxNodes /\ call \in CallType /\ Nil \notin 1..used /\ At \in Link
  <2>1. used \in 0..MaxNodes /\ call \in CallType
    BY DEF Inv, CallInv
  <2> QED BY <1>1, <2>1, Counting DEF Inv, Whole
<1>3. At # Parent /\ At # Grand /\ Parent # Grand
  BY <1>1, <1>2, AllApart
<1>4. heap[At].left # Grand
  <2>1. heap[At].left \in 1..used => heap[heap[At].left].parent = At
    BY <1>1, <1>2 DEF Linked, IsChild
  <2> QED BY <1>1, <1>2, <2>1
<1>5. h[Grand].parent = Nil
  BY <1>1, <1>3, <1>4 DEF Lifted
<1>6. heap'[At].parent = Nil
  BY <1>1, <1>5 DEF Lifted
<1>7. call' = [call EXCEPT !.at = At]
  BY <1>6 DEF GoOn, Goto, Twice
<1>8. call'.at = At /\ call'.pc = "recolor"
  BY <1>1, <1>2, <1>7 DEF CallType
<1> QED
  BY <1>3, <1>6, <1>8

\* The first node of an empty tree.
LEMMA FirstIs ==
  ASSUME Inv, Inv', Where, Rooting, Whole, InsertFirst
  PROVE  /\ used = 0 /\ used' = 1 /\ root' = 1 /\ root = Nil /\ 1..used' = {1} /\ 1..used = {}
         /\ heap'[1] = Fresh(Nil, "Black", call.key) /\ call'.pc = "idle" /\ 1 \in Nodes
         /\ heap'[1].parent = Nil /\ heap'[1].left = Nil /\ heap'[1].right = Nil
         /\ heap'[1].color = "Black"
<1>1. /\ used < MaxNodes /\ used' = used + 1 /\ root' = used'
      /\ heap' = [heap EXCEPT ![used'] = Fresh(Nil, "Black", call.key)] /\ Return(NoValue)
      /\ call.pc = "insert" /\ At = Nil
  BY DEF InsertFirst, Alloc
<1>2. root = Nil /\ used = 0
  BY <1>1 DEF Where, Rooting
<1>3. 1 \in Nodes /\ heap \in [Nodes -> Node] /\ call \in CallType
  BY <1>1, <1>2, TreeHeapAssumption DEF Nodes, Inv, SoundHeap, CallInv
<1>4. heap'[1] = Fresh(Nil, "Black", call.key)
  BY <1>1, <1>2, <1>3
<1>5. call'.pc = "idle"
  BY <1>1, <1>3 DEF Return, CallType
<1>6. 1..1 = {1} /\ 1..0 = {}
  OBVIOUS
<1> QED
  BY <1>1, <1>2, <1>3, <1>4, <1>5, <1>6 DEF Fresh

\* A rotation at the top takes the place of the root, which recolor_2 sets when
\* its loop ends; nothing else makes a node without parent (rb_tree.rs:253-336).
LEMMA RootingStep == Inv /\ Inv' /\ Where /\ Rooting /\ [Next]_vars => Rooting'
<1> SUFFICES ASSUME Inv, Inv', Where, Rooting, [Next]_vars, Whole' PROVE Rooting'
  BY DEF Rooting
<1>0. used \in 0..MaxNodes /\ Nil \notin 1..used /\ 0..used = 1..used \cup {Nil} /\ root \in 0..used
  BY HeapRooted
<1>1. CASE UNCHANGED vars
  BY <1>1 DEF vars, Rooting, Whole, Top, At, Topped
<1>2. CASE Next
  <2>0. /\ Whole
        /\ \/ UNCHANGED <<root, heap, used>> /\ call.pc # "recolor" /\ call'.pc \notin {"recolor", "failed"}
           \/ InsertFirst \/ InsertAttach \/ RecolorDone \/ RecolorPanic \/ Repaint
           \/ \E s \in Sides : Once(s)
           \/ \E h : Twice(h)
    BY <1>2, WholeCases DEF Whole
  <2>01. Linked(heap, used) /\ SoundHeap(heap, used) /\ Linked(heap', used') /\ SoundHeap(heap', used')
    BY <2>0 DEF Inv, Whole
  <2>1. CASE UNCHANGED <<root, heap, used>> /\ call.pc # "recolor"
    BY <2>0, <2>1 DEF Rooting, Whole, Top, Topped
  <2>2. CASE InsertFirst
    <3>1. /\ root' = 1 /\ 1..used' = {1} /\ heap'[1].parent = Nil
      BY <2>0, <2>2, FirstIs
    <3>2. Top' = 1 /\ root' # Nil
      BY <3>1 DEF Top, Nil
    <3> QED BY <3>1, <3>2 DEF Rooting, Topped
  <2>3. CASE InsertAttach
    <3>1. PICK s \in Sides : Hung(s)
      BY <2>3, HungIs
    <3>2. /\ At \in 1..used /\ root' = root /\ 1..used' = 1..used \cup {used'} /\ used' \notin 0..used
          /\ heap'[used'] = Fresh(At, "Red", call.key)
          /\ \A m \in 1..used : heap'[m].parent = heap[m].parent
          /\ call.pc = "insert"
      BY <2>3, <3>1 DEF Hung, InsertAttach
    <3>3. root # Nil /\ Topped(heap, used, Top) /\ heap[root].parent = Nil /\ Top = root
      BY <1>0, <2>0, <3>2 DEF Rooting, Top
    <3>4. heap'[used'].parent = At /\ At # Nil
      BY <1>0, <3>2 DEF Fresh
    <3>5. Topped(heap', used', root)
      BY <3>2, <3>3, <3>4 DEF Topped
    <3>6. heap'[root].parent = Nil /\ Top' = root
      BY <1>0, <3>2, <3>3 DEF Top
    <3> QED BY <3>2, <3>3, <3>5, <3>6 DEF Rooting
  <2>4. CASE RecolorDone
    <3>1. Done
      BY <2>4, DoneIs
    <3>2. \A m \in 1..used : heap'[m].parent = heap[m].parent
      BY <3>1 DEF Done, AllLinks
    <3>3. CASE Parent = Nil
      <4>1. /\ At \in 1..used /\ root' = At /\ used' = used
        BY <3>1, <3>3 DEF Done
      <4>2. root # Nil
        BY <1>0, <2>0, <4>1 DEF Rooting
      <4>3. Topped(heap, used, At)
        BY <2>0, <3>3, <4>1, <4>2 DEF Rooting, Topped, Parent
      <4>4. heap'[At].parent = Nil /\ Top' = At
        BY <3>2, <3>3, <4>1 DEF Parent, Top
      <4>5. Topped(heap', used', At)
        BY <3>2, <4>1, <4>3 DEF Topped
      <4> QED BY <1>0, <4>1, <4>4, <4>5 DEF Rooting
    <3>4. CASE Parent # Nil
      <4>1. root # Nil /\ heap[root].parent = Nil /\ Topped(heap, used, root) /\ root \in 1..used
        BY <2>0, <3>1, <3>4, BelowTop DEF Done
      <4>2. root' = root /\ used' = used
        BY <3>1, <3>4 DEF Done
      <4>3. Topped(heap', used', root) /\ heap'[root].parent = Nil
        BY <3>2, <4>1, <4>2 DEF Topped
      <4>4. Top' = root
        BY <4>2, <4>3 DEF Top
      <4> QED BY <4>1, <4>2, <4>3, <4>4 DEF Rooting
    <3> QED BY <3>3, <3>4
  <2>5. CASE RecolorPanic
    <3>1. call.pc = "recolor" /\ Parent # Nil /\ UNCHANGED <<root, heap, used, faults>>
      BY <2>5 DEF RecolorPanic, RedParent, Recoloring, Panic
    <3>2. root # Nil /\ heap[root].parent = Nil /\ Topped(heap, used, root) /\ root \in 1..used
      BY <2>0, <3>1, BelowTop
    <3>3. Top' = root
      BY <3>1, <3>2 DEF Top
    <3> QED BY <3>1, <3>2, <3>3 DEF Rooting
  <2>6. CASE Repaint
    <3>1. Repainted
      BY <2>6, RepaintIs
    <3>2. \A m \in 1..used : heap'[m].parent = heap[m].parent
      BY <3>1 DEF Repainted, AllLinks
    <3>3. Parent # Nil /\ call.pc = "recolor" /\ root' = root /\ used' = used
      BY <1>0, <3>1 DEF Repainted
    <3>4. root # Nil /\ heap[root].parent = Nil /\ Topped(heap, used, root) /\ root \in 1..used
      BY <2>0, <3>3, BelowTop
    <3>5. Topped(heap', used', root) /\ heap'[root].parent = Nil
      BY <3>2, <3>3, <3>4 DEF Topped
    <3>6. Top' = root
      BY <3>3, <3>5 DEF Top
    <3> QED BY <3>3, <3>4, <3>5, <3>6 DEF Rooting
  <2>7. ASSUME NEW s \in Sides, Once(s) PROVE Rooting'
    <3>1. /\ At \in 1..used /\ Parent \in 1..used /\ Grand \in 1..used
          /\ heap[Parent].parent = Grand /\ Lifted(heap, heap', used, Parent, s)
          /\ root' = root /\ used' = used /\ call.pc = "recolor"
      BY <2>7 DEF Once
    <3>2. root # Nil /\ heap[root].parent = Nil /\ Topped(heap, used, root) /\ root \in 1..used
      BY <1>0, <2>0, <3>1, BelowTop
    <3>3. Topped(heap', used, IF root = Grand THEN Parent ELSE root)
      BY <1>0, <2>01, <3>1, <3>2, LiftTop
    <3>4. /\ heap'[Grand].parent = Parent /\ call'.at = Parent /\ call'.pc = "recolor"
      BY <2>0, <2>7, OnceMoves
    <3>5. CASE root = Grand
      <4>1. Top' = Parent /\ At' = Parent
        BY <1>0, <3>1, <3>2, <3>4, <3>5 DEF Top, At
      <4> QED BY <3>1, <3>2, <3>3, <3>4, <3>5, <4>1 DEF Rooting
    <3>6. CASE root # Grand
      <4>1. Topped(heap', used, root) /\ heap'[root].parent = Nil
        BY <3>3, <3>6 DEF Topped
      <4>2. Top' = root
        BY <3>1, <4>1 DEF Top
      <4> QED BY <3>1, <3>2, <4>1, <4>2 DEF Rooting
    <3> QED BY <3>5, <3>6
  <2>8. ASSUME NEW h, Twice(h) PROVE Rooting'
    <3>1. /\ At \in 1..used /\ Parent \in 1..used /\ Grand \in 1..used
          /\ heap[At].parent = Parent /\ heap[Parent].parent = Grand /\ heap[Grand].parent = Nil
          /\ SoundHeap(h, used) /\ Linked(h, used) /\ Lifted(heap, h, used, At, "left")
          /\ h[At].parent = Grand
          /\ Lifted(h, heap', used, At, "right") /\ "left" \in Sides /\ "right" \in Sides
          /\ root' = root /\ used' = used /\ call.pc = "recolor"
      BY <2>8 DEF Twice, Sides
    <3>2. root # Nil /\ heap[root].parent = Nil /\ Topped(heap, used, root) /\ root \in 1..used
      BY <1>0, <2>0, <3>1, BelowTop
    <3>3. root = Grand /\ root # Parent
      <4>1. root = Grand
        BY <3>1, <3>2 DEF Topped
      <4> QED BY <1>0, <3>1, <3>2, <4>1
    <3>4. Topped(h, used, root)
      BY <1>0, <2>01, <3>1, <3>2, <3>3, LiftTop
    <3>5. Topped(heap', used, At)
      BY <1>0, <3>1, <3>3, <3>4, LiftTop
    <3>6. heap'[At].parent = Nil /\ call'.at = At /\ call'.pc = "recolor" /\ At # Grand
      BY <2>0, <2>8, TwiceMoves
    <3>7. heap'[Grand].parent = At
      BY <3>1 DEF Lifted
    <3>8. Top' = At /\ At' = At
      BY <1>0, <3>1, <3>2, <3>3, <3>6, <3>7 DEF Top, At
    <3> QED BY <3>1, <3>2, <3>3, <3>5, <3>6, <3>8 DEF Rooting
  <2> QED BY <2>0, <2>1, <2>2, <2>3, <2>4, <2>5, <2>6, <2>7, <2>8
<1> QED
  BY <1>1, <1>2
-----------------------------------------------------------------------------
(***************************************************************************)
(* Where the key of an insert belongs                                      *)
(***************************************************************************)
\* A tree is dropped by its owner, or by a panic.
LEMMA OnlyDrop == Inv /\ Next /\ call'.pc = "dropped" => DropTree
<1> SUFFICES ASSUME Inv, Next, call'.pc = "dropped" PROVE DropTree
  OBVIOUS
<1>0. call \in CallType
  BY DEF Inv, CallInv
<1>1. CASE \E op \in {"insert", "remove"}, k \in Keys : Call(op, k)
  BY <1>0, <1>1 DEF Call
<1>2. CASE Insert
  BY <1>0, <1>2 DEF Insert, InsertFirst, InsertDescend, InsertAttach, InsertPresent, InsertNoMemory,
     Goto, Return, Panic, CallType
<1>3. CASE Recolor
  <2>1. call.pc = "recolor"
    BY <1>3 DEF Recolor, RecolorDone, RecolorPanic, Repaint, RotateOnceLeft, RotateOnceRight,
       RotateTwice, RotateOncePanic, RotateTwicePanic, Rotates, RedUncle, HasGrand, RedParent, Recoloring
  <2>2. \/ \E x : call' = [call EXCEPT !.pc = "idle", !.at = Nil, !.ret = x]
        \/ \E x : call' = [call EXCEPT !.pc = x] /\ x = "failed"
        \/ \E x : call' = [call EXCEPT !.at = x]
    <3>1. CASE RecolorDone BY <3>1 DEF RecolorDone, Return
    <3>2. CASE RecolorPanic BY <3>2 DEF RecolorPanic, Panic
    <3>3. CASE Repaint BY <3>3 DEF Repaint, Return, Goto
    <3>4. CASE RotateOnceLeft BY <3>4 DEF RotateOnceLeft, GoOn, Goto
    <3>5. CASE RotateOnceRight BY <3>5 DEF RotateOnceRight, GoOn, Goto
    <3>6. CASE RotateTwice BY <3>6 DEF RotateTwice, GoOn, Goto
    <3>7. CASE RotateOncePanic BY <3>7 DEF RotateOncePanic, HalfDone
    <3>8. CASE RotateTwicePanic BY <3>8 DEF RotateTwicePanic, HalfDone
    <3> QED BY <1>3, <3>1, <3>2, <3>3, <3>4, <3>5, <3>6, <3>7, <3>8 DEF Recolor
  <2> QED BY <1>0, <2>1, <2>2 DEF CallType
<1>4. CASE Remove
  BY <1>0, <1>4 DEF Remove, RemoveRoot, RemoveDescend, RemoveChild, RemoveNothing, Searching,
     Goto, Return, CallType
<1> QED
  BY <1>1, <1>2, <1>3, <1>4, RemovableAssumption DEF Next

\* A dropped tree is empty.
Emptied == call.pc = "dropped" => root = Nil

\* Nothing is called on a dropped tree (rb_tree.rs:77-84).
LEMMA EmptiedStep == Inv /\ Emptied /\ [Next]_vars => Emptied'
<1>1. CASE UNCHANGED vars
  BY <1>1 DEF vars, Emptied
<1>2. CASE Next
  BY <1>2, OnlyDrop DEF DropTree, Emptied
<1> QED
  BY <1>1, <1>2

\* Until a fault the keys are in order below every node that was allocated.
Sorting == Whole => InOrder(heap, used)

\* The nodes above the one an insert is at sent it to where its key belongs ...
Sought ==
  Whole /\ call.pc = "insert" /\ At # Nil =>
    \A n \in 1..used, s \in Sides :
      At \in Reach(heap, heap[n][s]) => OnSide(s, heap[n].key, call.key)

\* ... and if the key is there at all, it is below.
Found ==
  Whole /\ call.pc = "insert" =>
    \A n \in 1..used : heap[n].key = call.key => n \in Reach(heap, At)

\* Between two calls and during a descent every node is reached from the root.
LEMMA FromRoot ==
  ASSUME Inv, Rooting, Whole, call.pc # "recolor"
  PROVE  Reach(heap, root) = 1..used /\ Tree(heap, root) /\ Linked(heap, used) /\ SoundHeap(heap, used)
         /\ (root # Nil => Top = root /\ Topped(heap, used, root))
<1>1. SoundHeap(heap, used) /\ Linked(heap, used) /\ used \in 0..MaxNodes /\ root \in 0..used
  BY DEF Inv, Whole
<1>2. CASE root = Nil
  <2>1. used = 0
    BY <1>2 DEF Rooting
  <2>2. 1..used = {}
    BY <2>1
  <2> QED BY <1>1, <1>2, <2>2, ReachNil, LinkedTree
<1>3. CASE root # Nil
  <2>1. Topped(heap, used, root) /\ Top = root
    BY <1>3 DEF Rooting, Top
  <2> QED BY <1>1, <2>1, AllReached, LinkedTree
<1> QED BY <1>2, <1>3

\* The descent compares the keys (rb_tree.rs:193-221).
LEMMA SideIs ==
  ASSUME Inv, At \in 1..used, heap[At].key # call.key
  PROVE  Side(At, call.key) \in Sides /\ OnSide(Side(At, call.key), heap[At].key, call.key)
<1>1. heap[At].key \in Int /\ call.key \in Int
  BY HeapRooted, TreeHeapAssumption DEF Node, Inv, CallInv, CallType
<1> QED
  BY <1>1 DEF Side, OnSide, Sides

\* A descent goes where the key is.
LEMMA SoughtStep ==
  ASSUME Inv, Inv', Where, Rooting, Sorting, Sought, Found, Next, Whole', call'.pc = "insert"
  PROVE  Sought' /\ Found'
<1>1. /\ UNCHANGED <<heap, root, used, faults>> /\ Whole /\ call.pc # "recolor"
      /\ \/ call'.at = root
         \/ /\ call.pc = "insert" /\ call'.key = call.key /\ At # Nil
            /\ call'.at \in Children(heap, At) /\ InsertDescend
  <2>1. /\ UNCHANGED <<heap, root, used, faults>>
        /\ \/ call'.at = root /\ call.pc = "idle"
           \/ /\ call.pc = "insert" /\ call'.key = call.key /\ At # Nil
              /\ call'.at \in Children(heap, At) /\ InsertDescend
    BY Descents DEF RemoveDescend, Searching
  <2> QED BY <2>1 DEF Whole
<1>2. /\ Reach(heap, root) = 1..used /\ Tree(heap, root) /\ Linked(heap, used) /\ Rooted(heap, root)
      /\ used \in 0..MaxNodes /\ SoundHeap(heap, used)
  BY <1>1, FromRoot, HeapRooted
<1>3. \A n \in 1..used, s \in Sides : heap[n][s] \in Children(heap, n) \cup {Nil}
  BY DEF Sides, Children
<1>4. CASE call'.at = root
  <2>1. Found'
    BY <1>1, <1>2, <1>4 DEF Found, At
  <2>2. \A n \in 1..used, s \in Sides : root \notin Reach(heap, heap[n][s])
    <3> TAKE n \in 1..used, s \in Sides
    <3>1. CASE heap[n][s] = Nil BY <3>1, ReachNil
    <3>2. CASE heap[n][s] # Nil
      <4>1. heap[n][s] \in Children(heap, n)
        BY <1>3, <3>2
      <4> QED BY <1>2, <4>1, RootOnTop
    <3> QED BY <3>1, <3>2
  <2>3. Sought'
    BY <1>1, <1>4, <2>2 DEF Sought, At
  <2> QED BY <2>1, <2>3
<1>5. CASE call.pc = "insert" /\ call'.key = call.key /\ At # Nil /\ InsertDescend
  <2> DEFINE s == Side(At, call.key)
             c == heap[At][s]
  <2>1. /\ At \in 1..used /\ heap[At].key # call.key /\ c # Nil /\ At' = c
    <3>1. call \in CallType /\ At \in 0..used
      BY DEF Inv, CallInv, At
    <3> QED BY <1>5, <3>1, HeapRooted DEF InsertDescend, Goto, CallType, At
  <2>2. s \in Sides /\ OnSide(s, heap[At].key, call.key)
    BY <2>1, SideIs
  <2>3. c \in Children(heap, At) /\ c \in 1..used /\ heap[c].parent = At
    <3>1. c \in Children(heap, At)
      BY <1>3, <2>1, <2>2
    <3> QED BY <1>2, <2>1, <3>1, OwnerIsParent
  <2> HIDE DEF c
  <2>4. ASSUME NEW n \in 1..used, NEW t \in Sides, c \in Reach(heap, heap[n][t])
        PROVE  OnSide(t, heap[n].key, call.key)
    <3>1. heap[n][t] \in Children(heap, n) /\ heap[n][t] \in 1..used /\ heap[heap[n][t]].parent = n
      <4>1. heap[n][t] # Nil
        BY <2>4, ReachNil
      <4>2. heap[n][t] \in Children(heap, n)
        BY <1>3, <4>1
      <4> QED BY <1>2, <4>2, OwnerIsParent
    <3>2. CASE c = heap[n][t]
      <4>1. n = At
        BY <2>3, <3>1, <3>2
      <4>2. t = s
        <5>1. heap[At].left = heap[At].right => heap[At].left = Nil
          BY <1>2, <2>1 DEF Linked
        <5> QED BY <2>1, <2>2, <3>2, <4>1, <5>1 DEF Sides, c
      <4> QED BY <2>2, <4>1, <4>2
    <3>3. CASE c # heap[n][t]
      <4>1. At \in Reach(heap, heap[n][t])
        BY <1>2, <2>1, <2>3, <2>4, <3>1, <3>3, OwnerBelow
      <4> QED BY <1>1, <1>5, <2>1, <4>1 DEF Sought
    <3> QED BY <3>2, <3>3
  <2>5. Sought'
    BY <1>1, <1>5, <2>1, <2>4 DEF Sought
  <2>6. ASSUME NEW n \in 1..used, heap[n].key = call.key PROVE n \in Reach(heap, c)
    <3>1. n \in Reach(heap, At) /\ n # At
      BY <1>1, <1>5, <2>1, <2>6 DEF Found
    <3>2. Reach(heap, At) = {At} \cup Reach(heap, heap[At].left) \cup Reach(heap, heap[At].right)
      BY <2>1, HeapRooted, ReachUnfold
    <3>3. PICK t \in Sides : n \in Reach(heap, heap[At][t])
      BY <3>1, <3>2 DEF Sides
    <3>4. OnSide(t, heap[At].key, call.key)
      BY <1>1, <2>1, <2>6, <3>3 DEF Sorting, InOrder
    <3>5. heap[At].key \in Int /\ call.key \in Int
      BY <2>1, HeapRooted, TreeHeapAssumption DEF Node, Inv, CallInv, CallType
    <3>6. t = s
      BY <2>2, <3>4, <3>5 DEF OnSide, Sides
    <3> QED BY <3>3, <3>6 DEF c
  <2>7. Found'
    BY <1>1, <1>5, <2>1, <2>6 DEF Found
  <2> QED BY <2>5, <2>7
<1> QED
  BY <1>1, <1>4, <1>5
-----------------------------------------------------------------------------
(***************************************************************************)
(* The order of the keys, step by step                                     *)
(***************************************************************************)
\* Neither paint nor what is not a link or a key matters.
LEMMA SameOrder ==
  ASSUME NEW h, NEW R, NEW u \in 0..MaxNodes, SoundHeap(h, u), SoundHeap(R, u),
         AllLinks(h, R, u), PairsKept(h, R, u), InOrder(h, u)
  PROVE  InOrder(R, u)
<1>1. \A x \in 0..u : Reach(R, x) = Reach(h, x)
  <2> TAKE x \in 0..u
  <2>1. Rooted(h, x) /\ Rooted(R, x) /\ Reach(h, x) \subseteq 1..u
    BY SoundRooted
  <2>2. LinksKept(h, R, Reach(h, x))
    BY <2>1 DEF LinksKept, AllLinks
  <2> QED BY <2>1, <2>2, ReachSame
<1>2. \A n \in 1..u, s \in Sides : R[n][s] = h[n][s] /\ h[n][s] \in 0..u
  BY Counting DEF AllLinks, Sides, SoundHeap
<1>3. \A n \in 1..u, s \in Sides : Reach(R, R[n][s]) = Reach(h, h[n][s]) /\ Reach(h, h[n][s]) \subseteq 1..u
  BY <1>1, <1>2, SoundRooted
<1> QED
  BY <1>3 DEF InOrder, PairsKept

\* A new leaf is below those that reach its parent.
LEMMA HungReach ==
  ASSUME Inv, Inv', Rooting, Whole, NEW s, Hung(s), call.pc = "insert"
  PROVE  /\ \A x \in 0..used : Reach(heap', x) = IF At \in Reach(heap, x) THEN Reach(heap, x) \cup {used'}
                                                                          ELSE Reach(heap, x)
         /\ Reach(heap', used') = {used'}
<1>1. /\ Reach(heap, root) = 1..used /\ Tree(heap, root) /\ Rooted(heap, root) /\ root \in 0..used
      /\ 0..used = 1..used \cup {Nil} /\ 1..used \subseteq Nodes /\ Nil \notin 1..used
  BY FromRoot, HeapRooted
<1>2. /\ s \in Sides /\ At \in 1..used /\ heap[At][s] = Nil /\ heap'[At][s] = used'
      /\ heap'[At][Rev(s)] = heap[At][Rev(s)] /\ used' \in Nodes /\ used' \notin 0..used
      /\ heap'[used'] = Fresh(At, "Red", call.key) /\ root' = root
      /\ \A m \in 1..used : m # At => heap'[m].left = heap[m].left /\ heap'[m].right = heap[m].right
  BY DEF Hung
<1>3. heap'[used'].left = Nil /\ heap'[used'].right = Nil
  BY <1>2 DEF Fresh
<1>4. LeafHung(heap, heap', Reach(heap, root), At, s, used')
  BY <1>1, <1>2, <1>3 DEF LeafHung, LinksKept
<1>5. SoundHeap(heap', used') /\ used' \in 0..MaxNodes /\ root' \in 0..used'
  BY DEF Inv
<1>6. Rooted(heap', root)
  BY <1>2, <1>5, SoundRooted
<1>7. Grown(heap, heap', root, At, used')
  BY <1>1, <1>4, <1>6, Attached
<1>8. Reach(heap', used') = {used'}
  <2>1. used' \in 0..used' /\ used' # Nil
    BY <1>1, <1>2, <1>5
  <2>2. Rooted(heap', used')
    BY <1>5, <2>1, SoundRooted
  <2>3. Reach(heap', used') = {used'} \cup Reach(heap', heap'[used'].left) \cup Reach(heap', heap'[used'].right)
    BY <1>2, <2>2, ReachUnfold
  <2> QED BY <1>3, <2>3, ReachNil
<1> QED
  BY <1>1, <1>7, <1>8 DEF Grown

\* The new key is where it belongs of every node above it.
LEMMA AttachOrder ==
  ASSUME Inv, Inv', Where, Rooting, Sorting, Sought, Whole, InsertAttach
  PROVE  InOrder(heap', used')
<1>1. PICK s \in Sides : Hung(s)
  BY HungIs
<1>2. call.pc = "insert" /\ At # Nil
  BY DEF InsertAttach
<1>3. /\ s = Side(At, call.key) /\ s \in Sides /\ At \in 1..used /\ heap[At][s] = Nil /\ heap[At].key # call.key
      /\ heap'[At][s] = used'
      /\ heap'[At][Rev(s)] = heap[At][Rev(s)] /\ used' \in Nodes /\ used' \notin 0..used
      /\ heap'[used'] = Fresh(At, "Red", call.key) /\ root' = root /\ 1..used' = 1..used \cup {used'}
      /\ \A m \in 1..used : /\ heap'[m].key = heap[m].key
                            /\ m # At => heap'[m].left = heap[m].left /\ heap'[m].right = heap[m].right
  BY <1>1 DEF Hung
<1>4. /\ \A x \in 0..used : Reach(heap', x) = IF At \in Reach(heap, x) THEN Reach(heap, x) \cup {used'}
                                                                       ELSE Reach(heap, x)
      /\ Reach(heap', used') = {used'}
  BY <1>1, <1>2, HungReach
<1>5. /\ heap'[used'].key = call.key /\ \A t \in Sides : heap'[used'][t] = Nil
  BY <1>3 DEF Fresh, Sides
<1>6. OnSide(s, heap[At].key, call.key)
  BY <1>3, SideIs
<1>7. \A n \in 1..used, t \in Sides : heap[n][t] \in 0..used /\ Reach(heap, heap[n][t]) \subseteq 1..used
  <2> TAKE n \in 1..used, t \in Sides
  <2>1. heap[n][t] \in 0..used
    BY HeapRooted DEF Sides
  <2> QED BY <2>1, HeapRooted
<1>8. InOrder(heap, used)
  BY DEF Sorting
<1> SUFFICES \A n \in 1..used', t \in Sides : \A m \in Reach(heap', heap'[n][t]) : OnSide(t, heap'[n].key, heap'[m].key)
  BY DEF InOrder
<1> TAKE n \in 1..used', t \in Sides
<1> TAKE m \in Reach(heap', heap'[n][t])
<1>9. CASE n = used'
  BY <1>5, <1>9, ReachNil
<1>10. CASE n = At /\ t = s
  BY <1>3, <1>4, <1>5, <1>6, <1>10
<1>11. CASE n \in 1..used /\ ~(n = At /\ t = s)
  <2>1. heap'[n][t] = heap[n][t]
    <3>1. CASE n = At BY <1>3, <1>11, <3>1 DEF Sides, Rev
    <3>2. CASE n # At BY <1>3, <1>11, <3>2 DEF Sides
    <3> QED BY <3>1, <3>2
  <2>2. Reach(heap', heap[n][t]) = IF At \in Reach(heap, heap[n][t]) THEN Reach(heap, heap[n][t]) \cup {used'}
                                                                     ELSE Reach(heap, heap[n][t])
    BY <1>4, <1>7, <1>11
  <2>3. CASE m \in Reach(heap, heap[n][t])
    <3>1. OnSide(t, heap[n].key, heap[m].key)
      BY <1>8, <1>11, <2>3 DEF InOrder
    <3>2. m \in 1..used
      BY <1>7, <1>11, <2>3
    <3> QED BY <1>3, <1>11, <3>1, <3>2
  <2>4. CASE m = used' /\ At \in Reach(heap, heap[n][t])
    <3>1. OnSide(t, heap[n].key, call.key)
      BY <1>2, <1>11, <2>4 DEF Sought
    <3> QED BY <1>3, <1>5, <1>11, <2>4, <3>1
  <2> QED BY <2>1, <2>2, <2>3, <2>4
<1> QED
  BY <1>3, <1>9, <1>10, <1>11

\* Each step keeps the order: rotations hand over subtrees whose keys lie in
\* between, and a leaf goes where its key belongs (rb_tree.rs:149-223).
LEMMA SortingStep ==
  Inv /\ Inv' /\ Where /\ Rooting /\ Sorting /\ Sought /\ [Next]_vars => Sorting'
<1> SUFFICES ASSUME Inv, Inv', Where, Rooting, Sorting, Sought, [Next]_vars, Whole'
             PROVE  InOrder(heap', used')
  BY DEF Sorting
<1>0. /\ used \in 0..MaxNodes /\ Nil \notin 1..used /\ SoundHeap(heap, used) /\ SoundHeap(heap', used')
      /\ used' \in 0..MaxNodes
  BY DEF Inv, Nil
<1>1. CASE UNCHANGED vars
  BY <1>1 DEF vars, Sorting, Whole
<1>2. CASE Next
  <2>0. /\ Whole
        /\ \/ UNCHANGED <<root, heap, used>> /\ call.pc # "recolor" /\ call'.pc \notin {"recolor", "failed"}
           \/ InsertFirst \/ InsertAttach \/ RecolorDone \/ RecolorPanic \/ Repaint
           \/ \E s \in Sides : Once(s)
           \/ \E h : Twice(h)
    BY <1>2, WholeCases DEF Whole
  <2>01. Linked(heap, used) /\ InOrder(heap, used) /\ Linked(heap', used')
    BY <2>0 DEF Inv, Whole, Sorting
  <2>1. CASE UNCHANGED <<root, heap, used>>
    BY <2>01, <2>1
  <2>2. CASE InsertFirst
    <3>1. 1..used' = {1} /\ heap'[1].left = Nil /\ heap'[1].right = Nil
      BY <2>0, <2>2, FirstIs
    <3>2. \A n \in 1..used', s \in Sides : Reach(heap', heap'[n][s]) = {}
      BY <3>1, ReachNil DEF Sides
    <3> QED BY <3>2 DEF InOrder
  <2>3. CASE InsertAttach
    BY <2>0, <2>3, AttachOrder
  <2>4. CASE RecolorDone
    <3>1. AllLinks(heap, heap', used) /\ PairsKept(heap, heap', used) /\ used' = used
      BY <2>4, DoneIs DEF Done
    <3> QED BY <1>0, <2>01, <3>1, SameOrder
  <2>5. CASE RecolorPanic
    BY <2>01, <2>5 DEF RecolorPanic, Panic
  <2>6. CASE Repaint
    <3>1. AllLinks(heap, heap', used) /\ PairsKept(heap, heap', used) /\ used' = used
      BY <2>6, RepaintIs DEF Repainted
    <3> QED BY <1>0, <2>01, <3>1, SameOrder
  <2>7. ASSUME NEW s \in Sides, Once(s) PROVE InOrder(heap', used')
    <3>1. /\ Parent \in 1..used /\ Grand \in 1..used /\ heap[Parent].parent = Grand
          /\ heap[Grand][Rev(s)] = Parent
          /\ Lifted(heap, heap', used, Parent, s) /\ PairsKept(heap, heap', used) /\ used' = used
      BY <2>7 DEF Once
    <3>2. SoundHeap(heap', used) /\ Linked(heap', used) /\ \A m \in 1..used : heap'[m].key = heap[m].key
      BY <1>0, <2>01, <3>1 DEF PairsKept
    <3>3. InOrder(heap', used)
      BY <1>0, <2>01, <3>1, <3>2, LiftOrder
    <3> QED BY <3>1, <3>3
  <2>8. ASSUME NEW h, Twice(h) PROVE InOrder(heap', used')
    <3>1. /\ At \in 1..used /\ Parent \in 1..used /\ Grand \in 1..used /\ heap[At].parent = Parent
          /\ heap[Parent].right = At
          /\ Lifted(heap, h, used, At, "left") /\ PairsKept(heap, h, used)
          /\ SoundHeap(h, used) /\ Linked(h, used) /\ h[At].parent = Grand /\ h[Grand].left = At
          /\ Lifted(h, heap', used, At, "right") /\ PairsKept(h, heap', used) /\ used' = used
      BY <2>8 DEF Twice
    <3>2. /\ SoundHeap(heap', used) /\ Linked(heap', used) /\ \A m \in 1..used : heap'[m].key = h[m].key
          /\ \A m \in 1..used : h[m].key = heap[m].key /\ "left" \in Sides /\ "right" \in Sides
          /\ Rev("left") = "right" /\ Rev("right") = "left"
      BY <1>0, <2>01, <3>1 DEF PairsKept, Sides, Rev
    <3>3. heap[Parent][Rev("left")] = At /\ h[Grand][Rev("right")] = At /\ "left" \in Sides /\ "right" \in Sides
      BY <3>1, <3>2 DEF Sides
    <3>4. InOrder(h, used)
      BY <1>0, <2>01, <3>1, <3>2, <3>3, LiftOrder
    <3>5. InOrder(heap', used)
      BY <1>0, <2>01, <3>1, <3>2, <3>3, <3>4, LiftOrder
    <3> QED BY <3>1, <3>5
  <2> QED BY <2>0, <2>1, <2>2, <2>3, <2>4, <2>5, <2>6, <2>7, <2>8
<1> QED
  BY <1>1, <1>2

\* The inductive invariant, as far as the order needs it.
OrderInv == Inv /\ Where /\ Rooting /\ Emptied /\ Sorting /\ Sought /\ Found

\* An empty tree has no keys to be in order.
LEMMA InitOrder == Init => OrderInv
<1> SUFFICES ASSUME Init PROVE OrderInv
  OBVIOUS
<1>1. Inv
  BY InitInv
<1>2. used = 0 /\ root = Nil /\ call.pc = "idle"
  BY DEF Init
<1>3. 1..used = {}
  BY <1>2
<1> QED
  BY <1>1, <1>2, <1>3 DEF OrderInv, Where, Rooting, Emptied, Sorting, Sought, Found, InOrder

\* The invariant is inductive.
LEMMA OrderStep == OrderInv /\ [Next]_vars => OrderInv'
<1> SUFFICES ASSUME OrderInv, [Next]_vars PROVE OrderInv'
  OBVIOUS
<1>1. Inv /\ Where /\ Rooting /\ Emptied /\ Sorting /\ Sought /\ Found
  BY DEF OrderInv
<1>2. Inv' /\ Where' /\ Emptied'
  BY <1>1, InvStep, WhereStep, EmptiedStep
<1>3. Rooting' /\ Sorting'
  BY <1>1, <1>2, RootingStep, SortingStep
<1>4. Sought' /\ Found'
  <2>1. CASE UNCHANGED vars
    BY <1>1, <2>1 DEF vars, Sought, Found, Whole, At
  <2>2. CASE Next /\ Whole' /\ call'.pc = "insert"
    BY <1>1, <1>2, <2>2, SoughtStep
  <2>3. CASE ~(Whole' /\ call'.pc = "insert")
    BY <2>3 DEF Sought, Found
  <2> QED BY <2>1, <2>2, <2>3
<1> QED
  BY <1>2, <1>3, <1>4 DEF OrderInv

\* In every state until a fault, the keys below each node are on their sides, one
\* node is the top, and a descent is where its key belongs: for the inserts,
\* removals, rotations and the loop of the tree (rb_tree.rs:26-63, 149-376).
THEOREM StaysOrdered == Spec => []OrderInv
  BY InitOrder, OrderStep, PTL DEF Spec

\* What is reached from the top, while nothing has gone wrong.
LEMMA FromTop ==
  ASSUME Inv, Rooting, Whole
  PROVE  Reach(heap, Top) = 1..used /\ Top \in 0..used /\ (root = Nil => Top = Nil /\ used = 0)
         /\ (root # Nil => Topped(heap, used, Top))
<1>1. SoundHeap(heap, used) /\ Linked(heap, used) /\ used \in 0..MaxNodes /\ root \in 0..used
  BY DEF Inv, Whole
<1>2. CASE root = Nil
  <2>1. used = 0 /\ Top = Nil
    BY <1>2 DEF Rooting, Top
  <2>2. 1..used = {}
    BY <2>1
  <2> QED BY <1>1, <1>2, <2>1, <2>2, ReachNil
<1>3. CASE root # Nil
  <2>1. Topped(heap, used, Top)
    BY <1>3 DEF Rooting
  <2>2. Top \in 0..used
    BY <2>1, HeapRooted DEF Topped
  <2> QED BY <1>1, <1>3, <2>1, <2>2, AllReached
<1> QED BY <1>2, <1>3

\* Until a fault, every key to the left of a node is smaller than the node's, and
\* every key to the right greater, also in the middle of recolor_2, whatever the
\* keys, their number and the order of the calls (rb_tree.rs:149-337).
THEOREM KeysAlwaysInOrder == Spec => []KeysInOrder
<1>1. OrderInv => KeysInOrder
  <2> SUFFICES ASSUME OrderInv, faults = {} PROVE Ordered(heap, Top, "right")
    BY DEF KeysInOrder
  <2>1. Inv /\ Rooting /\ Emptied /\ Sorting
    BY DEF OrderInv
  <2>2. CASE call.pc = "dropped"
    <3>1. Top = Nil
      BY <2>1, <2>2 DEF Emptied, Top
    <3> QED BY <3>1, ReachNil DEF Ordered
  <2>3. CASE call.pc # "dropped"
    <3>1. Whole
      BY <2>3 DEF Whole
    <3>2. Reach(heap, Top) = 1..used /\ InOrder(heap, used)
      BY <2>1, <3>1, FromTop DEF Sorting
    <3> QED BY <3>2, InOrderIs
  <2> QED BY <2>2, <2>3
<1> QED
  BY <1>1, StaysOrdered, PTL
-----------------------------------------------------------------------------
\* The pairs in the tree, while nothing has gone wrong, are those of all nodes.
PairsAre == Entries(heap, Top) = {<<heap[n].key, heap[n].val>> : n \in 1..used}

\* No node is lost: all that were allocated are below the top.
LEMMA EntriesAre == Inv /\ Rooting /\ Whole => PairsAre
  BY FromTop DEF Entries, PairsAre

\* The same of the state after a step.
LEMMA EntriesNext == (Inv /\ Rooting /\ Whole)' => PairsAre'
  BY EntriesAre, PTL

\* The key of an insert that finds a place is new.
LEMMA KeyNew ==
  ASSUME OrderInv, Whole, InsertAttach
  PROVE  \A n \in 1..used : heap[n].key # call.key
<1> SUFFICES ASSUME NEW n \in 1..used, heap[n].key = call.key PROVE FALSE
  OBVIOUS
<1>1. Inv /\ Found /\ InOrder(heap, used)
  BY DEF OrderInv, Sorting
<1>2. PICK s \in Sides : Hung(s)
  BY <1>1, HungIs
<1>3. /\ call.pc = "insert" /\ At \in 1..used /\ heap[At].key # call.key /\ heap[At][s] = Nil
      /\ s = Side(At, call.key)
  BY <1>2 DEF Hung, InsertAttach
<1>4. n \in Reach(heap, At) /\ n # At
  BY <1>1, <1>3 DEF Found
<1>5. Reach(heap, At) = {At} \cup Reach(heap, heap[At].left) \cup Reach(heap, heap[At].right)
  BY <1>1, <1>3, HeapRooted, ReachUnfold
<1>6. PICK t \in Sides : n \in Reach(heap, heap[At][t])
  BY <1>4, <1>5 DEF Sides
<1>7. OnSide(t, heap[At].key, call.key)
  BY <1>1, <1>3, <1>6 DEF InOrder
<1>8. OnSide(s, heap[At].key, call.key)
  BY <1>1, <1>3, SideIs
<1>9. heap[At].key \in Int /\ call.key \in Int
  BY <1>1, <1>3, HeapRooted, TreeHeapAssumption DEF Node, Inv, CallInv, CallType
<1>10. t = s
  BY <1>7, <1>8, <1>9 DEF OnSide, Sides
<1> QED
  BY <1>3, <1>6, <1>10, ReachNil

\* What RefinesDictionary says of a step.
RefinesStep == faults' # {} \/ UNCHANGED D!dvars \/ D!DNext

\* Step by step: an insert is the dictionary's when its leaf is linked, or when it
\* panics at an equal key, and the rotations and the painting after it change no
\* pair (rb_tree.rs:26-48, 192-336).
LEMMA DictionaryStep == OrderInv /\ OrderInv' /\ Next => RefinesStep
<1> SUFFICES ASSUME OrderInv, OrderInv', Next, faults' = {} PROVE RefinesStep
  BY DEF RefinesStep
<1> DEFINE e == <<call.key, Value(call.key)>>
           E == Entries(heap, Top)
           E1 == Entries(heap', Top')
<1>0. /\ Inv /\ Inv' /\ Where /\ Rooting /\ Rooting' /\ call \in CallType
  BY DEF OrderInv, Inv, CallInv
<1>1. CASE DropTree
  <2>1. root' = Nil /\ call.pc # "dropped" /\ call'.pc = "dropped"
    BY <1>0, <1>1 DEF DropTree, CallType
  <2>2. E1 = {}
    BY <2>1, ReachNil DEF Entries, Top
  <2> QED
    BY <2>1, <2>2 DEF RefinesStep, D!DNext, D!DDrop
<1>2. CASE call'.pc # "dropped"
  <2>0. /\ Whole
        /\ \/ UNCHANGED <<root, heap, used>> /\ call.pc # "recolor" /\ call'.pc \notin {"recolor", "failed"}
           \/ InsertFirst \/ InsertAttach \/ RecolorDone \/ RecolorPanic \/ Repaint
           \/ \E s \in Sides : Once(s)
           \/ \E h : Twice(h)
    BY <1>0, <1>2, WholeCases
  <2>1. Whole' /\ call.pc # "dropped"
    BY <1>2, <2>0 DEF Whole
  <2>2. E = {<<heap[n].key, heap[n].val>> : n \in 1..used}
    BY <1>0, <2>0, EntriesAre DEF PairsAre
  <2>3. E1 = {<<heap'[n].key, heap'[n].val>> : n \in 1..used'}
    BY <1>0, <2>1, EntriesNext DEF PairsAre
  <2> HIDE DEF E, E1
  <2>4. ASSUME E1 = E PROVE RefinesStep
    BY <1>2, <2>1, <2>4 DEF RefinesStep, D!dvars, E, E1
  <2>5. ASSUME E1 = E \cup {e}, \A f \in E : f[1] # e[1] PROVE RefinesStep
    <3>1. e \in {<<k, Value(k)>> : k \in Keys}
      BY <1>0 DEF CallType
    <3>2. D!DInsert(e)
      BY <1>2, <2>1, <2>5 DEF D!DInsert, E, E1
    <3> QED
      BY <3>1, <3>2 DEF RefinesStep, D!DNext
  <2>6. ASSUME PairsKept(heap, heap', used), used' = used PROVE RefinesStep
    BY <2>2, <2>3, <2>4, <2>6 DEF PairsKept
  <2>7. CASE UNCHANGED <<root, heap, used>>
    BY <2>6, <2>7 DEF PairsKept
  <2>8. CASE InsertFirst
    <3>1. /\ 1..used = {} /\ 1..used' = {1} /\ heap'[1] = Fresh(Nil, "Black", call.key)
      BY <1>0, <2>0, <2>8, FirstIs
    <3>2. E = {} /\ E1 = {e}
      BY <2>2, <2>3, <3>1 DEF Fresh
    <3> QED BY <2>5, <3>2
  <2>9. CASE InsertAttach
    <3>1. PICK s \in Sides : Hung(s)
      BY <1>0, <2>9, HungIs
    <3>2. /\ 1..used' = 1..used \cup {used'} /\ heap'[used'] = Fresh(At, "Red", call.key)
          /\ \A m \in 1..used : heap'[m].key = heap[m].key /\ heap'[m].val = heap[m].val
      BY <3>1 DEF Hung
    <3>3. E1 = E \cup {e}
      BY <2>2, <2>3, <3>2 DEF Fresh
    <3>4. \A f \in E : f[1] # e[1]
      BY <2>0, <2>2, <2>9, KeyNew
    <3> QED BY <2>5, <3>3, <3>4
  <2>10. CASE RecolorDone
    BY <1>0, <2>6, <2>10, DoneIs DEF Done
  <2>11. CASE RecolorPanic
    BY <2>6, <2>11 DEF RecolorPanic, Panic, PairsKept
  <2>12. CASE Repaint
    BY <1>0, <2>6, <2>12, RepaintIs DEF Repainted
  <2>13. ASSUME NEW s \in Sides, Once(s) PROVE RefinesStep
    BY <2>6, <2>13 DEF Once
  <2>14. ASSUME NEW h, Twice(h) PROVE RefinesStep
    <3>1. PairsKept(heap, h, used) /\ PairsKept(h, heap', used) /\ used' = used
      BY <2>14 DEF Twice
    <3>2. PairsKept(heap, heap', used)
      BY <3>1 DEF PairsKept
    <3> QED BY <2>6, <3>1, <3>2
  <2> QED BY <2>0, <2>7, <2>8, <2>9, <2>10, <2>11, <2>12, <2>13, <2>14
<1> QED
  BY <1>0, <1>1, <1>2, OnlyDrop

\* Until a fault the red-black tree is a dictionary to its caller: an insert adds
\* one pair, or panics when the key is there, and nothing else changes the pairs
\* (rb_tree.rs:26-48, 192-248).
THEOREM IsDictionary == Spec => RefinesDictionary
<1>1. Init => D!DInit
  BY ReachNil DEF Init, D!DInit, Entries, Top
<1>2. OrderInv /\ OrderInv' /\ [Next]_vars => RefinesStep \/ UNCHANGED vars
  BY DictionaryStep
<1>3. UNCHANGED vars => UNCHANGED D!dvars
  BY DEF vars, D!dvars, Top
<1> QED
  BY <1>1, <1>2, <1>3, StaysOrdered, PTL DEF Spec, RefinesDictionary, RefinesStep
-----------------------------------------------------------------------------
(***************************************************************************)
(* The colours                                                             *)
(***************************************************************************)
\* Until a fault, only the node that recolor_2 looks at may be a red node below
\* a red one, the top is black, and no assert has failed.
RedBelowRed(h, n) == h[n].color = "Red" /\ h[n].parent # Nil /\ h[h[n].parent].color = "Red"

Colored ==
  Whole => /\ \A n \in 1..used : heap[n].parent = Nil => heap[n].color = "Black"
           /\ \A n \in 1..used : RedBelowRed(heap, n) => call.pc = "recolor" /\ n = At
           /\ call.pc # "failed"

\* Until a fault, the asserts and the panic of recolor_2 are never reached.
LEMMA NoPanic ==
  ASSUME Inv, Colored, Whole
  PROVE  ~RecolorPanic
<1> SUFFICES ASSUME RecolorPanic PROVE FALSE
  OBVIOUS
<1>1. /\ call.pc = "recolor" /\ Parent # Nil /\ heap[Parent].color = "Red" /\ RedParent
      /\ ~HasGrand \/ ~IsChild(heap, Parent, At)
  BY DEF RecolorPanic, RedParent, Recoloring
<1>2. At \in 1..used /\ Parent \in 1..used /\ heap[At].parent = Parent /\ Linked(heap, used)
  <2>1. At \in 1..used
    BY <1>1, HeapRooted DEF Inv, CallInv, At
  <2> QED BY <1>1, <2>1, HeapRooted DEF Inv, Whole, Parent
<1>3. IsChild(heap, Parent, At)
  BY <1>2 DEF Linked
<1>4. Grand # Nil
  BY <1>1, <1>2 DEF Colored, Grand
<1>5. Grand \in 1..used /\ heap[Parent].parent = Grand
  BY <1>2, <1>4, HeapRooted DEF Grand
<1>6. IsChild(heap, Grand, Parent)
  BY <1>2, <1>5 DEF Linked
<1> QED
  BY <1>1, <1>3, <1>4, <1>6 DEF HasGrand

\* The parent links after a single rotation, and after a double one.
LEMMA OnceParents ==
  ASSUME Inv, Inv', Whole, NEW s \in Sides, Once(s)
  PROVE  /\ heap'[Parent].parent = heap[Grand].parent /\ heap'[Grand].parent = Parent
         /\ \A m \in 1..used \ {Parent, Grand} :
              heap'[m].parent = IF m = heap[Parent][s] THEN Grand ELSE heap[m].parent
  BY OnceMoves DEF Once, Lifted

\* Where the parent links lead after a double rotation.
LEMMA TwiceParents ==
  ASSUME Inv, Inv', Whole, NEW h, Twice(h)
  PROVE  /\ heap'[At].parent = Nil /\ heap'[Parent].parent = At /\ heap'[Grand].parent = At
         /\ \A m \in 1..used \ {At, Parent, Grand} :
              heap'[m].parent = IF m = heap[At].left THEN Parent ELSE
                                IF m = heap[At].right THEN Grand ELSE heap[m].parent
<1>1. /\ At \in 1..used /\ Parent \in 1..used /\ Grand \in 1..used
      /\ heap[At].parent = Parent /\ heap[Parent].parent = Grand /\ heap[Grand].parent = Nil
      /\ Lifted(heap, h, used, At, "left") /\ h[At].parent = Grand
      /\ Lifted(h, heap', used, At, "right")
  BY DEF Twice
<1>2. At # Parent /\ At # Grand /\ Parent # Grand /\ heap'[At].parent = Nil
  BY TwiceMoves
<1>3. /\ h[Parent].parent = At /\ h[At].right = heap[At].right
      /\ \A m \in 1..used \ {At, Parent} : h[m].parent = IF m = heap[At].left THEN Parent ELSE heap[m].parent
  BY <1>1 DEF Lifted, Rev
<1>4. /\ heap'[Grand].parent = At
      /\ \A m \in 1..used \ {At, Grand} : heap'[m].parent = IF m = h[At].right THEN Grand ELSE h[m].parent
  BY <1>1 DEF Lifted
<1>5. /\ heap[At].right # Parent
      /\ heap[At].left = heap[At].right => heap[At].left = Nil
  <2>1. Linked(heap, used) /\ heap[At].right \in 0..used
    BY <1>1, HeapRooted DEF Inv, Whole
  <2>2. heap[At].right \in 1..used => heap[heap[At].right].parent = At
    BY <1>1, <2>1 DEF Linked, IsChild
  <2>3. heap[At].left = heap[At].right => heap[At].left = Nil
    BY <1>1, <2>1 DEF Linked
  <2> QED BY <1>1, <1>2, <2>1, <2>2, <2>3, HeapRooted
<1>6. heap'[Parent].parent = At
  BY <1>1, <1>2, <1>3, <1>4, <1>5
<1>7. Nil \notin 1..used
  BY HeapRooted
<1> QED
  BY <1>1, <1>2, <1>3, <1>4, <1>5, <1>6, <1>7

\* The only red node below a red one is the one at which recolor_2 goes on
\* (rb_tree.rs:253-336).
LEMMA ColoredStep ==
  Inv /\ Inv' /\ Where /\ Rooting /\ Colored /\ [Next]_vars => Colored'
<1> SUFFICES ASSUME Inv, Inv', Where, Rooting, Colored, [Next]_vars, Whole' PROVE Colored'
  BY DEF Colored
<1>0. /\ used \in 0..MaxNodes /\ Nil \notin 1..used /\ call \in CallType
      /\ \A n \in 1..used : heap[n].parent \in 0..used /\ 0..used = 1..used \cup {Nil}
  BY HeapRooted DEF Inv, CallInv
<1>1. CASE UNCHANGED vars
  BY <1>1 DEF vars, Colored, Whole, At
<1>2. CASE Next
  <2>0. /\ Whole
        /\ \/ UNCHANGED <<root, heap, used>> /\ call.pc # "recolor" /\ call'.pc \notin {"recolor", "failed"}
           \/ InsertFirst \/ InsertAttach \/ RecolorDone \/ Repaint
           \/ \E s \in Sides : Once(s)
           \/ \E h : Twice(h)
    BY <1>2, WholeCases, NoPanic DEF Whole
  <2>01. /\ Linked(heap, used)
         /\ \A n \in 1..used : heap[n].parent = Nil => heap[n].color = "Black"
         /\ \A n \in 1..used : RedBelowRed(heap, n) => call.pc = "recolor" /\ n = At
         /\ call.pc # "failed"
    BY <2>0 DEF Inv, Whole, Colored
  <2>1. CASE UNCHANGED <<root, heap, used>> /\ call.pc # "recolor" /\ call'.pc \notin {"recolor", "failed"}
    BY <2>01, <2>1 DEF Colored, RedBelowRed
  <2>2. CASE InsertFirst
    <3>1. /\ 1..used' = {1} /\ heap'[1].parent = Nil /\ heap'[1].color = "Black" /\ call'.pc = "idle"
      BY <2>0, <2>2, FirstIs
    <3> QED BY <3>1 DEF Colored, RedBelowRed
  <2>3. CASE InsertAttach
    <3>1. PICK s \in Sides : Hung(s)
      BY <2>3, HungIs
    <3>2. /\ At \in 1..used /\ used' \notin 0..used /\ 1..used' = 1..used \cup {used'} /\ used' \in Nodes
          /\ heap'[used'] = Fresh(At, "Red", call.key)
          /\ \A m \in 1..used : heap'[m].parent = heap[m].parent /\ heap'[m].color = heap[m].color
          /\ IF heap[At].color = "Red" THEN call' = [call EXCEPT !.pc = "recolor", !.at = used']
                                       ELSE Return(NoValue)
      BY <3>1 DEF Hung
    <3>3. call.pc = "insert"
      BY <2>3 DEF InsertAttach
    <3>4. heap'[used'].parent = At /\ At # Nil
      BY <1>0, <3>2 DEF Fresh
    <3>5. \A n \in 1..used : ~RedBelowRed(heap', n)
      BY <1>0, <2>01, <3>2, <3>3 DEF RedBelowRed
    <3>6. CASE heap[At].color = "Red"
      <4>1. call' = [call EXCEPT !.pc = "recolor", !.at = used']
        BY <3>2, <3>6
      <4>2. call'.pc = "recolor" /\ At' = used'
        BY <1>0, <3>2, <4>1, Counting DEF CallType, At
      <4> QED BY <2>01, <3>2, <3>4, <3>5, <4>2 DEF Colored
    <3>7. CASE heap[At].color # "Red"
      <4>1. call'.pc = "idle" /\ ~RedBelowRed(heap', used')
        BY <1>0, <3>2, <3>4, <3>7 DEF Return, CallType, RedBelowRed
      <4> QED BY <2>01, <3>2, <3>4, <3>5, <4>1 DEF Colored
    <3> QED BY <3>6, <3>7
  <2>4. CASE RecolorDone
    <3>1. /\ At \in 1..used /\ ~RedParent /\ call.pc = "recolor" /\ used' = used /\ call'.pc = "idle"
          /\ AllLinks(heap, heap', used)
          /\ \A m \in 1..used : heap'[m].color = IF Parent = Nil /\ m = At THEN "Black" ELSE heap[m].color
      BY <2>4, DoneIs DEF Done
    <3>2. \A n \in 1..used : heap'[n].parent = heap[n].parent
      BY <3>1 DEF AllLinks
    <3>3. \A n \in 1..used : heap'[n].color = "Red" => heap[n].color = "Red"
      BY <3>1
    <3>4. ~RedBelowRed(heap, At)
      BY <3>1 DEF RedBelowRed, RedParent, Recoloring, Parent
    <3>5. \A n \in 1..used : RedBelowRed(heap', n) => RedBelowRed(heap, n)
      BY <1>0, <3>2, <3>3 DEF RedBelowRed
    <3> QED BY <2>01, <3>1, <3>2, <3>4, <3>5 DEF Colored
  <2>5. CASE Repaint
    <3>1. /\ At \in 1..used /\ Parent \in 1..used /\ Grand \in 1..used /\ Uncle \in 1..used
          /\ heap[At].parent = Parent /\ heap[Parent].parent = Grand /\ HasGrand
          /\ AllLinks(heap, heap', used) /\ used' = used
          /\ \A m \in 1..used : heap'[m].color = IF m = Grand /\ heap[Grand].parent # Nil THEN "Red" ELSE
                                                 IF m \in {Parent, Uncle} THEN "Black" ELSE heap[m].color
          /\ IF heap[Grand].parent = Nil THEN call'.pc = "idle" ELSE call'.pc = "recolor" /\ call'.at = Grand
      BY <2>5, RepaintIs DEF Repainted
    <3>2. \A n \in 1..used : heap'[n].parent = heap[n].parent
      BY <3>1 DEF AllLinks
    <3>3. \A n \in 1..used : heap[n].parent = Grand => n = Parent \/ n = Uncle
      <4>1. \A n \in 1..used : heap[n].parent = Grand => IsChild(heap, Grand, n)
        BY <2>01, <3>1 DEF Linked
      <4> QED BY <3>1, <4>1 DEF IsChild, Uncle, HasGrand
    <3>4. ASSUME NEW n \in 1..used, RedBelowRed(heap', n), n # Grand PROVE FALSE
      <4> DEFINE q == heap[n].parent
      <4>1. q \in 1..used /\ heap'[n].color = "Red" /\ heap'[q].color = "Red"
        BY <1>0, <3>2, <3>4 DEF RedBelowRed
      <4>2. n \notin {Parent, Uncle} /\ heap[n].color = "Red"
        BY <3>1, <3>4, <4>1
      <4>3. q # Grand
        BY <3>3, <4>2
      <4>4. q # Parent /\ heap[q].color = "Red"
        BY <3>1, <4>1, <4>3
      <4>5. RedBelowRed(heap, n)
        BY <1>0, <4>1, <4>2, <4>4 DEF RedBelowRed
      <4> QED BY <2>01, <3>1, <4>4, <4>5
    <3>5. \A n \in 1..used : heap'[n].parent = Nil => heap'[n].color = "Black"
      BY <2>01, <3>1, <3>2
    <3>6. CASE heap[Grand].parent = Nil
      <4>1. ~RedBelowRed(heap', Grand)
        BY <3>1, <3>2, <3>6 DEF RedBelowRed
      <4> QED BY <3>1, <3>4, <3>5, <3>6, <4>1 DEF Colored
    <3>7. CASE heap[Grand].parent # Nil
      BY <3>1, <3>4, <3>5, <3>7 DEF Colored, At
    <3> QED BY <3>6, <3>7
  <2>6. ASSUME NEW s \in Sides, Once(s) PROVE Colored'
    <3>1. /\ At \in 1..used /\ Parent \in 1..used /\ Grand \in 1..used /\ used' = used
          /\ heap[At].parent = Parent /\ heap[Parent].parent = Grand /\ heap[Grand][Rev(s)] = Parent
          /\ heap[Parent].color = "Red" /\ ~RedUncle /\ HasGrand
          /\ \A m \in 1..used : heap'[m].color = IF m = Parent THEN "Black" ELSE
                                                 IF m = Grand THEN "Red" ELSE heap[m].color
      BY <2>6 DEF Once
    <3>2. /\ heap'[Parent].parent = heap[Grand].parent /\ heap'[Grand].parent = Parent
          /\ \A m \in 1..used \ {Parent, Grand} :
               heap'[m].parent = IF m = heap[Parent][s] THEN Grand ELSE heap[m].parent
      BY <2>0, <2>6, OnceParents
    <3>3. /\ call'.at = Parent /\ call'.pc = "recolor" /\ heap[Parent][s] # At /\ Parent # Grand
          /\ At # Grand /\ At # Parent
      BY <2>0, <2>6, OnceMoves
    <3>4. \A n \in 1..used : heap[n].parent = Grand => n = Parent \/ heap[n].color # "Red"
      <4>1. \A n \in 1..used : heap[n].parent = Grand => IsChild(heap, Grand, n)
        BY <2>01, <3>1 DEF Linked
      <4>2. \A n \in 1..used : heap[n].parent = Grand => n = Parent \/ n = Uncle
        BY <3>1, <4>1 DEF IsChild, Uncle, HasGrand
      <4> QED BY <1>0, <3>1, <4>2 DEF RedUncle
    <3>5. heap[Parent][s] \in 1..used => heap[heap[Parent][s]].parent = Parent
      <4>1. heap[Parent][s] \in 1..used => IsChild(heap, Parent, heap[Parent][s])
        BY DEF IsChild, Sides
      <4> QED BY <2>01, <3>1, <4>1 DEF Linked
    <3>6. ASSUME NEW n \in 1..used, RedBelowRed(heap', n) PROVE FALSE
      <4>1. n # Parent /\ n # Grand
        BY <3>1, <3>2, <3>3, <3>6 DEF RedBelowRed
      <4>2. heap[n].color = "Red"
        BY <3>1, <3>6, <4>1 DEF RedBelowRed
      <4>3. CASE n = heap[Parent][s]
        <5>1. RedBelowRed(heap, n)
          BY <1>0, <3>1, <3>5, <4>2, <4>3 DEF RedBelowRed
        <5> QED BY <2>01, <3>3, <4>3, <5>1
      <4>4. CASE n # heap[Parent][s]
        <5>1. /\ heap[n].parent \in 1..used /\ heap'[n].parent = heap[n].parent
              /\ heap'[heap[n].parent].color = "Red"
          BY <1>0, <3>2, <3>6, <4>1, <4>4 DEF RedBelowRed
        <5>2. heap[n].parent # Grand /\ heap[n].parent # Parent
          BY <3>1, <3>4, <4>1, <4>2, <5>1
        <5>3. RedBelowRed(heap, n)
          BY <1>0, <3>1, <4>2, <5>1, <5>2 DEF RedBelowRed
        <5> QED BY <2>01, <3>1, <5>2, <5>3
      <4> QED BY <4>3, <4>4
    <3>7. \A n \in 1..used : heap'[n].parent = Nil => heap'[n].color = "Black"
      BY <1>0, <2>01, <3>1, <3>2
    <3> QED BY <3>1, <3>3, <3>6, <3>7 DEF Colored
  <2>7. ASSUME NEW h, Twice(h) PROVE Colored'
    <3>1. /\ At \in 1..used /\ Parent \in 1..used /\ Grand \in 1..used /\ used' = used
          /\ heap[At].parent = Parent /\ heap[Parent].parent = Grand
          /\ heap[Parent].color = "Red" /\ heap[At].color = "Red" /\ ~RedUncle /\ HasGrand
          /\ \A m \in 1..used : heap'[m].color = IF m = At THEN "Black" ELSE
                                                 IF m = Parent \/ m = Grand THEN "Red" ELSE heap[m].color
      BY <2>7 DEF Twice
    <3>2. /\ heap'[At].parent = Nil /\ heap'[Parent].parent = At /\ heap'[Grand].parent = At
          /\ \A m \in 1..used \ {At, Parent, Grand} :
               heap'[m].parent = IF m = heap[At].left THEN Parent ELSE
                                 IF m = heap[At].right THEN Grand ELSE heap[m].parent
      BY <2>0, <2>7, TwiceParents
    <3>3. call'.at = At /\ call'.pc = "recolor" /\ At # Parent /\ At # Grand /\ Parent # Grand
      BY <2>0, <2>7, TwiceMoves
    <3>4. \A n \in 1..used : heap[n].parent = Grand => n = Parent \/ heap[n].color # "Red"
      <4>1. \A n \in 1..used : heap[n].parent = Grand => IsChild(heap, Grand, n)
        BY <2>01, <3>1 DEF Linked
      <4>2. \A n \in 1..used : heap[n].parent = Grand => n = Parent \/ n = Uncle
        BY <3>1, <4>1 DEF IsChild, Uncle, HasGrand
      <4> QED BY <1>0, <3>1, <4>2 DEF RedUncle
    <3>5. \A n \in 1..used : n \in {heap[At].left, heap[At].right} => heap[n].parent = At
      BY <2>01, <3>1 DEF Linked, IsChild
    <3>6. ASSUME NEW n \in 1..used, RedBelowRed(heap', n) PROVE FALSE
      <4>1. n \notin {At, Parent, Grand}
        BY <3>1, <3>2, <3>3, <3>6 DEF RedBelowRed
      <4>2. heap[n].color = "Red"
        BY <3>1, <3>6, <4>1 DEF RedBelowRed
      <4>3. CASE n \in {heap[At].left, heap[At].right}
        <5>1. RedBelowRed(heap, n)
          BY <1>0, <3>1, <3>5, <4>2, <4>3 DEF RedBelowRed
        <5> QED BY <2>01, <4>1, <5>1
      <4>4. CASE n \notin {heap[At].left, heap[At].right}
        <5>1. /\ heap[n].parent \in 1..used /\ heap'[n].parent = heap[n].parent
              /\ heap'[heap[n].parent].color = "Red"
          BY <1>0, <3>2, <3>6, <4>1, <4>4 DEF RedBelowRed
        <5>2. heap[n].parent # Grand
          BY <3>4, <4>1, <4>2
        <5>3. heap[heap[n].parent].color = "Red"
          BY <3>1, <5>1, <5>2
        <5>4. RedBelowRed(heap, n)
          BY <1>0, <4>2, <5>1, <5>3 DEF RedBelowRed
        <5> QED BY <2>01, <4>1, <5>4
      <4> QED BY <4>3, <4>4
    <3>7. \A n \in 1..used : heap'[n].parent = Nil => heap'[n].color = "Black"
      BY <1>0, <2>01, <3>1, <3>2
    <3> QED BY <3>1, <3>3, <3>6, <3>7 DEF Colored
  <2> QED BY <2>0, <2>1, <2>2, <2>3, <2>4, <2>5, <2>6, <2>7
<1> QED BY <1>1, <1>2
-----------------------------------------------------------------------------
(***************************************************************************)
(* The number of black nodes                                               *)
(***************************************************************************)
\* f gives each node the number of black nodes on every way down from it.
Heights(h, u, f) ==
  /\ f \in [0..u -> Int] /\ f[Nil] = 0
  /\ \A n \in 1..u, s \in Sides : f[n] = f[h[n][s]] + Blackness(h, n)

Levelled == Whole => \E f : Heights(heap, used, f)

\* A node counts as one black node or as none.
LEMMA BlacknessInt == \A h, n : Blackness(h, n) \in {0, 1}
  BY DEF Blackness

\* Paint that leaves the colours as they were changes nothing.
LEMMA SameHeights ==
  ASSUME NEW h, NEW R, NEW u, AllLinks(h, R, u), ColorsKept(h, R, u), NEW f, Heights(h, u, f)
  PROVE  Heights(R, u, f)
<1>1. \A n \in 1..u, s \in Sides : R[n][s] = h[n][s] /\ Blackness(R, n) = Blackness(h, n)
  BY DEF AllLinks, ColorsKept, Blackness, Sides
<1> QED
  BY <1>1 DEF Heights

\* Where f is changed.
Swapped(f, u, n, p) == [m \in 0..u |-> IF m = n THEN f[p] ELSE IF m = p THEN f[n] ELSE f[m]]

\* A single rotation: the raised node takes over the height.
LEMMA OnceHeights ==
  ASSUME Inv, Inv', Colored, Whole, NEW s \in Sides, Once(s), NEW f, Heights(heap, used, f)
  PROVE  Heights(heap', used, Swapped(f, used, Parent, Grand))
<1> DEFINE b == heap[Parent][s]
           a == heap[Parent][Rev(s)]
           c == heap[Grand][s]
           g == Swapped(f, used, Parent, Grand)
<1>1. /\ At \in 1..used /\ Parent \in 1..used /\ Grand \in 1..used
      /\ heap[Parent].parent = Grand /\ heap[Grand][Rev(s)] = Parent
      /\ heap[Parent].color = "Red" /\ Lifted(heap, heap', used, Parent, s)
      /\ \A m \in 1..used : heap'[m].color = IF m = Parent THEN "Black" ELSE
                                             IF m = Grand THEN "Red" ELSE heap[m].color
  BY DEF Once
<1>2. /\ used \in 0..MaxNodes /\ SoundHeap(heap, used) /\ Linked(heap, used)
      /\ Rev(s) \in Sides /\ Sides = {s, Rev(s)} /\ Nil \in 0..used /\ 1..used \subseteq 0..used
      /\ Nil \notin 1..used
  <2>1. used \in 0..MaxNodes /\ SoundHeap(heap, used) /\ Linked(heap, used)
    BY DEF Inv, Whole
  <2> QED BY <2>1, Counting DEF Sides, Rev
<1>3. /\ \A t \in Sides : heap[Parent][t] \in 0..used \ {Parent, Grand}
      /\ c \in 0..used \ {Parent, Grand} /\ Parent # Grand
      /\ \A x \in 1..used \ {Parent, Grand}, t \in Sides : heap[x][t] \in 0..used \ {Parent}
  BY <1>1, <1>2, LiftApart
<1>4. heap[Grand].color = "Black"
  <2>1. ~RedBelowRed(heap, Parent)
    <3>1. Parent # At
      BY OnceMoves
    <3> QED BY <1>1, <3>1 DEF Colored
  <2>2. heap[Grand].color \in Colors
    BY <1>1, HeapRooted DEF Node
  <2> QED BY <1>1, <1>2, <2>1, <2>2 DEF RedBelowRed, Colors
<1>5. /\ heap'[Parent][s] = Grand /\ heap'[Parent][Rev(s)] = a
      /\ heap'[Grand][Rev(s)] = b /\ heap'[Grand][s] = c
      /\ \A x \in 1..used \ {Parent, Grand}, t \in Sides :
           heap'[x][t] = IF heap[x][t] = Grand THEN Parent ELSE heap[x][t]
  BY <1>1 DEF Lifted, Sides
<1>6. /\ Blackness(heap, Parent) = 0 /\ Blackness(heap, Grand) = 1
      /\ Blackness(heap', Parent) = 1 /\ Blackness(heap', Grand) = 0
      /\ \A x \in 1..used \ {Parent, Grand} : Blackness(heap', x) = Blackness(heap, x)
  BY <1>1, <1>3, <1>4 DEF Blackness
<1>7. /\ f \in [0..used -> Int] /\ f[Nil] = 0
      /\ f[Parent] = f[a] + 0 /\ f[Parent] = f[b] + 0
      /\ f[Grand] = f[Parent] + 1 /\ f[Grand] = f[c] + 1
      /\ \A x \in 1..used \ {Parent, Grand}, t \in Sides : f[x] = f[heap[x][t]] + Blackness(heap, x)
  BY <1>1, <1>2, <1>6 DEF Heights
<1>8. /\ a \in 0..used \ {Parent, Grand} /\ b \in 0..used \ {Parent, Grand}
      /\ c \in 0..used \ {Parent, Grand}
  BY <1>2, <1>3
<1> HIDE DEF a, b, c
<1>9. /\ g \in [0..used -> Int] /\ g[Parent] = f[Grand] /\ g[Grand] = f[Parent]
      /\ \A x \in 0..used \ {Parent, Grand} : g[x] = f[x]
  BY <1>1, <1>2, <1>3, <1>7 DEF Swapped
<1> HIDE DEF g
<1>10. g[Nil] = 0
  BY <1>1, <1>2, <1>7, <1>9
<1>11. \A x \in 0..used : f[x] \in Int
  BY <1>7
<1>12. ASSUME NEW x \in 1..used, NEW t \in Sides PROVE g[x] = g[heap'[x][t]] + Blackness(heap', x)
  <2>1. CASE x = Parent /\ t = s BY <1>1, <1>2, <1>5, <1>6, <1>7, <1>9, <1>11, <2>1
  <2>2. CASE x = Parent /\ t = Rev(s) BY <1>1, <1>2, <1>5, <1>6, <1>7, <1>8, <1>9, <1>11, <2>2
  <2>3. CASE x = Grand /\ t = s BY <1>1, <1>2, <1>5, <1>6, <1>7, <1>8, <1>9, <1>11, <2>3
  <2>4. CASE x = Grand /\ t = Rev(s) BY <1>1, <1>2, <1>5, <1>6, <1>7, <1>8, <1>9, <1>11, <2>4
  <2>5. CASE x \notin {Parent, Grand}
    <3>1. g[x] = f[heap[x][t]] + Blackness(heap', x)
      BY <1>2, <1>6, <1>7, <1>9, <2>5
    <3>2. heap[x][t] \in 0..used \ {Parent}
      BY <1>3, <2>5
    <3>3. heap'[x][t] = IF heap[x][t] = Grand THEN Parent ELSE heap[x][t]
      BY <1>5, <2>5
    <3>4. g[heap'[x][t]] = f[heap[x][t]]
      BY <1>9, <3>2, <3>3
    <3> QED BY <3>1, <3>4
  <2> QED BY <1>2, <2>1, <2>2, <2>3, <2>4, <2>5
<1>13. Heights(heap', used, g)
  BY <1>9, <1>10, <1>12 DEF Heights
<1> QED
  BY <1>13 DEF g

\* A double rotation: so does the node that is raised twice.
LEMMA TwiceHeights ==
  ASSUME Inv, Inv', Colored, Whole, NEW h, Twice(h), NEW f, Heights(heap, used, f)
  PROVE  Heights(heap', used, Swapped(f, used, At, Grand))
<1> DEFINE b == heap[At].left
           d == heap[At].right
           a == heap[Parent].left
           c == heap[Grand].right
           g == Swapped(f, used, At, Grand)
<1>1. /\ At \in 1..used /\ Parent \in 1..used /\ Grand \in 1..used
      /\ heap[At].parent = Parent /\ heap[Parent].parent = Grand /\ heap[Grand].parent = Nil
      /\ heap[Grand].left = Parent /\ heap[Parent].right = At
      /\ heap[Parent].color = "Red" /\ heap[At].color = "Red"
      /\ Lifted(heap, h, used, At, "left") /\ h[At].parent = Grand
      /\ Lifted(h, heap', used, At, "right")
      /\ \A m \in 1..used : heap'[m].color = IF m = At THEN "Black" ELSE
                                             IF m = Parent \/ m = Grand THEN "Red" ELSE heap[m].color
  BY DEF Twice
<1>2. /\ used \in 0..MaxNodes /\ SoundHeap(heap, used) /\ Linked(heap, used)
      /\ "left" \in Sides /\ "right" \in Sides /\ Sides = {"left", "right"}
      /\ Nil \in 0..used /\ 1..used \subseteq 0..used /\ Nil \notin 1..used
  <2>1. used \in 0..MaxNodes /\ SoundHeap(heap, used) /\ Linked(heap, used)
    BY DEF Inv, Whole
  <2> QED BY <2>1, Counting DEF Sides
<1>3. At # Parent /\ At # Grand /\ Parent # Grand
  BY TwiceMoves
<1>4. heap[Grand].color = "Black"
  <2>1. ~RedBelowRed(heap, Parent)
    BY <1>1, <1>3 DEF Colored
  <2>2. heap[Grand].color \in Colors
    BY <1>1, HeapRooted DEF Node
  <2> QED BY <1>1, <1>2, <2>1, <2>2 DEF RedBelowRed, Colors
<1>5. \A x \in 1..used, t \in Sides :
        heap[x][t] \in 0..used /\ (heap[x][t] # Nil => heap[heap[x][t]].parent = x)
  <2> TAKE x \in 1..used, t \in Sides
  <2>1. heap[x][t] \in 0..used
    BY <1>2, HeapRooted
  <2>2. heap[x][t] # Nil => heap[x][t] \in Children(heap, x)
    BY <1>2 DEF Children
  <2> QED BY <1>2, <2>1, <2>2, OwnerIsParent
<1>6. /\ a \in 0..used \ {At, Parent, Grand} /\ b \in 0..used \ {At, Parent, Grand}
      /\ c \in 0..used \ {At, Parent, Grand} /\ d \in 0..used \ {At, Parent, Grand}
  <2>1. heap[Parent].left # heap[Parent].right /\ heap[Grand].left # heap[Grand].right
    BY <1>1, <1>2 DEF Linked
  <2> QED BY <1>1, <1>2, <1>3, <1>5, <2>1
<1>7. \A x \in 1..used \ {At, Parent, Grand}, t \in Sides : heap[x][t] \in 0..used \ {At, Parent, Grand}
  BY <1>1, <1>2, <1>5
<1>8. /\ h[At].left = Parent /\ h[At].right = d /\ h[Parent].right = b /\ h[Parent].left = a
      /\ h[Grand].right = c
      /\ \A x \in 1..used \ {At, Parent, Grand}, t \in Sides : h[x][t] = heap[x][t]
  <2>1. h[At].left = Parent /\ h[At].right = d /\ h[Parent].right = b /\ h[Parent].left = a
    BY <1>1 DEF Lifted, Rev
  <2>2. \A x \in 1..used \ {At, Parent} : /\ h[x].left = IF heap[x].left = Parent THEN At ELSE heap[x].left
                                         /\ h[x].right = IF heap[x].right = Parent THEN At ELSE heap[x].right
    BY <1>1 DEF Lifted
  <2>3. h[Grand].right = c
    BY <1>1, <1>3, <1>6, <2>2
  <2> QED BY <1>2, <1>7, <2>1, <2>2, <2>3
<1>9. /\ heap'[At].right = Grand /\ heap'[At].left = Parent
      /\ heap'[Grand].left = d /\ heap'[Grand].right = c
      /\ heap'[Parent].left = a /\ heap'[Parent].right = b
      /\ \A x \in 1..used \ {At, Parent, Grand}, t \in Sides : heap'[x][t] = heap[x][t]
  <2>1. /\ heap'[At].right = Grand /\ heap'[At].left = Parent /\ heap'[Grand].left = d /\ heap'[Grand].right = c
    BY <1>1, <1>8 DEF Lifted, Rev
  <2>2. \A x \in 1..used \ {At, Grand} : /\ heap'[x].left = IF h[x].left = Grand THEN At ELSE h[x].left
                                        /\ heap'[x].right = IF h[x].right = Grand THEN At ELSE h[x].right
    BY <1>1 DEF Lifted
  <2>3. heap'[Parent].left = a /\ heap'[Parent].right = b
    BY <1>1, <1>3, <1>6, <1>8, <2>2
  <2> QED BY <1>2, <1>7, <1>8, <2>1, <2>2, <2>3
<1>10. /\ Blackness(heap, At) = 0 /\ Blackness(heap, Parent) = 0 /\ Blackness(heap, Grand) = 1
       /\ Blackness(heap', At) = 1 /\ Blackness(heap', Parent) = 0 /\ Blackness(heap', Grand) = 0
       /\ \A x \in 1..used \ {At, Parent, Grand} : Blackness(heap', x) = Blackness(heap, x)
  BY <1>1, <1>3, <1>4 DEF Blackness
<1>11. /\ f \in [0..used -> Int] /\ f[Nil] = 0
       /\ f[At] = f[b] + 0 /\ f[At] = f[d] + 0 /\ f[Parent] = f[a] + 0 /\ f[Parent] = f[At] + 0
       /\ f[Grand] = f[Parent] + 1 /\ f[Grand] = f[c] + 1
       /\ \A x \in 1..used \ {At, Parent, Grand}, t \in Sides : f[x] = f[heap[x][t]] + Blackness(heap, x)
  BY <1>1, <1>2, <1>10 DEF Heights
<1> HIDE DEF a, b, c, d
<1>12. /\ g \in [0..used -> Int] /\ g[At] = f[Grand] /\ g[Grand] = f[At]
       /\ \A x \in 0..used \ {At, Grand} : g[x] = f[x]
  BY <1>1, <1>2, <1>3, <1>11 DEF Swapped
<1> HIDE DEF g
<1>13. g[Nil] = 0 /\ \A x \in 0..used : f[x] \in Int
  BY <1>1, <1>2, <1>11, <1>12
<1>14. ASSUME NEW x \in 1..used, NEW t \in Sides PROVE g[x] = g[heap'[x][t]] + Blackness(heap', x)
  <2>0. /\ g[a] = f[a] /\ g[b] = f[b] /\ g[c] = f[c] /\ g[d] = f[d] /\ g[Parent] = f[Parent]
        /\ f[a] \in Int /\ f[b] \in Int /\ f[c] \in Int /\ f[d] \in Int /\ f[At] \in Int
        /\ f[Parent] \in Int /\ f[Grand] \in Int
    BY <1>1, <1>2, <1>3, <1>6, <1>12, <1>13
  <2>1. CASE x = At /\ t = "left" BY <1>9, <1>10, <1>11, <1>12, <2>0, <2>1
  <2>2. CASE x = At /\ t = "right" BY <1>9, <1>10, <1>11, <1>12, <2>0, <2>2
  <2>3. CASE x = Parent /\ t = "left" BY <1>9, <1>10, <1>11, <1>12, <2>0, <2>3
  <2>4. CASE x = Parent /\ t = "right" BY <1>9, <1>10, <1>11, <1>12, <2>0, <2>4
  <2>5. CASE x = Grand /\ t = "left" BY <1>9, <1>10, <1>11, <1>12, <2>0, <2>5
  <2>6. CASE x = Grand /\ t = "right" BY <1>9, <1>10, <1>11, <1>12, <2>0, <2>6
  <2>7. CASE x \notin {At, Parent, Grand}
    <3>1. g[x] = f[heap[x][t]] + Blackness(heap', x)
      BY <1>2, <1>10, <1>11, <1>12, <2>7
    <3>2. heap[x][t] \in 0..used \ {At, Parent, Grand} /\ heap'[x][t] = heap[x][t]
      BY <1>7, <1>9, <2>7
    <3>3. g[heap'[x][t]] = f[heap[x][t]]
      BY <1>12, <3>2
    <3> QED BY <3>1, <3>3
  <2> QED BY <1>2, <2>1, <2>2, <2>3, <2>4, <2>5, <2>6, <2>7
<1>15. Heights(heap', used, g)
  BY <1>12, <1>13, <1>14 DEF Heights
<1> QED
  BY <1>15 DEF g

\* The branch for a red uncle moves one black node from the grandparent to its
\* children, unless it is the top, which stays black and makes every path longer
\* (rb_tree.rs:262-273).
LEMMA RepaintHeights ==
  ASSUME Inv, Inv', Rooting, Colored, Whole, Repaint, NEW f, Heights(heap, used, f)
  PROVE  \E g : Heights(heap', used, g)
<1> DEFINE top == heap[Grand].parent = Nil
           S == {Parent, Uncle} \cup IF top THEN {Grand} ELSE {}
           g == [m \in 0..used |-> IF m \in S THEN f[m] + 1 ELSE f[m]]
<1>1. /\ At \in 1..used /\ Parent \in 1..used /\ Grand \in 1..used /\ Uncle \in 1..used
      /\ heap[At].parent = Parent /\ heap[Parent].parent = Grand /\ HasGrand
      /\ heap[Parent].color = "Red" /\ heap[Uncle].color = "Red"
      /\ AllLinks(heap, heap', used) /\ used' = used
      /\ \A m \in 1..used : heap'[m].color = IF m = Grand /\ heap[Grand].parent # Nil THEN "Red" ELSE
                                             IF m \in {Parent, Uncle} THEN "Black" ELSE heap[m].color
  BY RepaintIs DEF Repainted
<1>2. /\ used \in 0..MaxNodes /\ SoundHeap(heap, used) /\ Linked(heap, used)
      /\ Nil \in 0..used /\ 1..used \subseteq 0..used /\ Nil \notin 1..used
  <2>1. used \in 0..MaxNodes /\ SoundHeap(heap, used) /\ Linked(heap, used)
    BY DEF Inv, Whole
  <2> QED BY <2>1, Counting DEF Sides
<1>3. \A x \in 1..used, t \in Sides :
        heap[x][t] \in 0..used /\ (heap[x][t] # Nil => heap[heap[x][t]].parent = x)
  <2> TAKE x \in 1..used, t \in Sides
  <2>1. heap[x][t] \in 0..used
    BY HeapRooted DEF Sides
  <2>2. heap[x][t] # Nil => heap[x][t] \in Children(heap, x)
    BY DEF Children, Sides
  <2> QED BY <1>2, <2>1, <2>2, OwnerIsParent
<1>4. IsChild(heap, Grand, Uncle) /\ IsChild(heap, Grand, Parent) /\ heap[Uncle].parent = Grand
      /\ Grand # Parent /\ Grand # Uncle /\ At # Parent
  <2>1. IsChild(heap, Grand, Uncle) /\ IsChild(heap, Grand, Parent)
    BY <1>1, HasGrandAt
  <2>2. heap[Uncle].parent = Grand
    BY <1>1, <1>2, <2>1 DEF Linked
  <2> QED BY <1>1, <1>2, <2>1, <2>2, AllApart
<1>5. \A t \in Sides : heap[Grand][t] \in {Parent, Uncle}
  BY <1>1, <1>4 DEF IsChild, Uncle, Sides
<1>6. heap[Grand].color = "Black"
  <2>1. ~RedBelowRed(heap, Parent)
    BY <1>1, <1>4 DEF Colored
  <2>2. heap[Grand].color \in Colors
    BY <1>1, HeapRooted DEF Node
  <2> QED BY <1>1, <1>2, <2>1, <2>2 DEF RedBelowRed, Colors
<1>7. \A x \in 1..used, t \in Sides : heap'[x][t] = heap[x][t]
  BY <1>1 DEF AllLinks, Sides
<1>8. /\ Blackness(heap, Grand) = 1 /\ Blackness(heap', Grand) = IF top THEN 1 ELSE 0
      /\ \A x \in {Parent, Uncle} : Blackness(heap, x) = 0 /\ Blackness(heap', x) = 1
      /\ \A x \in 1..used \ {Parent, Uncle, Grand} : Blackness(heap', x) = Blackness(heap, x)
  BY <1>1, <1>4, <1>6 DEF Blackness
<1>9. /\ f \in [0..used -> Int] /\ f[Nil] = 0
      /\ \A x \in 1..used, t \in Sides : f[x] = f[heap[x][t]] + Blackness(heap, x)
  BY DEF Heights
<1>10. \A x \in 0..used : f[x] \in Int
  BY <1>9
<1>11. /\ \A x \in S : g[x] = f[x] + 1
       /\ \A x \in 0..used \ S : g[x] = f[x]
       /\ g \in [0..used -> Int]
       /\ Nil \notin S
  BY <1>1, <1>2, <1>10
<1>12. \A x \in 1..used, t \in Sides : heap[x][t] \in S => heap[x][t] \in {Parent, Uncle} /\ x = Grand
  BY <1>1, <1>2, <1>3, <1>4
<1> HIDE DEF g
<1>13. ASSUME NEW x \in 1..used, NEW t \in Sides PROVE g[x] = g[heap'[x][t]] + Blackness(heap', x)
  <2> DEFINE y == heap[x][t]
  <2>0. y \in 0..used /\ heap'[x][t] = y /\ f[x] = f[y] + Blackness(heap, x) /\ f[x] \in Int /\ f[y] \in Int
    BY <1>2, <1>3, <1>7, <1>9, <1>10
  <2>1. CASE x = Grand
    <3>1. y \in {Parent, Uncle} /\ g[y] = f[y] + 1
      BY <1>5, <1>11, <2>1
    <3>2. g[x] = IF top THEN f[x] + 1 ELSE f[x]
      BY <1>1, <1>2, <1>4, <1>11, <2>1
    <3> HIDE DEF top, y
    <3> QED BY <1>8, <2>0, <2>1, <3>1, <3>2
  <2>2. CASE x \in {Parent, Uncle}
    <3>1. g[y] = f[y] /\ g[x] = f[x] + 1
      BY <1>4, <1>11, <1>12, <2>0, <2>2
    <3> HIDE DEF top, y
    <3> QED BY <1>8, <2>0, <2>2, <3>1
  <2>3. CASE x \notin {Parent, Uncle, Grand}
    <3>1. g[y] = f[y] /\ g[x] = f[x]
      BY <1>2, <1>11, <1>12, <2>0, <2>3
    <3> HIDE DEF top, y
    <3> QED BY <1>8, <2>0, <2>3, <3>1
  <2> QED BY <2>1, <2>2, <2>3
<1>14. g[Nil] = 0
  BY <1>2, <1>9, <1>11
<1>15. Heights(heap', used, g)
  BY <1>11, <1>13, <1>14 DEF Heights
<1> QED
  BY <1>15

\* A red leaf adds nothing.
LEMMA AttachHeights ==
  ASSUME Inv, Inv', NEW s \in Sides, Hung(s), NEW f, Heights(heap, used, f)
  PROVE  \E g : Heights(heap', used', g)
<1> DEFINE g == [m \in 0..used' |-> IF m = used' THEN 0 ELSE f[m]]
<1>1. /\ At \in 1..used /\ heap[At][s] = Nil /\ heap'[At][s] = used' /\ heap'[At][Rev(s)] = heap[At][Rev(s)]
      /\ 1..used' = 1..used \cup {used'} /\ used' \notin 0..used /\ used' \in Nodes
      /\ heap'[used'] = Fresh(At, "Red", call.key)
      /\ \A m \in 1..used : /\ heap'[m].color = heap[m].color
                            /\ m # At => heap'[m].left = heap[m].left /\ heap'[m].right = heap[m].right
  BY DEF Hung
<1>2. 0..used = 1..used \cup {Nil} /\ 0..used' = 1..used' \cup {Nil} /\ Nil \notin 1..used /\ Nil # used'
  BY <1>1, Counting DEF Inv
<1>3. /\ f \in [0..used -> Int] /\ f[Nil] = 0
      /\ \A x \in 1..used, t \in Sides : f[x] = f[heap[x][t]] + Blackness(heap, x)
  BY DEF Heights
<1>4. /\ \A t \in Sides : heap'[used'][t] = Nil
      /\ Blackness(heap', used') = 0
      /\ \A x \in 1..used : Blackness(heap', x) = Blackness(heap, x)
  BY <1>1 DEF Fresh, Sides, Blackness
<1>5. \A x \in 1..used, t \in Sides : heap[x][t] \in 0..used
  BY HeapRooted DEF Sides
<1>6. \A x \in 1..used, t \in Sides : heap'[x][t] = IF x = At /\ t = s THEN used' ELSE heap[x][t]
  BY <1>1 DEF Sides, Rev
<1>7. g \in [0..used' -> Int] /\ g[used'] = 0 /\ \A x \in 0..used : g[x] = f[x]
  BY <1>1, <1>2, <1>3
<1> HIDE DEF g
<1>8. ASSUME NEW x \in 1..used', NEW t \in Sides PROVE g[x] = g[heap'[x][t]] + Blackness(heap', x)
  <2>1. CASE x = used'
    BY <1>2, <1>3, <1>4, <1>7, <2>1
  <2>2. CASE x \in 1..used
    <3>1. g[x] = f[heap[x][t]] + Blackness(heap', x)
      BY <1>2, <1>3, <1>4, <1>7, <2>2
    <3>2. g[heap'[x][t]] = f[heap[x][t]]
      BY <1>1, <1>3, <1>5, <1>6, <1>7, <2>2
    <3> QED BY <3>1, <3>2
  <2> QED BY <1>1, <2>1, <2>2
<1>9. Heights(heap', used', g)
  BY <1>2, <1>3, <1>7, <1>8 DEF Heights
<1> QED
  BY <1>9

\* Each step keeps the number of black nodes the same on all ways down: a leaf is
\* red, the rotations paint the node that comes up black and those that go down
\* red (rb_tree.rs:198-210, 262-273, 300-302, 315-317).
LEMMA LevelledStep ==
  Inv /\ Inv' /\ Where /\ Rooting /\ Colored /\ Levelled /\ [Next]_vars => Levelled'
<1> SUFFICES ASSUME Inv, Inv', Where, Rooting, Colored, Levelled, [Next]_vars, Whole'
             PROVE  \E g : Heights(heap', used', g)
  BY DEF Levelled
<1>1. CASE UNCHANGED vars
  BY <1>1 DEF vars, Levelled, Whole
<1>2. CASE Next
  <2>0. /\ Whole
        /\ \/ UNCHANGED <<root, heap, used>> /\ call.pc # "recolor" /\ call'.pc \notin {"recolor", "failed"}
           \/ InsertFirst \/ InsertAttach \/ RecolorDone \/ Repaint
           \/ \E s \in Sides : Once(s)
           \/ \E h : Twice(h)
    BY <1>2, WholeCases, NoPanic DEF Whole
  <2>01. PICK f : Heights(heap, used, f)
    BY <2>0 DEF Levelled
  <2>1. CASE UNCHANGED <<root, heap, used>>
    BY <2>01, <2>1
  <2>2. CASE InsertFirst
    <3> DEFINE g == [m \in 0..used' |-> m]
    <3>1. /\ used' = 1 /\ 1..used' = {1} /\ heap'[1].left = Nil /\ heap'[1].right = Nil
          /\ heap'[1].color = "Black"
      BY <2>0, <2>2, FirstIs
    <3>2. g \in [0..used' -> Int] /\ g[Nil] = 0 /\ g[1] = 1
      BY <3>1 DEF Nil
    <3>3. Blackness(heap', 1) = 1 /\ \A t \in Sides : heap'[1][t] = Nil
      BY <3>1 DEF Blackness, Sides
    <3> HIDE DEF g
    <3>4. Heights(heap', used', g)
      BY <3>1, <3>2, <3>3 DEF Heights
    <3> QED BY <3>4
  <2>3. CASE InsertAttach
    <3>1. PICK s \in Sides : Hung(s)
      BY <2>3, HungIs
    <3> QED BY <2>01, <3>1, AttachHeights
  <2>4. CASE RecolorDone
    <3>1. /\ At \in 1..used /\ AllLinks(heap, heap', used) /\ used' = used
          /\ \A m \in 1..used : heap'[m].color = IF Parent = Nil /\ m = At THEN "Black" ELSE heap[m].color
      BY <2>4, DoneIs DEF Done
    <3>2. ColorsKept(heap, heap', used)
      BY <2>0, <3>1 DEF Colored, Parent, ColorsKept
    <3>3. Heights(heap', used, f)
      BY <2>01, <3>1, <3>2, SameHeights
    <3> QED BY <3>1, <3>3
  <2>5. CASE Repaint
    <3>1. \E g : Heights(heap', used, g)
      BY <2>0, <2>01, <2>5, RepaintHeights
    <3> QED BY <2>5, <3>1, RepaintIs DEF Repainted
  <2>6. ASSUME NEW s \in Sides, Once(s) PROVE \E g : Heights(heap', used', g)
    <3>1. Heights(heap', used, Swapped(f, used, Parent, Grand)) /\ used' = used
      BY <2>0, <2>01, <2>6, OnceHeights DEF Once
    <3> QED BY <3>1
  <2>7. ASSUME NEW h, Twice(h) PROVE \E g : Heights(heap', used', g)
    <3>1. Heights(heap', used, Swapped(f, used, At, Grand)) /\ used' = used
      BY <2>0, <2>01, <2>7, TwiceHeights DEF Twice
    <3> QED BY <3>1
  <2> QED BY <2>0, <2>1, <2>2, <2>3, <2>4, <2>5, <2>6, <2>7
<1> QED BY <1>1, <1>2
-----------------------------------------------------------------------------
\* One link further down, each node with the number of black nodes on the way.
Deepen(h, E) == UNION {{d} \cup {<<c, d[2] + Blackness(h, c)>> : c \in Children(h, d[1])} : d \in E}

\* f is the recursion that defines BlackDepths, taken k links far.
Depths(f, h, r, k) ==
  f = [i \in 0..k |-> IF i = 0 THEN {<<n, Blackness(h, n)>> : n \in {r} \ {Nil}} ELSE Deepen(h, f[i - 1])]

\* It can be taken one link further.
LEMMA DepthsOn ==
  ASSUME NEW h, NEW r, NEW k \in Nat, NEW f, Depths(f, h, r, k)
  PROVE  \E g : Depths(g, h, r, k + 1)
<1> DEFINE first == {<<n, Blackness(h, n)>> : n \in {r} \ {Nil}}
           g == [i \in 0..(k + 1) |-> IF i = k + 1 THEN Deepen(h, f[k]) ELSE f[i]]
<1>0. f[0] = first /\ \A i \in 1..k : f[i] = Deepen(h, f[i - 1])
  <2>1. \A i \in 0..k : f[i] = IF i = 0 THEN first ELSE Deepen(h, f[i - 1])
    BY Zenon DEF Depths
  <2> HIDE DEF first
  <2> QED
    BY <2>1
<1> HIDE DEF first
<1>1. \A i \in 0..(k + 1) : g[i] = IF i = 0 THEN first ELSE Deepen(h, g[i - 1])
  <2> TAKE i \in 0..(k + 1)
  <2>1. CASE i = k + 1
    <3>1. g[i] = Deepen(h, f[k]) /\ g[i - 1] = f[k] /\ i # 0
      BY <2>1
    <3> QED
      BY <3>1
  <2>2. CASE i # k + 1 /\ i # 0
    <3>1. i \in 0..k /\ i \in 1..k /\ i - 1 \in 0..k /\ i - 1 # k + 1
      BY <2>2
    <3>2. g[i] = f[i] /\ g[i - 1] = f[i - 1]
      BY <2>2, <3>1
    <3> QED
      BY <1>0, <2>2, <3>1, <3>2
  <2>3. CASE i # k + 1 /\ i = 0
    <3>1. 0 \in 0..k /\ 0 \in 0..(k + 1)
      OBVIOUS
    <3> QED
      BY <1>0, <2>3, <3>1
  <2> QED
    BY <2>1, <2>2, <2>3
<1>2. g = [i \in 0..(k + 1) |-> g[i]]
  OBVIOUS
<1> HIDE DEF g
<1>3. Depths(g, h, r, k + 1)
  BY <1>1, <1>2 DEF Depths, first
<1> QED
  BY <1>3

\* So BlackDepths satisfies its definition.
LEMMA BlackDepthsSteps ==
  ASSUME NEW h, NEW r
  PROVE  /\ BlackDepths(h, r)[0] = {<<n, Blackness(h, n)>> : n \in {r} \ {Nil}}
         /\ \A i \in 1..MaxNodes : BlackDepths(h, r)[i] = Deepen(h, BlackDepths(h, r)[i - 1])
<1> DEFINE T == {k \in Nat : \E f : Depths(f, h, r, k)}
           first == {<<n, Blackness(h, n)>> : n \in {r} \ {Nil}}
           w == BlackDepths(h, r)
<1>0. MaxNodes \in Nat
  BY TreeHeapAssumption
<1>1. 0 \in T
  <2>1. Depths([i \in 0..0 |-> first], h, r, 0)
    BY DEF Depths
  <2> QED
    BY <2>1
<1>2. ASSUME NEW k \in 0..(MaxNodes - 1), k \in T PROVE k + 1 \in T
  BY <1>0, <1>2, DepthsOn
<1> HIDE DEF T
<1>3. MaxNodes \in T
  BY <1>0, <1>1, <1>2, Climb
<1>4. \E f : Depths(f, h, r, MaxNodes)
  BY <1>3 DEF T
<1>5. BlackDepths(h, r) = CHOOSE f : Depths(f, h, r, MaxNodes)
  BY DEF BlackDepths, Deepen, Depths
<1>6. Depths(w, h, r, MaxNodes)
  BY <1>4, <1>5, Zenon
<1> HIDE DEF w
<1>7. \A i \in 0..MaxNodes : w[i] = IF i = 0 THEN first ELSE Deepen(h, w[i - 1])
  BY <1>6, Zenon DEF Depths
<1> HIDE DEF first
<1>8. w[0] = first /\ \A i \in 1..MaxNodes : w[i] = Deepen(h, w[i - 1])
  BY <1>0, <1>7
<1> QED
  BY <1>8 DEF w, first

\* The blacks on the way to a node and those below it add up.
LEMMA DepthsAddUp ==
  ASSUME NEW h, NEW u \in 0..MaxNodes, SoundHeap(h, u), NEW r \in 0..u, NEW f, Heights(h, u, f)
  PROVE  \A d \in BlackDepths(h, r)[MaxNodes] :
           d[1] \in 1..u /\ d[2] \in Int /\ d[2] + f[d[1]] = f[r] + Blackness(h, d[1])
<1> DEFINE W == BlackDepths(h, r)
           Sums == {d \in (1..u) \X Int : d[2] + f[d[1]] = f[r] + Blackness(h, d[1])}
           T == {i \in 0..MaxNodes : W[i] \subseteq Sums}
<1>0. /\ MaxNodes \in Nat /\ f \in [0..u -> Int] /\ 0..u = 1..u \cup {Nil}
      /\ \A n \in 1..u, s \in Sides : f[n] = f[h[n][s]] + Blackness(h, n)
      /\ \A n : Blackness(h, n) \in Int
      /\ W[0] = {<<n, Blackness(h, n)>> : n \in {r} \ {Nil}}
      /\ \A i \in 1..MaxNodes : W[i] = Deepen(h, W[i - 1])
  BY TreeHeapAssumption, Counting, BlacknessInt, BlackDepthsSteps DEF Heights
<1> HIDE DEF W
<1>1. 0 \in T
  <2>1. ASSUME NEW d \in W[0] PROVE d \in Sums
    <3>1. r \in 1..u /\ d = <<r, Blackness(h, r)>>
      BY <1>0, <2>1
    <3>2. f[r] \in Int
      BY <1>0
    <3> QED BY <1>0, <3>1, <3>2
  <2> QED BY <1>0, <2>1
<1>2. ASSUME NEW i \in 0..(MaxNodes - 1), i \in T PROVE i + 1 \in T
  <2>1. W[i] \subseteq Sums /\ i + 1 \in 1..MaxNodes /\ (i + 1) - 1 = i /\ i + 1 \in 0..MaxNodes
    BY <1>0, <1>2
  <2>2. W[i + 1] = Deepen(h, W[i])
    BY <1>0, <2>1
  <2>3. ASSUME NEW d \in W[i], NEW c \in Children(h, d[1]) PROVE <<c, d[2] + Blackness(h, c)>> \in Sums
    <3>1. d \in Sums
      BY <2>1, <2>3
    <3>2. d[1] \in 1..u /\ d[2] \in Int /\ d[2] + f[d[1]] = f[r] + Blackness(h, d[1])
      BY <3>1
    <3>3. c \in 1..u /\ \E s \in Sides : c = h[d[1]][s]
      BY <2>3, <3>2, SoundRooted DEF Children, Sides
    <3>4. f[d[1]] = f[c] + Blackness(h, d[1])
      BY <1>0, <3>2, <3>3
    <3>5. /\ f[c] \in Int /\ f[r] \in Int /\ f[d[1]] \in Int
          /\ Blackness(h, c) \in Int /\ Blackness(h, d[1]) \in Int
      BY <1>0, <3>2, <3>3
    <3>6. (d[2] + Blackness(h, c)) + f[c] = f[r] + Blackness(h, c) /\ d[2] + Blackness(h, c) \in Int
      BY <3>2, <3>4, <3>5
    <3> DEFINE t == <<c, d[2] + Blackness(h, c)>>
    <3>7. t \in (1..u) \X Int /\ t[1] = c /\ t[2] = d[2] + Blackness(h, c)
      BY <3>3, <3>6
    <3> HIDE DEF t
    <3>8. t \in Sums
      BY <3>6, <3>7
    <3> QED BY <3>8 DEF t
  <2> HIDE DEF Sums
  <2>4. Deepen(h, W[i]) \subseteq Sums
    BY <2>1, <2>3 DEF Deepen
  <2> QED BY <2>1, <2>2, <2>4
<1> HIDE DEF T
<1>3. MaxNodes \in T
  <2>1. MaxNodes \in Nat /\ MaxNodes \in 0..MaxNodes
    BY <1>0
  <2>2. 0..MaxNodes \subseteq T
    BY <1>1, <1>2, <2>1, Climb
  <2> QED BY <2>1, <2>2
<1>4. W[MaxNodes] \subseteq Sums
  BY <1>3 DEF T
<1> QED
  BY <1>4 DEF W

\* The inductive invariant: links, order, colours and heights.
TreeInv == OrderInv /\ Colored /\ Levelled

\* In every state until a fault, also in the middle of the loop of recolor_2: two
\* red nodes meet at one place at most, and every node has the same number of
\* black nodes on all ways down (rb_tree.rs:250-337).
THEOREM StaysRight == Spec => []TreeInv
<1>1. Init => TreeInv
  <2> SUFFICES ASSUME Init PROVE TreeInv
    OBVIOUS
  <2>1. used = 0 /\ call.pc = "idle" /\ 1..0 = {}
    BY DEF Init
  <2>2. Heights(heap, used, [m \in 0..0 |-> 0])
    BY <2>1 DEF Heights, Nil
  <2> QED BY <2>1, <2>2, InitOrder DEF TreeInv, Colored, Levelled
<1>2. TreeInv /\ [Next]_vars => TreeInv'
  <2> SUFFICES ASSUME TreeInv, [Next]_vars PROVE TreeInv'
    OBVIOUS
  <2>1. Inv /\ Where /\ Rooting /\ OrderInv /\ Colored /\ Levelled
    BY DEF TreeInv, OrderInv
  <2>2. OrderInv'
    BY <2>1, OrderStep
  <2>3. Inv'
    BY <2>2 DEF OrderInv
  <2> QED BY <2>1, <2>2, <2>3, ColoredStep, LevelledStep DEF TreeInv
<1> QED
  BY <1>1, <1>2, PTL DEF Spec

\* Whenever a call has returned and nothing has gone wrong, no red node has a red
\* child and the root is black (rb_tree.rs:253-258, 264-271, 300-302, 315-317,
\* 332-336).
THEOREM ColorsAlwaysRight == Spec => []ColorsRight
<1>1. TreeInv => ColorsRight
  <2> SUFFICES ASSUME TreeInv, AtRest PROVE RedsApart /\ (root # Nil => heap[root].color = "Black")
    BY DEF ColorsRight
  <2>1. /\ Inv /\ Rooting /\ Colored /\ Whole /\ call.pc = "idle"
    BY DEF TreeInv, OrderInv, AtRest, Whole
  <2>2. Linked(heap, used) /\ SoundHeap(heap, used) /\ used \in 0..MaxNodes /\ Reached \subseteq 1..used
        /\ (root # Nil => Topped(heap, used, root))
    BY <2>1, FromRoot, HeapRooted DEF Reached
  <2>3. root # Nil => heap[root].color = "Black"
    BY <2>1, <2>2 DEF Colored, Topped
  <2>4. ASSUME NEW n \in Reached, heap[n].color = "Red", NEW c \in Children(heap, n)
        PROVE  heap[c].color = "Black"
    <3>1. n \in 1..used /\ c \in 1..used /\ heap[c].parent = n
      BY <2>2, <2>4, OwnerIsParent
    <3>2. ~RedBelowRed(heap, c)
      BY <2>1, <3>1 DEF Colored
    <3>3. heap[c].color \in Colors /\ n # Nil
      BY <2>1, <3>1, HeapRooted DEF Node
    <3> QED BY <2>4, <3>1, <3>2, <3>3 DEF RedBelowRed, Colors
  <2> QED BY <2>3, <2>4 DEF RedsApart
<1> QED
  BY <1>1, StaysRight, PTL

\* Whenever a call has returned and nothing has gone wrong, all ways from the root
\* to a missing child meet the same number of black nodes (rb_tree.rs:262-336).
THEOREM AlwaysBalanced == Spec => []Balanced
<1>1. TreeInv => Balanced
  <2> SUFFICES ASSUME TreeInv, AtRest,
                      NEW d \in BlackDepths(heap, root)[MaxNodes], ~Both(heap, d[1]),
                      NEW e \in BlackDepths(heap, root)[MaxNodes], ~Both(heap, e[1])
               PROVE  d[2] = e[2]
    BY DEF Balanced
  <2>1. Inv /\ Whole /\ Levelled
    BY DEF TreeInv, OrderInv, AtRest, Whole
  <2>2. PICK f : Heights(heap, used, f)
    BY <2>1 DEF Levelled
  <2>3. SoundHeap(heap, used) /\ used \in 0..MaxNodes /\ root \in 0..used
    BY <2>1 DEF Inv
  <2>4. ASSUME NEW x \in BlackDepths(heap, root)[MaxNodes], ~Both(heap, x[1]) PROVE x[2] = f[root]
    <3>1. x[1] \in 1..used /\ x[2] \in Int /\ x[2] + f[x[1]] = f[root] + Blackness(heap, x[1])
      BY <2>2, <2>3, DepthsAddUp
    <3>2. PICK s \in Sides : heap[x[1]][s] = Nil
      BY <2>4 DEF Both, Sides
    <3>3. f[x[1]] = 0 + Blackness(heap, x[1]) /\ f[root] \in Int
      BY <2>2, <2>3, <3>1, <3>2 DEF Heights
    <3>4. Blackness(heap, x[1]) \in Int
      BY BlacknessInt
    <3> QED BY <3>1, <3>3, <3>4
  <2> QED BY <2>4
<1> QED
  BY <1>1, StaysRight, PTL
-----------------------------------------------------------------------------
(***************************************************************************)
(* Owners, also after a fault                                              *)
(***************************************************************************)
\* Node n has left its place below p, which has got the subtree in between.
Cut(h, R, u, n, s) ==
  LET p == h[n].parent
  IN  /\ R[p][Rev(s)] = h[n][s] /\ R[p][s] = h[p][s]
      /\ \A m \in 1..u \ {n, p} : R[m].left = h[m].left /\ R[m].right = h[m].right

\* The root reaches the rest, as a tree, when the link above p is left on p.
LEMMA CutTree ==
  ASSUME NEW h, NEW R, NEW u \in 0..MaxNodes, SoundHeap(h, u), Linked(h, u), SoundHeap(R, u),
         NEW n \in 1..u, NEW p \in 1..u, NEW s \in Sides, h[n].parent = p, h[p][Rev(s)] = n,
         Cut(h, R, u, n, s), NEW r \in 1..u, Topped(h, u, r)
  PROVE  Tree(R, r)
<1> DEFINE S == 1..u \ {n}
           b == h[n][s]
           c == h[p][s]
<1>0. /\ Nil \notin 1..u /\ r \in 0..u /\ n # p /\ r # n /\ h[r].parent = Nil
      /\ Rev(s) \in Sides /\ Sides = {s, Rev(s)} /\ 0..u = 1..u \cup {Nil}
  BY AllApart, Counting DEF Topped, Sides, Rev
<1>1. \A x \in 1..u : Children(h, x) \subseteq 1..u /\ \A y \in Children(h, x) : h[y].parent = x
  BY OwnerIsParent
<1>2. /\ b \in 0..u \ {n, p} /\ c \in 0..u \ {n, p}
  BY LiftApart
<1>3. /\ b # Nil => b \in Children(h, n) /\ h[b].parent = n
      /\ c # Nil => c \in Children(h, p) /\ h[c].parent = p
  <2>1. /\ b # Nil => b \in Children(h, n)
        /\ c # Nil => c \in Children(h, p)
    BY DEF Children, Sides
  <2> QED BY <1>1, <2>1
<1>4. /\ Children(R, p) = {b, c} \ {Nil}
      /\ \A m \in S \ {p} : Children(R, m) = Children(h, m)
  <2>1. R[p][Rev(s)] = b /\ R[p][s] = c
    BY DEF Cut
  <2>2. {R[p].left, R[p].right} = {R[p][s], R[p][Rev(s)]}
    BY DEF Sides, Rev
  <2>3. \A m \in S \ {p} : R[m].left = h[m].left /\ R[m].right = h[m].right
    BY DEF Cut
  <2> HIDE DEF b, c
  <2> QED BY <2>1, <2>2, <2>3 DEF Children
<1> HIDE DEF b, c
<1>5. Closed(R, S)
  <2>1. Children(R, p) \subseteq S
    BY <1>0, <1>2, <1>4
  <2>2. ASSUME NEW m \in S \ {p} PROVE Children(R, m) \subseteq S
    BY <1>1, <1>4, <2>2
  <2> QED BY <2>1, <2>2 DEF Closed
<1>6. Reach(R, r) \subseteq S
  BY <1>0, <1>5, ReachLeast
<1> DEFINE own == [x \in 1..u |-> IF x = b THEN p ELSE h[x].parent]
<1>7. ASSUME NEW m \in S, NEW x \in Children(R, m) PROVE x \in 1..u /\ own[x] = m
  <2>1. CASE m = p
    BY <1>0, <1>2, <1>3, <1>4, <1>7, <2>1
  <2>2. CASE m # p
    <3>1. x \in 1..u /\ h[x].parent = m
      BY <1>1, <1>4, <1>7, <2>2
    <3>2. x # b
      BY <1>0, <1>3, <1>7, <3>1
    <3> QED BY <3>1, <3>2
  <2> QED BY <2>1, <2>2
<1>8. own[r] \notin S
  <2>1. r # b
    BY <1>0, <1>3
  <2> QED BY <1>0, <2>1
<1> HIDE DEF own
<1>9. \A m, x \in S : Children(R, m) \cap Children(R, x) # {} => m = x
  BY <1>7
<1>10. \A m \in S : r \notin Children(R, m)
  BY <1>7, <1>8
<1>11. ASSUME NEW m \in S, R[m].left = R[m].right PROVE R[m].left = Nil
  <2>1. CASE m = p
    <3>1. R[p][Rev(s)] = b /\ R[p][s] = c
      BY DEF Cut, b, c
    <3>2. b = c /\ (R[p].left = b \/ R[p].left = c)
      BY <1>11, <2>1, <3>1 DEF Sides, Rev
    <3>3. b = Nil
      BY <1>0, <1>2, <1>3, <3>2
    <3> QED BY <2>1, <3>2, <3>3
  <2>2. CASE m # p
    BY <1>11, <2>2 DEF Cut, Linked
  <2> QED BY <2>1, <2>2
<1> HIDE DEF S
<1> QED
  BY <1>6, <1>9, <1>10, <1>11 DEF Tree

\* Raise does this below the link it leaves, and changes the parents as it should.
LEMMA RaiseCuts ==
  ASSUME NEW h, NEW u \in 0..MaxNodes, SoundHeap(h, u), Linked(h, u), NEW s \in Sides,
         NEW n \in 1..u, NEW p \in 1..u, h[n].parent = p, h[p][Rev(s)] = n
  PROVE  /\ Cut(h, Raise(h, n, s), u, n, s) /\ SoundHeap(Raise(h, n, s), u)
         /\ Raise(h, n, s)[n].parent = h[p].parent
         /\ h[p].parent # Nil => Raise(h, n, s)[h[p].parent].parent = h[h[p].parent].parent
<1>0. n # p /\ h[n][s] # n /\ h[n][s] # p /\ p \in Nodes /\ Nil \notin 1..u /\ 0..u = 1..u \cup {Nil}
  BY AllApart, LiftApart, Counting
<1> DEFINE A == Raise(h, n, s)
<1>1. /\ A[n].parent = h[p].parent /\ A[n][s] = p /\ A[n][Rev(s)] = h[n][Rev(s)]
      /\ A[p].parent = n /\ A[p][Rev(s)] = h[n][s] /\ A[p][s] = h[p][s]
      /\ \A m \in 1..u : m \notin {n, p}
           => /\ A[m].parent = IF m = h[n][s] THEN p ELSE h[m].parent
              /\ A[m].left = h[m].left /\ A[m].right = h[m].right
  BY <1>0, RaiseFields
<1>2. SoundHeap(A, u)
  BY <1>0, RaiseSound
<1> HIDE DEF A
<1>3. Cut(h, A, u, n, s)
  BY <1>1 DEF Cut
<1>4. ASSUME h[p].parent # Nil PROVE A[h[p].parent].parent = h[h[p].parent].parent
  <2> DEFINE g == h[p].parent
  <2>1. g \in 1..u /\ g # n /\ g # p
    BY <1>0, <1>4, AllApart, Counting DEF SoundHeap
  <2>2. g # h[n][s]
    <3>1. h[n][s] \in 1..u => h[h[n][s]].parent = n
      BY DEF Linked, IsChild, Sides
    <3> QED BY <2>1, <3>1, AllApart
  <2> HIDE DEF g
  <2> QED BY <1>1, <2>1, <2>2 DEF g
<1> QED
  BY <1>1, <1>2, <1>3, <1>4 DEF A

\* Dropping the tree, or making a node without parent its root, leaves every node
\* with one owner, as long as no rotation has begun in a tree with a fault.
Owned ==
  "stale" \notin faults => /\ Tree(heap, root)
                           /\ call.pc = "recolor" /\ heap[At].parent = Nil => Tree(heap, At)

\* Paint does not matter.
LEMMA SameTree ==
  ASSUME NEW h, NEW R, NEW u \in 0..MaxNodes, SoundHeap(h, u), SoundHeap(R, u), AllLinks(h, R, u),
         NEW r \in 0..u, Tree(h, r)
  PROVE  Tree(R, r)
<1>1. Rooted(h, r) /\ Rooted(R, r) /\ Reach(h, r) \subseteq 1..u
  BY SoundRooted
<1>2. LinksKept(h, R, Reach(h, r))
  BY <1>1 DEF LinksKept, AllLinks
<1>3. Reach(R, r) = Reach(h, r)
  BY <1>1, <1>2, ReachSame
<1>4. \A n \in Reach(h, r) : R[n].left = h[n].left /\ R[n].right = h[n].right /\ Children(R, n) = Children(h, n)
  BY <1>2 DEF LinksKept, Children
<1> QED
  BY <1>3, <1>4 DEF Tree

\* Where the loop goes on.
LEMMA GoOnAt ==
  ASSUME Inv, GoOn(heap'), call.pc = "recolor"
  PROVE  /\ call'.pc = "recolor"
         /\ call'.at = IF heap'[At].parent = Nil THEN At ELSE heap'[At].parent
<1>1. call \in CallType
  BY DEF Inv, CallInv
<1> QED
  BY <1>1 DEF GoOn, Goto, CallType

\* Links that go both ways are those of a tree, wherever one begins.
LEMMA LinkedOwned ==
  ASSUME Inv', Linked(heap', used')
  PROVE  Owned'
<1>1. SoundHeap(heap', used') /\ used' \in 0..MaxNodes /\ root' \in 0..used' /\ call'.at \in 0..used'
  BY DEF Inv, CallInv
<1>2. Tree(heap', root') /\ Tree(heap', call'.at)
  BY <1>1, LinkedTree
<1> QED
  BY <1>2 DEF Owned, At

\* A single rotation, which may leave the link above on the node that is turned.
LEMMA OnceOwned ==
  ASSUME Inv, Inv', Rooting, Whole, RotateOnceLeft \/ RotateOnceRight
  PROVE  Owned'
<1>0. Rotates /\ Straight /\ faults = {} /\ used' = used /\ root' = root /\ GoOn(heap')
  BY DEF RotateOnceLeft, RotateOnceRight, Whole
<1>1. CASE faults' = {}
  <2>1. call'.pc # "dropped"
    <3>1. call.pc = "recolor"
      BY <1>0, RotatesAt
    <3> QED BY <1>0, <3>1, GoOnAt
  <2> QED BY <1>1, <2>1, LinkedOwned DEF Inv
<1>2. CASE faults' # {}
  <2>1. /\ RotateOnceRight /\ Turned = "right" /\ heap[heap[Parent].parent].parent # Nil
        /\ heap' = [RotRight(heap, Parent) EXCEPT ![Grand].color = "Red", ![Parent].color = "Black"]
    BY <1>0, <1>2 DEF RotateOnceLeft, RotateOnceRight, Stale, Unlinks
  <2>2. /\ At \in 1..used /\ Parent \in 1..used /\ Grand \in 1..used /\ heap[At].parent = Parent
        /\ heap[Parent].parent = Grand /\ heap[Grand][Rev("right")] = Parent /\ call.pc = "recolor"
        /\ heap[Parent][Rev("right")] = At
        /\ "right" \in Sides /\ "Red" \in Colors /\ "Black" \in Colors
    BY <1>0, <2>1, RotatesAt DEF Sides, Colors
  <2> DEFINE R == Raise(heap, Parent, "right")
  <2>3. /\ used \in 0..MaxNodes /\ SoundHeap(heap, used) /\ Linked(heap, used) /\ SoundHeap(heap', used)
        /\ Nil \notin 1..used /\ 0..used = 1..used \cup {Nil}
    BY <1>0, HeapRooted DEF Inv, Whole
  <2>4. /\ Cut(heap, R, used, Parent, "right") /\ SoundHeap(R, used)
        /\ R[Parent].parent = heap[Grand].parent
    BY <2>2, <2>3, RaiseCuts
  <2>41. heap' = [R EXCEPT ![Grand].color = "Red", ![Parent].color = "Black"]
    BY <2>1 DEF RotRight
  <2>42. R[At].parent = Parent
    <3>1. /\ heap[Parent]["right"] # Parent /\ heap[Parent]["right"] # Grand /\ Parent # Grand
          /\ At # Parent /\ At # Grand
      BY <2>2, <2>3, LiftApart, AllApart
    <3>2. heap[Parent]["right"] # At
      BY <2>2, <2>3 DEF Linked, Rev, Nil
    <3>3. \A m \in 1..used : m \notin {Parent, Grand}
            => R[m].parent = IF m = heap[Parent]["right"] THEN Grand ELSE heap[m].parent
      BY <2>2, <2>3, <3>1, RaiseFields
    <3> HIDE DEF R
    <3> QED BY <2>2, <3>1, <3>2, <3>3
  <2> HIDE DEF R
  <2>5. AllLinks(R, heap', used)
    <3>1. Painted(R, [R EXCEPT ![Grand].color = "Red", ![Parent].color = "Black"], used,
                  Grand, "Red", Parent, "Black")
      BY <2>2, <2>3, <2>4, PaintTwoIs
    <3> QED BY <2>41, <3>1 DEF Painted
  <2>6. Cut(heap, heap', used, Parent, "right")
    BY <2>2, <2>4, <2>5 DEF Cut, AllLinks, Rev
  <2>7. root \in 1..used /\ Topped(heap, used, root)
    BY <2>2, <2>3, BelowTop
  <2>8. Tree(heap', root')
    BY <1>0, <2>2, <2>3, <2>6, <2>7, CutTree
  <2>9. heap'[At].parent = Parent /\ heap'[Parent].parent # Nil
    BY <2>1, <2>2, <2>4, <2>42, <2>5 DEF AllLinks
  <2>10. call'.at = Parent
    BY <1>0, <2>2, <2>3, <2>9, GoOnAt
  <2> QED BY <2>8, <2>9, <2>10 DEF Owned, At
<1> QED BY <1>1, <1>2

\* A double rotation, whose second half may do so.
LEMMA TwiceOwned ==
  ASSUME Inv, Inv', Rooting, Whole, RotateTwice
  PROVE  Owned'
<1> DEFINE h == RotLeft(heap, At)
           R == Raise(h, At, "right")
           h1 == [R EXCEPT ![At].color = "Black"]
<1>0. /\ Rotates /\ ~Straight /\ Turned = "right" /\ used' = used /\ root' = root /\ GoOn(heap')
      /\ heap' = [h1 EXCEPT ![Parent].color = "Red", ![Grand].color = "Red"]
  BY DEF RotateTwice, RotRight
<1>1. /\ At \in 1..used /\ Parent \in 1..used /\ Grand \in 1..used
      /\ heap[At].parent = Parent /\ heap[Parent].parent = Grand
      /\ heap[Grand].left = Parent /\ heap[Parent].right = At /\ call.pc = "recolor"
  BY <1>0, RotatesAt DEF Sides, Rev
<1>2. /\ used \in 0..MaxNodes /\ SoundHeap(heap, used) /\ Linked(heap, used) /\ SoundHeap(heap', used)
      /\ Nil \notin 1..used /\ 0..used = 1..used \cup {Nil}
      /\ "right" \in Sides /\ "left" \in Sides /\ "Red" \in Colors /\ "Black" \in Colors
  BY <1>0, HeapRooted DEF Inv, Whole, Sides, Colors
<1>3. /\ SoundHeap(h, used) /\ Linked(h, used) /\ Lifted(heap, h, used, At, "left")
      /\ h[At].parent = Grand /\ h[Grand].parent = heap[Grand].parent /\ h[Grand].left = At
      /\ (heap[Grand].parent # Nil => TRUE)
  BY <1>1, <1>2, RotLeftKeeps
<1> HIDE DEF h
<1>4. SoundHeap(R, used)
  <2>1. h[Grand][Rev("right")] = At
    BY <1>3 DEF Rev
  <2> QED BY <1>1, <1>2, <1>3, <2>1, RaiseCuts
<1>5. AllLinks(R, heap', used)
  <2> HIDE DEF R
  <2>1. Painted(R, h1, used, At, "Black", At, "Black")
    BY <1>1, <1>2, <1>4, PaintOneIs
  <2> HIDE DEF h1
  <2>2. SoundHeap(h1, used) /\ AllLinks(R, h1, used)
    BY <2>1 DEF Painted
  <2>3. Painted(h1, [h1 EXCEPT ![Parent].color = "Red", ![Grand].color = "Red"], used,
                Parent, "Red", Grand, "Red")
    BY <1>1, <1>2, <2>2, PaintTwoIs
  <2>4. Painted(h1, heap', used, Parent, "Red", Grand, "Red")
    BY <1>0, <2>3
  <2> QED BY <2>2, <2>4 DEF Painted, AllLinks
<1>6. root \in 1..used /\ Topped(heap, used, root)
  BY <1>1, <1>2, BelowTop
<1>7. CASE heap[Grand].parent = Nil
  <2>1. RotRight(h, At) = R
    BY DEF RotRight
  <2>2. Linked(RotRight(h, At), used)
    BY <1>1, <1>2, <1>3, <1>7, RotRightKeeps
  <2> HIDE DEF R
  <2>3. Linked(heap', used)
    BY <1>5, <2>1, <2>2, SameLinks DEF AllLinks
  <2> QED BY <1>0, <2>3, LinkedOwned
<1>8. CASE heap[Grand].parent # Nil
  <2> DEFINE g == heap[Grand].parent
  <2>1. h[Grand][Rev("right")] = At /\ h[Grand].parent = g /\ g \in 1..used
    BY <1>1, <1>2, <1>3, <1>8, HeapRooted DEF Rev
  <2>2. /\ Cut(h, R, used, At, "right") /\ R[At].parent = g /\ R[g].parent = h[g].parent
    BY <1>1, <1>2, <1>3, <2>1, RaiseCuts
  <2> HIDE DEF R
  <2>3. Cut(h, heap', used, At, "right")
    BY <1>1, <1>3, <1>5, <2>2 DEF Cut, AllLinks, Rev
  <2>4. root # Parent
    BY <1>1, <1>2, <1>6 DEF Topped
  <2>5. Topped(h, used, root)
    BY <1>1, <1>2, <1>3, <1>6, <2>4, LiftTop
  <2>6. Tree(heap', root')
    BY <1>0, <1>1, <1>2, <1>3, <1>6, <2>1, <2>3, <2>5, CutTree
  <2>7. heap'[At].parent = g /\ heap'[g].parent = h[g].parent
    BY <1>1, <1>5, <2>1, <2>2 DEF AllLinks
  <2>8. call'.at = g
    BY <1>0, <1>1, <1>8, <2>7, GoOnAt
  <2>9. heap'[g].parent = Nil => g = root
    BY <2>1, <2>5, <2>7 DEF Topped
  <2> QED BY <1>0, <2>6, <2>8, <2>9 DEF Owned, At
<1> QED BY <1>7, <1>8

\* The asserts that fail in the middle of a rotation: the first cannot, and the
\* second leaves the raised node, on which more links are set, unreached.
LEMMA HalfOwned ==
  ASSUME Inv, Inv', Rooting, Whole, RotateOncePanic \/ RotateTwicePanic
  PROVE  Owned'
<1>0. /\ used \in 0..MaxNodes /\ SoundHeap(heap, used) /\ Linked(heap, used)
      /\ Nil \notin 1..used /\ 0..used = 1..used \cup {Nil} /\ "right" \in Sides
  BY HeapRooted DEF Inv, Whole, Sides
<1>1. CASE RotateOncePanic
  <2> QED BY <1>0, <1>1, AboveLinked DEF RotateOncePanic
<1>2. CASE RotateTwicePanic
  <2> DEFINE A == Raise(heap, At, "right")
  <2>1. Rotates /\ ~Straight /\ Turned = "left" /\ heap' = BeginLeft(A, At) /\ used' = used /\ root' = root
        /\ call' = [call EXCEPT !.pc = "failed"]
    BY <1>2 DEF RotateTwicePanic, HalfDone, RotRight
  <2>2. /\ At \in 1..used /\ Parent \in 1..used /\ heap[At].parent = Parent
        /\ heap[Parent][Rev("right")] = At /\ call.pc = "recolor" /\ At # Parent
    <3>1. /\ At \in 1..used /\ Parent \in 1..used /\ heap[At].parent = Parent
          /\ heap[Parent]["left"] = At /\ call.pc = "recolor"
      BY <2>1, RotatesAt
    <3> QED BY <1>0, <3>1, AllApart DEF Rev
  <2>3. Cut(heap, A, used, At, "right") /\ SoundHeap(A, used) /\ SoundHeap(heap', used)
    BY <1>0, <2>1, <2>2, RaiseCuts DEF Inv
  <2> HIDE DEF A
  <2>4. \A m \in 1..used \ {At} : heap'[m].left = A[m].left /\ heap'[m].right = A[m].right
    <3>1. \A m \in 1..used \ {At} : heap'[m] \in {A[m], [A[m] EXCEPT !.parent = A[At].parent]} /\ A[m] \in Node
      BY <1>0, <2>1, <2>3, Counting DEF BeginLeft, SoundHeap
    <3> QED BY <3>1 DEF Node
  <2>5. Cut(heap, heap', used, At, "right")
    BY <2>2, <2>3, <2>4 DEF Cut, Rev
  <2>6. root \in 1..used /\ Topped(heap, used, root)
    BY <1>0, <2>2, BelowTop
  <2>7. Tree(heap', root')
    BY <1>0, <2>1, <2>2, <2>3, <2>5, <2>6, CutTree
  <2>8. call'.pc # "recolor"
    BY <2>1 DEF Inv, CallInv, CallType
  <2> QED BY <2>7, <2>8 DEF Owned
<1> QED BY <1>1, <1>2

\* The same of the state after a step.
LEMMA HeapRootedNext == Inv' => Rooted(heap', root')
<1>1. Inv => Rooted(heap, root)
  BY HeapRooted
<1>2. Inv' => Rooted(heap, root)'
  BY <1>1, PTL
<1> QED
  BY <1>2

\* A removal forgets one node and takes one pair out, whose value it returns.
Takes(gone, lost, src) ==
  /\ src \in Bijection(Reach(heap, root) \ {gone}, Reach(heap, root) \ {lost})
  /\ Reach(heap', root') = Reach(heap, root) \ {gone}
  /\ Tree(heap', root')
  /\ \A m \in Reach(heap, root) \ {gone} : /\ heap'[m].key = heap[src[m]].key
                                           /\ heap'[m].val = heap[src[m]].val
  /\ call'.ret = heap[lost].val

\* remove at the root is such a removal (rb_tree.rs:50-63, 399-445) ...
LEMMA RootTaken ==
  ASSUME Inv, Where, Tree(heap, root), Inv', RemoveRoot
  PROVE  \E gone \in Reach(heap, root), lost \in Reach(heap, root) : \E src : Takes(gone, lost, src)
<1>1. /\ Rooted(heap, root) /\ Rooted(heap', root') /\ call \in CallType
      /\ At = root /\ At \in Reach(heap, root) /\ Tree(heap, root)
  BY HeapRooted, HeapRootedNext DEF Where, RemoveRoot, Inv, CallInv
<1>2. /\ heap' = RemoveNode(heap, At) /\ root' = Unlinked(heap, At) /\ call'.ret = heap[At].val
      /\ At # Nil
  BY <1>1 DEF RemoveRoot, Return, CallType
<1>3. RemovedAt(heap, heap', root, root', At)
  <2>1. \A m \in Reach(heap, root) : heap[m].left # At /\ heap[m].right # At
    BY <1>1, <1>2 DEF Tree, Children
  <2> QED
    BY <1>1, <1>2, <2>1 DEF RemovedAt
<1>4. PICK gone, src : Removes(heap, heap', root, root', At, gone, src)
  BY <1>1, <1>3, Removed, Zenon
<1>5. Takes(gone, At, src) /\ gone \in Reach(heap, root)
  BY <1>2, <1>4 DEF Takes, Removes
<1> QED
  BY <1>1, <1>5

\* ... and so is remove at a child: the pair of the node above is the one that is
\* lost, and the bijection that remove_node gives is redirected through that node.
LEMMA ChildTaken ==
  ASSUME Inv, Where, Tree(heap, root), Inv', RemoveChild
  PROVE  \E gone \in Reach(heap, root), lost \in Reach(heap, root) : \E src : Takes(gone, lost, src)
<1> DEFINE c == Candidate
           R == Reach(heap, root)
<1>1. /\ Rooted(heap, root) /\ Rooted(heap', root') /\ call \in CallType
      /\ At \in R /\ Tree(heap, root) /\ R \subseteq 1..used /\ R \subseteq Nodes /\ Closed(heap, R)
  BY HeapRooted, HeapRootedNext, ReachNodes, ReachClosed DEF Where, RemoveChild, Searching, Inv, CallInv
<1>2. /\ heap' = [RemoveNode(heap, c) EXCEPT ![At][Way] = Unlinked(heap, c),
                                             ![At].key = heap[c].key,
                                             ![At].val = heap[c].val]
      /\ call'.ret = heap[At].val /\ root' = root /\ c # Nil
  BY <1>1 DEF RemoveChild, Return, CallType
<1>3. /\ c \in Children(heap, At) /\ c \in R /\ c # root
      /\ Way \in {"left", "right"}
      /\ Way = "left" => heap[At].left = c /\ heap[At].right # c
      /\ Way = "right" => heap[At].right = c /\ heap[At].left # c
  BY <1>1, <1>2 DEF Candidate, Way, Children, Closed, Tree
<1>4. At \notin Reach(heap, c) /\ At # c
  BY <1>1, <1>3, Acyclic, ReachRoot, ReachWithin, <1>2
<1>5. RemoveNode(heap, c)[At] = heap[At]
  <2>1. Spine(heap, c) \subseteq Reach(heap, c)
    BY <1>1, <1>3, ReachWithin, SpineSteps
  <2> QED
    BY <1>1, <1>4, <2>1 DEF RemoveNode
<1>6. heap'[At] = [heap[At] EXCEPT ![Way] = Unlinked(heap, c), !.key = heap[c].key, !.val = heap[c].val]
  BY <1>1, <1>2, <1>5 DEF RemoveNode
<1>7. \A m \in R \ {At} : /\ heap'[m] = RemoveNode(heap, c)[m]
                          /\ heap[m].left # c /\ heap[m].right # c
  BY <1>1, <1>2, <1>3 DEF RemoveNode, Tree, Children
<1>8. heap[At] \in Node
  BY <1>1, HeapRooted
<1>9. /\ heap'[At].left = IF heap[At].left = c THEN Unlinked(heap, c) ELSE heap[At].left
      /\ heap'[At].right = IF heap[At].right = c THEN Unlinked(heap, c) ELSE heap[At].right
      /\ heap'[At].key = heap[c].key /\ heap'[At].val = heap[c].val
  <2> HIDE DEF c
  <2>1. CASE Way = "left"
    BY <1>3, <1>6, <1>8, <2>1 DEF Node
  <2>2. CASE Way = "right"
    BY <1>3, <1>6, <1>8, <2>2 DEF Node
  <2> QED
    BY <1>3, <2>1, <2>2
<1> HIDE DEF c
<1>10. RemovedAt(heap, heap', root, root', c)
  <2>1. root' = IF c = root THEN Unlinked(heap, c) ELSE root
    BY <1>2, <1>3
  <2>2. ASSUME NEW m \in R
        PROVE  /\ heap'[m].left = IF heap[m].left = c THEN Unlinked(heap, c) ELSE RemoveNode(heap, c)[m].left
               /\ heap'[m].right = IF heap[m].right = c THEN Unlinked(heap, c)
                                                      ELSE RemoveNode(heap, c)[m].right
    <3>1. CASE m = At
      BY <1>5, <1>9, <3>1
    <3>2. CASE m # At
      BY <1>7, <3>2
    <3> QED
      BY <3>1, <3>2
  <2> QED
    BY <2>1, <2>2 DEF RemovedAt
<1> HIDE DEF R
<1>11. PICK gone, src : Removes(heap, heap', root, root', c, gone, src)
  BY <1>1, <1>3, <1>10, Removed, Zenon DEF R
<1>12. /\ gone \in Reach(heap, c) /\ gone \in R
       /\ src \in Bijection(R \ {gone}, R \ {c})
       /\ Reach(heap', root') = R \ {gone} /\ Tree(heap', root')
       /\ \A m \in R \ {gone} :
            /\ RemoveNode(heap, c)[m].key = heap[src[m]].key
            /\ RemoveNode(heap, c)[m].val = heap[src[m]].val
            /\ m \notin Reach(heap, c) => src[m] = m
  BY <1>11, Zenon DEF Removes, R
<1>13. At \in R \ {gone} /\ src[At] = At
  BY <1>1, <1>4, <1>12
<1>14. PICK to : Redirects(R, gone, c, At, src, to)
  BY <1>1, <1>3, <1>4, <1>12, <1>13, Redirected
<1>15. \A m \in R \ {gone} : heap'[m].key = heap[to[m]].key /\ heap'[m].val = heap[to[m]].val
  BY <1>7, <1>9, <1>12, <1>14 DEF Redirects
<1>16. Takes(gone, At, to)
  BY <1>2, <1>12, <1>14, <1>15 DEF Takes, R, Redirects
<1> QED
  BY <1>1, <1>12, <1>16 DEF R

\* A leaf is hung below a reached node, and the loop may begin at it.
LEMMA AttachOwned ==
  ASSUME Inv, Inv', Where, Tree(heap, root), InsertAttach
  PROVE  Owned'
<1>1. PICK s \in Sides : Hung(s)
  BY HungIs
<1>2. /\ Rooted(heap, root) /\ Rooted(heap', root') /\ Reach(heap, root) \subseteq 1..used
      /\ At \in Reach(heap, root) /\ root' = root /\ call \in CallType /\ At \in 1..used /\ used' \in Nodes
      /\ Nil \notin 1..used
  BY HeapRooted, HeapRootedNext, <1>1 DEF Hung, InsertAttach, Where, Inv, CallInv
<1>3. /\ used' \notin Reach(heap, root) /\ heap[At][s] = Nil
      /\ heap'[used'].left = Nil /\ heap'[used'].right = Nil /\ heap'[used'].parent = At
      /\ heap'[At][s] = used' /\ heap'[At][Rev(s)] = heap[At][Rev(s)]
  BY <1>1, <1>2 DEF Hung, Fresh
<1>4. LinksKept(heap, heap', Reach(heap, root) \ {At})
  BY <1>1, <1>2 DEF Hung, LinksKept
<1>5. LeafHung(heap, heap', Reach(heap, root), At, s, used')
  BY <1>2, <1>3, <1>4 DEF LeafHung
<1>6. Grown(heap, heap', root, At, used')
  BY <1>2, <1>5, Attached
<1>7. call'.pc = "recolor" => call'.at = used'
  BY <1>1, <1>2 DEF Hung, Return, CallType
<1> QED
  BY <1>2, <1>3, <1>6, <1>7 DEF Owned, At, Grown

\* The first node is the whole tree.
LEMMA FirstOwned ==
  ASSUME Inv, Inv', InsertFirst
  PROVE  Owned'
<1>1. /\ used \in 0..MaxNodes /\ used < MaxNodes /\ used' = used + 1 /\ root' = used' /\ call \in CallType
      /\ heap' = [heap EXCEPT ![used'] = Fresh(Nil, "Black", call.key)] /\ Return(NoValue)
      /\ heap \in [Nodes -> Node]
  BY DEF InsertFirst, Alloc, Inv, CallInv, SoundHeap
<1>2. used' \in Nodes
  BY <1>1, Counting
<1>3. heap'[used'] = Fresh(Nil, "Black", call.key)
  BY <1>1, <1>2
<1>4. Children(heap', root') = {} /\ heap'[root'].left = Nil
  BY <1>1, <1>3 DEF Children, Fresh
<1>5. Reach(heap', root') \subseteq {root'}
  <2>1. Closed(heap', {root'})
    BY <1>4 DEF Closed
  <2> QED
    BY <1>1, <2>1, ReachLeast
<1>6. Tree(heap', root')
  BY <1>4, <1>5 DEF Tree
<1>7. call'.pc = "idle"
  BY <1>1 DEF Return, CallType
<1> QED
  BY <1>6, <1>7 DEF Owned

\* The loop paints, and at its end makes a node the root that has no parent.
LEMMA PaintOwned ==
  ASSUME Inv, Inv', Tree(heap, root), heap[At].parent = Nil => Tree(heap, At), RecolorDone \/ Repaint
  PROVE  Owned'
<1>1. /\ used \in 0..MaxNodes /\ SoundHeap(heap, used) /\ SoundHeap(heap', used') /\ root \in 0..used
      /\ 0..used = 1..used \cup {Nil} /\ Nil \notin 1..used
  BY HeapRooted DEF Inv
<1>2. CASE RecolorDone
  <2>1. Done
    BY <1>2, DoneIs
  <2>2. /\ AllLinks(heap, heap', used) /\ used' = used /\ At \in 0..used /\ call'.pc = "idle"
        /\ root' = IF Parent = Nil THEN At ELSE root
    BY <1>1, <2>1 DEF Done
  <2>3. Tree(heap, root')
    BY <2>2 DEF Parent
  <2>4. root' \in 0..used
    BY <1>1, <2>2
  <2>5. Tree(heap', root')
    BY <1>1, <2>2, <2>3, <2>4, SameTree
  <2> QED BY <2>2, <2>5 DEF Owned
<1>3. CASE Repaint
  <2>1. Repainted
    BY <1>3, RepaintIs
  <2>2. /\ AllLinks(heap, heap', used) /\ used' = used /\ root' = root /\ Grand \in 1..used
        /\ IF heap[Grand].parent = Nil THEN call'.pc = "idle" ELSE call'.pc = "recolor" /\ call'.at = Grand
    BY <2>1 DEF Repainted
  <2>3. Tree(heap', root')
    BY <1>1, <2>2, SameTree
  <2>4. heap'[Grand].parent = heap[Grand].parent
    BY <2>2 DEF AllLinks
  <2> QED BY <2>2, <2>3, <2>4 DEF Owned, At
<1> QED
  BY <1>2, <1>3

\* Every step keeps one owner for each node, but a rotation after a fault.
LEMMA OwnedStep == Inv /\ Inv' /\ Where /\ Rooting /\ Owned /\ [Next]_vars => Owned'
<1> SUFFICES ASSUME Inv, Inv', Where, Rooting, Owned, [Next]_vars, "stale" \notin faults' PROVE Owned'
  BY DEF Owned
<1>0. call \in CallType
  BY DEF Inv, CallInv
<1>1. CASE UNCHANGED vars
  BY <1>1 DEF vars, Owned, At
<1>2. CASE RotateOnceLeft \/ RotateOnceRight \/ RotateTwice \/ RotateOncePanic \/ RotateTwicePanic
  <2>1. Whole
    <3>1. faults = {}
      BY <1>2 DEF RotateOnceLeft, RotateOnceRight, RotateTwice, RotateOncePanic, RotateTwicePanic, HalfDone, Stale
    <3>2. call.pc = "recolor"
      BY <1>2 DEF RotateOnceLeft, RotateOnceRight, RotateTwice, RotateOncePanic, RotateTwicePanic, Rotates,
         HasGrand, RedParent, Recoloring
    <3> QED BY <3>1, <3>2 DEF Whole
  <2> QED
    BY <1>2, <2>1, OnceOwned, TwiceOwned, HalfOwned
<1>3. ASSUME "stale" \notin faults, UNCHANGED <<root, heap>>, call'.pc # "recolor" PROVE Owned'
  BY <1>3 DEF Owned
<1>4. CASE \E op \in {"insert", "remove"}, k \in Keys : Call(op, k)
  BY <1>3, <1>4 DEF Call
<1>5. CASE InsertDescend \/ InsertPresent \/ InsertNoMemory \/ RecolorPanic \/ RemoveDescend \/ RemoveNothing
  <2>1. UNCHANGED <<root, heap, faults>> /\ call'.pc # "recolor"
    BY <1>0, <1>5 DEF InsertDescend, InsertPresent, InsertNoMemory, RecolorPanic, RemoveDescend, RemoveNothing,
       Searching, Goto, Return, Panic, CallType
  <2> QED BY <1>3, <2>1
<1>6. CASE InsertFirst
  BY <1>6, FirstOwned
<1>7. CASE InsertAttach
  <2>1. Tree(heap, root)
    BY <1>7 DEF InsertAttach, Owned
  <2> QED BY <1>7, <2>1, AttachOwned
<1>8. CASE RecolorDone \/ Repaint
  <2>1. faults' = faults /\ call.pc = "recolor"
    BY <1>8 DEF RecolorDone, Repaint, RedUncle, HasGrand, RedParent, Recoloring
  <2> QED BY <1>8, <2>1, PaintOwned DEF Owned
<1>9. CASE RemoveRoot \/ RemoveChild
  <2>1. Tree(heap, root)
    BY <1>9 DEF RemoveRoot, RemoveChild, Owned
  <2>2. PICK gone, lost, src : Takes(gone, lost, src)
    BY <1>9, <2>1, RootTaken, ChildTaken
  <2>3. call'.pc = "idle"
    BY <1>0, <1>9 DEF RemoveRoot, RemoveChild, Return, CallType
  <2> QED BY <2>2, <2>3 DEF Takes, Owned
<1>10. CASE DropTree
  <2>1. root' = Nil /\ call'.pc = "dropped"
    BY <1>0, <1>10 DEF DropTree, CallType
  <2>2. Tree(heap', root')
    BY <2>1, ReachNil DEF Tree
  <2> QED BY <2>1, <2>2 DEF Owned
<1> QED
  BY <1>1, <1>2, <1>4, <1>5, <1>6, <1>7, <1>8, <1>9, <1>10, RemovableAssumption
     DEF Next, Insert, Recolor, Remove

\* An empty tree has no owners at all.
LEMMA InitOwned == Init => Owned
  BY ReachNil DEF Init, Owned, Tree

\* In every state that no rotation after a fault has led to, the nodes of the
\* tree have one owner each: removals, which copy nodes over others, and the
\* rotation that leaves a link behind give none a second one
\* (rb_tree.rs:149-190, 351-376, 399-445).
THEOREM StaysOwned == Spec => []Owned
<1>1. OrderInv /\ OrderInv' /\ Owned /\ [Next]_vars => Owned'
  BY OwnedStep DEF OrderInv
<1> QED
  BY <1>1, InitOwned, StaysOrdered, PTL DEF Spec

\* Dropping the tree frees no node twice, unless a rotation has come after a
\* fault: not after any number of inserts and removals, nor when an assert has
\* failed in the middle of a rotation (rb_tree.rs:149-190, 388-397).
THEOREM NothingFreedTwice == Spec => []DropFreesOnce
<1>1. Owned => DropFreesOnce
  BY SoleOwnerTree DEF Owned, DropFreesOnce
<1> QED
  BY <1>1, StaysOwned, PTL

\* The nodes of a set that hold a pair.
Holding(h, S, e) == {n \in S : <<h[n].key, h[n].val>> = e}

\* A heap whose nodes that are reached hold the same pairs as before but for one.
LEMMA StockTaken ==
  ASSUME Inv, Inv', NEW gone \in Reach(heap, root), NEW lost \in Reach(heap, root), NEW src,
         Takes(gone, lost, src)
  PROVE  \E e \in Keys \X Values : /\ Stock[e] > 0 /\ e[2] = call'.ret
                                  /\ Stock' = [Stock EXCEPT ![e] = @ - 1]
<1> DEFINE R == Reach(heap, root)
           S == R \ {gone}
           q == <<heap[lost].key, heap[lost].val>>
           P == Keys \X Values
<1>1. R \subseteq Nodes /\ IsFiniteSet(R) /\ IsFiniteSet(Nodes)
  BY ReachNodes, NodesFinite, FS_Subset
<1>2. /\ src \in Bijection(S, R \ {lost}) /\ Reach(heap', root') = S
      /\ \A m \in S : heap'[m].key = heap[src[m]].key /\ heap'[m].val = heap[src[m]].val
      /\ call'.ret = heap[lost].val
  BY DEF Takes
<1>3. heap[lost] \in Node
  BY <1>1 DEF Inv, SoundHeap
<1>4. q \in P /\ q[2] = call'.ret
  BY <1>2, <1>3 DEF Node
<1>5. ASSUME NEW e \in P
      PROVE  Cardinality(Holding(heap', S, e)) = IF e = q THEN Cardinality(Holding(heap, R, e)) - 1
                                                        ELSE Cardinality(Holding(heap, R, e))
  <2>1. Holding(heap', S, e) \in SUBSET S /\ Holding(heap, R, e) \in SUBSET R
    BY DEF Holding
  <2>2. \A m \in S : m \in Holding(heap', S, e) <=> src[m] \in Holding(heap, R, e)
    <3>1. \A m \in S : src[m] \in R
      BY <1>2, BijectionIs
    <3> QED
      BY <1>2, <3>1 DEF Holding
  <2>3. lost \in Holding(heap, R, e) <=> e = q
    BY DEF Holding
  <2> DEFINE A == Holding(heap', S, e)
             B == Holding(heap, R, e)
  <2>4. /\ IsFiniteSet(R) /\ gone \in R /\ lost \in R
        /\ src \in Bijection(R \ {gone}, R \ {lost})
        /\ A \in SUBSET (R \ {gone}) /\ B \in SUBSET R
        /\ \A m \in R \ {gone} : m \in A <=> src[m] \in B
    BY <1>1, <1>2, <2>1, <2>2
  <2> HIDE DEF S, R, q, A, B
  <2>5. Cardinality(A) = IF lost \in B THEN Cardinality(B) - 1 ELSE Cardinality(B)
    BY <2>4, Counted
  <2> QED
    BY <2>3, <2>5 DEF A, B
<1>6. Stock = [e \in P |-> Cardinality(Holding(heap, R, e))]
  BY DEF Stock, Holding, Reached
<1>7. Stock' = [e \in P |-> Cardinality(Holding(heap', S, e))]
  BY <1>2 DEF Stock, Holding, Reached
<1>8. Stock[q] > 0
  <2>1. lost \in Holding(heap, R, q) /\ IsFiniteSet(Holding(heap, R, q))
    BY <1>1, FS_Subset DEF Holding
  <2>2. Cardinality(Holding(heap, R, q)) \in Nat /\ Cardinality(Holding(heap, R, q)) # 0
    BY <2>1, FS_EmptySet, FS_CardinalityType
  <2> QED
    BY <1>4, <1>6, <2>2
<1> HIDE DEF P, q, S
<1>9. Stock' = [Stock EXCEPT ![q] = @ - 1]
  BY <1>4, <1>5, <1>6, <1>7
<1> QED
  BY <1>4, <1>8, <1>9 DEF P

\* What RemoveTakesOne says of a step.
Takings ==
  call.pc = "remove" /\ call'.pc = "idle" /\ "stale" \notin faults =>
       IF call'.ret = NoValue
       THEN Stock' = Stock
       ELSE \E e \in Keys \X Values : /\ Stock[e] > 0 /\ e[2] = call'.ret
                                     /\ Stock' = [Stock EXCEPT ![e] = @ - 1]

\* No value is mistaken for None.
LEMMA ValueNotNone == NoValue \notin Values
  BY DEF NoValue, Values, Value

\* Only three actions return from remove.
LEMMA TakingStep == OrderInv /\ Owned /\ [Next]_vars => Takings
<1> SUFFICES ASSUME OrderInv, Owned, [Next]_vars, call.pc = "remove", call'.pc = "idle",
                    "stale" \notin faults
             PROVE Takings
  BY DEF Takings
<1>0. Inv /\ Inv' /\ Where /\ Tree(heap, root) /\ call \in CallType
  BY InvStep DEF OrderInv, Owned, Inv, CallInv
<1>1. CASE RemoveNothing
  <2>1. heap' = heap /\ root' = root /\ call'.ret = NoValue
    BY <1>0, <1>1 DEF RemoveNothing, Return, CallType
  <2> QED
    BY <2>1 DEF Takings, Stock, Reached
<1>2. CASE RemoveRoot \/ RemoveChild
  <2>1. PICK gone \in Reach(heap, root), lost \in Reach(heap, root) : \E src : Takes(gone, lost, src)
    BY <1>0, <1>2, RootTaken, ChildTaken
  <2>2. PICK src : Takes(gone, lost, src)
    BY <2>1
  <2>3. call'.ret # NoValue
    <3>1. heap[lost].val \in Values
      BY <1>0, ReachNodes DEF Inv, SoundHeap, Node
    <3> QED
      BY <2>2, <3>1, ValueNotNone DEF Takes
  <2> QED
    BY <1>0, <2>2, <2>3, StockTaken DEF Takings
<1>3. RemoveNothing \/ RemoveRoot \/ RemoveChild
  <2>1. ~UNCHANGED vars
    BY DEF vars
  <2>2. ~Recolor
    BY DEF Recolor, RecolorDone, RecolorPanic, Repaint, RotateOnceLeft, RotateOnceRight, RotateTwice,
       RotateOncePanic, RotateTwicePanic, Rotates, RedUncle, HasGrand, RedParent, Recoloring
  <2> QED
    BY <1>0, <2>1, <2>2 DEF Next, Call, Insert, Remove, InsertFirst, InsertDescend, InsertAttach, InsertPresent,
           InsertNoMemory, RemoveDescend, DropTree, Goto, CallType
<1> QED
  BY <1>1, <1>2, <1>3

\* While no rotation has come after a fault, a removal takes out one pair or
\* none, and returns the value of the pair that is gone (rb_tree.rs:351-376).
THEOREM RemovalTakesOne == Spec => RemoveTakesOne
<1>1. OrderInv /\ Owned /\ [Next]_vars => Takings
  BY TakingStep
<1> QED
  BY <1>1, StaysOrdered, StaysOwned, PTL DEF Spec, RemoveTakesOne, Takings

\* Until a fault, get_sibling never fails its assert and an insert never meets the
\* "weird state!" of recolor_2 (rb_tree.rs:132-138, 253-262, 328-330).
THEOREM AssertsAlwaysHold == Spec => []AssertsHold
<1>1. TreeInv => AssertsHold
  BY DEF TreeInv, Colored, Whole, AssertsHold
<1> QED
  BY <1>1, StaysRight, PTL
-----------------------------------------------------------------------------
(***************************************************************************)
(* Inserts in ascending order                                              *)
(***************************************************************************)
\* A rotation to the left moves links within the allocated nodes, wherever they lead.
LEMMA RotLeftSound ==
  ASSUME NEW h, NEW u \in 0..MaxNodes, SoundHeap(h, u), NEW n \in 1..u, NEW p \in 1..u, h[n].parent = p
  PROVE  SoundHeap(RotLeft(h, n), u)
<1> DEFINE g == h[p].parent
           A == Raise(h, n, "left")
           t == SideOf(A, g, p)
<1>1. /\ n \in Nodes /\ p \in Nodes /\ n \in 0..u /\ "left" \in Sides /\ t \in Sides
      /\ g # Nil => g \in Nodes
  BY Counting DEF Sides, SideOf, SoundHeap
<1>2. SoundHeap(A, u)
  BY <1>1, RaiseSound
<1>3. RotLeft(h, n) = IF g = Nil THEN A ELSE [A EXCEPT ![g][t] = n]
  BY DEF RotLeft
<1> HIDE DEF A, g, t
<1>4. g # Nil => SoundHeap([A EXCEPT ![g][t] = n], u)
  BY <1>1, <1>2, LinkSound
<1> QED
  BY <1>2, <1>3, <1>4

\* A rotation keeps the pairs, also in a tree whose links no longer agree.
LEMMA RotationPairs ==
  ASSUME Inv, Inv', RotateOnceLeft \/ RotateOnceRight
  PROVE  PairsKept(heap, heap', used)
<1>0. /\ At \in 1..used /\ Parent \in 1..used /\ Grand \in 1..used
      /\ heap[At].parent = Parent /\ heap[Parent].parent = Grand
      /\ used \in 0..MaxNodes /\ SoundHeap(heap, used) /\ 1..used \subseteq Nodes
      /\ "Red" \in Colors /\ "Black" \in Colors /\ "right" \in Sides
  BY RotatesAt, Counting DEF RotateOnceLeft, RotateOnceRight, Inv, Colors, Sides
<1>1. ASSUME NEW R, SoundHeap(R, used), PairsKept(heap, R, used),
             heap' = [R EXCEPT ![Grand].color = "Red", ![Parent].color = "Black"]
      PROVE  PairsKept(heap, heap', used)
  <2>0. SoundHeap(R, used) /\ heap' = [R EXCEPT ![Grand].color = "Red", ![Parent].color = "Black"]
    BY <1>1
  <2>01. used \in 0..MaxNodes /\ Grand \in 1..used /\ Parent \in 1..used /\ "Red" \in Colors /\ "Black" \in Colors
         /\ SoundHeap(R, used)
    BY <1>0, <2>0
  <2>1. Painted(R, [R EXCEPT ![Grand].color = "Red", ![Parent].color = "Black"], used,
                Grand, "Red", Parent, "Black")
    BY <2>01, PaintTwoIs, Zenon
  <2>2. PairsKept(R, heap', used)
    BY <2>0, <2>1 DEF Painted
  <2> QED BY <1>1, <2>2 DEF PairsKept
<1>2. CASE RotateOnceLeft
  <2>1. heap' = [RotLeft(heap, Parent) EXCEPT ![Grand].color = "Red", ![Parent].color = "Black"]
    BY <1>2 DEF RotateOnceLeft
  <2>2. PairsKept(heap, RotLeft(heap, Parent), used) /\ SoundHeap(RotLeft(heap, Parent), used)
    BY <1>0, RotData, RotLeftSound
  <2> QED BY <1>1, <2>1, <2>2
<1>3. CASE RotateOnceRight
  <2>1. heap' = [RotRight(heap, Parent) EXCEPT ![Grand].color = "Red", ![Parent].color = "Black"]
    BY <1>3 DEF RotateOnceRight
  <2>2. PairsKept(heap, RotRight(heap, Parent), used) /\ SoundHeap(RotRight(heap, Parent), used)
    <3>1. Parent \in Nodes /\ heap[Parent].parent \in Nodes
      BY <1>0
    <3> QED BY <1>0, <3>1, RotData, RaiseSound DEF RotRight
  <2> QED BY <1>1, <2>1, <2>2
<1> QED
  BY <1>2, <1>3

\* So does a double one ...
LEMMA TwicePairs ==
  ASSUME Inv, Inv', RotateTwice
  PROVE  PairsKept(heap, heap', used)
<1> DEFINE h == RotLeft(heap, At)
           R == RotRight(h, At)
           h1 == [R EXCEPT ![At].color = "Black"]
<1>0. /\ At \in 1..used /\ Parent \in 1..used /\ Grand \in 1..used
      /\ heap[At].parent = Parent /\ heap[Parent].parent = Grand
      /\ used \in 0..MaxNodes /\ SoundHeap(heap, used) /\ 1..used \subseteq Nodes /\ Nil \notin 1..used
      /\ "Red" \in Colors /\ "Black" \in Colors /\ "right" \in Sides
  BY RotatesAt, Counting DEF RotateTwice, Inv, Colors, Sides
<1>1. heap' = [h1 EXCEPT ![Parent].color = "Red", ![Grand].color = "Red"]
  BY DEF RotateTwice
<1>2. SoundHeap(h, used) /\ PairsKept(heap, h, used) /\ h[At].parent \in 1..used
  BY <1>0, RotLeftSound, RotData, RotLeftParent
<1> HIDE DEF h
<1>3. SoundHeap(R, used) /\ PairsKept(h, R, used)
  <2>1. At \in Nodes /\ h[At].parent \in Nodes
    BY <1>0, <1>2
  <2> QED BY <1>0, <1>2, <2>1, RotData, RaiseSound DEF RotRight
<1> HIDE DEF R
<1>4. Painted(R, h1, used, At, "Black", At, "Black")
  BY <1>0, <1>3, PaintOneIs
<1> HIDE DEF h1
<1>5. SoundHeap(h1, used) /\ PairsKept(R, h1, used)
  BY <1>4 DEF Painted
<1>6. Painted(h1, [h1 EXCEPT ![Parent].color = "Red", ![Grand].color = "Red"], used,
              Parent, "Red", Grand, "Red")
  BY <1>0, <1>5, PaintTwoIs
<1>7. PairsKept(h1, heap', used)
  BY <1>1, <1>6 DEF Painted
<1> QED
  BY <1>2, <1>3, <1>5, <1>7 DEF PairsKept

\* ... and one that stops half way.
LEMMA HalfPairs ==
  ASSUME Inv, Inv', RotateOncePanic \/ RotateTwicePanic
  PROVE  PairsKept(heap, heap', used)
<1>0. /\ At \in 1..used /\ Parent \in 1..used /\ Grand \in 1..used
      /\ heap[At].parent = Parent /\ heap[Parent].parent = Grand
      /\ used \in 0..MaxNodes /\ SoundHeap(heap, used) /\ 1..used \subseteq Nodes
      /\ "left" \in Sides /\ "right" \in Sides
  BY RotatesAt, Counting DEF RotateOncePanic, RotateTwicePanic, Inv, Sides
<1>1. CASE RotateOncePanic
  <2>1. heap' = Raise(heap, Parent, "left")
    BY <1>1 DEF RotateOncePanic, HalfDone
  <2> QED BY <1>0, <2>1, RaiseData
<1>2. CASE RotateTwicePanic
  <2> DEFINE A == RotRight(heap, At)
  <2>1. heap' = BeginLeft(A, At)
    BY <1>2 DEF RotateTwicePanic, HalfDone
  <2>2. SoundHeap(A, used) /\ PairsKept(heap, A, used)
    <3>1. At \in Nodes /\ heap[At].parent \in Nodes
      BY <1>0
    <3> QED BY <1>0, <3>1, RotData, RaiseSound DEF RotRight
  <2> HIDE DEF A
  <2>4. \A m \in 1..used : A[m] \in Node
    BY <1>0, <2>2 DEF SoundHeap
  <2>5. PairsKept(A, heap', used)
    <3> SUFFICES ASSUME NEW m \in 1..used PROVE heap'[m].key = A[m].key /\ heap'[m].val = A[m].val
      BY DEF PairsKept
    <3>1. \/ m = At /\ heap'[m] = [A[At] EXCEPT !.left = A[At].parent]
          \/ heap'[m] = [A[m] EXCEPT !.parent = A[At].parent]
          \/ heap'[m] = A[m]
      BY <1>0, <2>1 DEF BeginLeft
    <3> QED BY <2>4, <3>1 DEF Node
  <2> QED BY <2>2, <2>5 DEF PairsKept
<1> QED
  BY <1>1, <1>2

\* Until the tree is dropped, only a removal changes the keys of nodes.
LEMMA KeysStay ==
  ASSUME Inv, Inv', Next, "removed" \notin faults', call'.pc # "dropped"
  PROVE  used <= used' /\ \A n \in 1..used : heap'[n].key = heap[n].key
<1>0. used \in 0..MaxNodes /\ call \in CallType
  BY DEF Inv, CallInv
<1>1. ASSUME used' = used, PairsKept(heap, heap', used)
      PROVE  used <= used' /\ \A n \in 1..used : heap'[n].key = heap[n].key
  BY <1>0, <1>1 DEF PairsKept
<1>2. CASE UNCHANGED <<heap, used>>
  BY <1>0, <1>2
<1>3. CASE InsertFirst
  <2>1. used' = used + 1 /\ heap' = [heap EXCEPT ![used'] = Fresh(Nil, "Black", call.key)]
    BY <1>3 DEF InsertFirst, Alloc
  <2> QED BY <1>0, <2>1, Counting DEF Inv, SoundHeap
<1>4. CASE InsertAttach
  <2>1. PICK s \in Sides : Hung(s)
    BY <1>4, HungIs
  <2> QED BY <1>0, <2>1 DEF Hung
<1>5. CASE RecolorDone
  <2>1. Done
    BY <1>5, DoneIs
  <2> QED BY <1>1, <2>1 DEF Done
<1>6. CASE Repaint
  <2>1. Repainted
    BY <1>6, RepaintIs
  <2> QED BY <1>1, <2>1 DEF Repainted
<1>7. CASE RotateOnceLeft \/ RotateOnceRight
  BY <1>1, <1>7, RotationPairs DEF RotateOnceLeft, RotateOnceRight
<1>8. CASE RotateTwice
  BY <1>1, <1>8, TwicePairs DEF RotateTwice
<1>9. CASE RotateOncePanic \/ RotateTwicePanic
  BY <1>1, <1>9, HalfPairs DEF RotateOncePanic, RotateTwicePanic, HalfDone
<1>10. ~RemoveRoot /\ ~RemoveChild /\ ~DropTree
  BY <1>0 DEF RemoveRoot, RemoveChild, DropTree, CallType
<1> QED
  BY <1>2, <1>3, <1>4, <1>5, <1>6, <1>7, <1>8, <1>9, <1>10
     DEF Next, Call, Insert, Recolor, Remove, InsertDescend, InsertPresent, InsertNoMemory, RecolorPanic, Panic,
         RemoveDescend, RemoveNothing

\* As long as the keys are the addresses in order, nothing has gone wrong, and
\* the loop is at a node above the last one, or at it.
Driven ==
  (\A n \in 1..used : heap[n].key = n) /\ "removed" \notin faults /\ call.pc # "dropped" =>
    /\ faults = {}
    /\ call.pc = "recolor" => used \in Reach(heap, At)

\* A node above the last one, or that one, is never a left child.
LEMMA MaxIsRight ==
  ASSUME Inv, Sorting, Whole, \A n \in 1..used : heap[n].key = n,
         NEW n \in 1..used, used \in Reach(heap, n), NEW p \in 1..used, heap[n].parent = p
  PROVE  heap[p].right = n /\ heap[p].left # n /\ used \in Reach(heap, p)
<1>1. /\ used \in 0..MaxNodes /\ SoundHeap(heap, used) /\ Linked(heap, used) /\ Nil \notin 1..used
      /\ Rooted(heap, p) /\ p \in 0..used /\ p \in Nodes
  BY HeapRooted DEF Inv, Whole
<1>2. IsChild(heap, p, n)
  BY <1>1 DEF Linked
<1>3. heap[p].left # n
  <2> SUFFICES ASSUME heap[p].left = n PROVE FALSE
    OBVIOUS
  <2>1. used \in Reach(heap, heap[p]["left"]) /\ "left" \in Sides
    BY DEF Sides
  <2>2. InOrder(heap, used)
    BY DEF Sorting
  <2>3. OnSide("left", heap[p].key, heap[used].key)
    BY <2>1, <2>2 DEF InOrder
  <2>4. used \in 1..used
    BY <1>1
  <2>5. heap[p].key = p /\ heap[used].key = used
    BY <2>4
  <2>6. used < p
    BY <2>3, <2>5 DEF OnSide
  <2> QED BY <1>1, <2>6
<1>4. heap[p].right = n
  BY <1>2, <1>3 DEF IsChild
<1>5. n \in Children(heap, p)
  BY <1>1, <1>4 DEF Children
<1>6. p \in Reach(heap, p) /\ Closed(heap, Reach(heap, p))
  BY <1>1, ReachRoot, ReachClosed
<1>7. n \in Reach(heap, p)
  BY <1>5, <1>6 DEF Closed
<1>8. Reach(heap, n) \subseteq Reach(heap, p)
  BY <1>1, <1>7, ReachWithin
<1> QED
  BY <1>3, <1>4, <1>8

\* Then the only rotation is a single one to the left, and no fault.
LEMMA LeftOnly ==
  ASSUME Inv, Sorting, Whole, \A n \in 1..used : heap[n].key = n, Rotates, used \in Reach(heap, At)
  PROVE  Straight /\ Turned = "left" /\ LinkedAbove /\ used \in Reach(heap, Grand)
<1>1. /\ At \in 1..used /\ Parent \in 1..used /\ Grand \in 1..used
      /\ heap[At].parent = Parent /\ heap[Parent].parent = Grand
  BY RotatesAt
<1>2. heap[Parent].left # At /\ used \in Reach(heap, Parent)
  BY <1>1, MaxIsRight
<1>3. heap[Grand].left # Parent /\ used \in Reach(heap, Grand)
  BY <1>1, <1>2, MaxIsRight
<1>4. LinkedAbove
  BY AboveLinked DEF Inv, Whole
<1> QED
  BY <1>2, <1>3, <1>4 DEF Straight, Turned, SideOf

\* With ascending keys the leaf is the rightmost node: it and its parent are right
\* children, so recolor_2 never meets the branches that go wrong.
LEMMA DrivenStep == OrderInv /\ Driven /\ [Next]_vars => Driven'
<1> SUFFICES ASSUME OrderInv, Driven, [Next]_vars,
                    \A n \in 1..used' : heap'[n].key = n, "removed" \notin faults', call'.pc # "dropped"
             PROVE  faults' = {} /\ (call'.pc = "recolor" => used' \in Reach(heap', call'.at))
  BY DEF Driven, At
<1>0. Inv /\ Inv' /\ Where /\ Rooting /\ Sorting /\ call \in CallType
  BY InvStep DEF OrderInv, Inv, CallInv
<1>1. CASE UNCHANGED vars
  BY <1>1 DEF vars, Driven, At
<1>2. CASE Next
  <2>1. used <= used' /\ \A n \in 1..used : heap'[n].key = heap[n].key
    BY <1>0, <1>2, KeysStay
  <2>2. \A n \in 1..used : heap[n].key = n
    <3>1. used \in 0..MaxNodes /\ used' \in 0..MaxNodes
      BY <1>0 DEF Inv
    <3>2. 1..used \subseteq 1..used'
      BY <2>1, <3>1, Counting
    <3> QED BY <2>1, <3>2
  <2>3. "removed" \notin faults
    BY <1>2 DEF Next, Call, Insert, Recolor, Remove, InsertFirst, InsertDescend, InsertAttach, InsertPresent,
       InsertNoMemory, RecolorDone, RecolorPanic, Panic, Repaint, RotateOnceLeft, RotateOnceRight, RotateTwice,
       RotateOncePanic, RotateTwicePanic, HalfDone, RemoveRoot, RemoveDescend, RemoveChild, RemoveNothing, DropTree
  <2>4. call.pc # "dropped"
    BY <1>2 DEF Next, Call, Insert, Recolor, Remove, InsertFirst, InsertDescend, InsertAttach, InsertPresent,
       InsertNoMemory, RecolorDone, RecolorPanic, Repaint, RotateOnceLeft, RotateOnceRight, RotateTwice,
       RotateOncePanic, RotateTwicePanic, Rotates, RedUncle, HasGrand, RedParent, Recoloring,
       RemoveRoot, RemoveDescend, RemoveChild, RemoveNothing, Searching, DropTree
  <2>5. Whole /\ (call.pc = "recolor" => used \in Reach(heap, At))
    BY <2>2, <2>3, <2>4 DEF Driven, Whole
  <2>6. ~RotateOnceRight /\ ~RotateTwice /\ ~RotateOncePanic /\ ~RotateTwicePanic
        /\ (RotateOnceLeft => used \in Reach(heap, Grand))
    <3>1. Rotates => call.pc = "recolor"
      BY DEF Rotates, HasGrand, RedParent, Recoloring
    <3>2. Rotates => Straight /\ Turned = "left" /\ LinkedAbove /\ used \in Reach(heap, Grand)
      BY <1>0, <2>2, <2>5, <3>1, LeftOnly
    <3> QED BY <3>2 DEF RotateOnceLeft, RotateOnceRight, RotateTwice, RotateOncePanic, RotateTwicePanic
  <2>7. faults' = {}
    <3>1. CASE RotateOnceLeft
      BY <2>5, <3>1 DEF RotateOnceLeft, Stale, Whole
    <3>2. CASE ~RotateOnceLeft
      BY <1>2, <2>5, <2>6, <3>2 DEF Next, Call, Insert, Recolor, Remove, InsertFirst, InsertDescend, InsertAttach,
         InsertPresent, InsertNoMemory, RecolorDone, RecolorPanic, Panic, Repaint, RemoveRoot, RemoveDescend,
         RemoveChild, RemoveNothing, DropTree, Whole
    <3> QED BY <3>1, <3>2
  <2>8. ASSUME call'.pc = "recolor" PROVE used' \in Reach(heap', call'.at)
    <3>0. /\ UNCHANGED <<root, heap, used>> /\ call.pc # "recolor" /\ call'.pc \notin {"recolor", "failed"}
          \/ InsertFirst \/ InsertAttach \/ RecolorDone \/ RecolorPanic \/ Repaint \/ RotateOnceLeft
      <4>1. CASE Recolor
        BY <2>6, <4>1 DEF Recolor
      <4>2. CASE ~Recolor
        <5>1. ~RotateOnceLeft /\ ~RotateOnceRight /\ ~RotateTwice
          BY <4>2 DEF Recolor
        <5>2. (\E s \in Sides : Once(s)) \/ (\E h : Twice(h)) => call.pc = "recolor"
          BY DEF Once, Twice
        <5>3. call.pc # "recolor"
          BY <1>0, <1>2, <2>8, <4>2, RemovableAssumption
             DEF Next, Call, Insert, Remove, InsertFirst, InsertDescend, InsertAttach, InsertPresent,
                 InsertNoMemory, RemoveRoot, RemoveDescend, RemoveChild, RemoveNothing, Searching, DropTree
        <5> QED BY <1>0, <1>2, <2>7, <5>2, <5>3, WholeCases
      <4> QED BY <4>1, <4>2
    <3>1. ~RecolorPanic /\ ~RecolorDone /\ ~InsertFirst
      BY <1>0, <2>8 DEF RecolorPanic, RecolorDone, InsertFirst, Panic, Return, CallType
    <3>2. /\ used' \in 0..MaxNodes /\ call'.at \in 0..used' /\ call'.at # Nil /\ Rooted(heap', call'.at)
      <4>1. used' \in 0..MaxNodes /\ SoundHeap(heap', used') /\ call'.at \in 0..used' /\ call'.at # Nil
        BY <1>0, <2>8 DEF Inv, CallInv
      <4> QED BY <4>1, SoundRooted
    <3>3. CASE InsertAttach
      <4>1. PICK s \in Sides : Hung(s)
        BY <1>0, <3>3, HungIs
      <4>2. call'.at = used'
        BY <1>0, <2>8, <4>1 DEF Hung, Return, CallType
      <4> QED BY <3>2, <4>2, ReachRoot
    <3>4. CASE Repaint
      <4>1. Repainted
        BY <1>0, <3>4, RepaintIs
      <4>2. /\ At \in 1..used /\ Parent \in 1..used /\ Grand \in 1..used /\ used' = used /\ call'.at = Grand
            /\ heap[At].parent = Parent /\ heap[Parent].parent = Grand /\ AllLinks(heap, heap', used)
            /\ call.pc = "recolor"
        BY <2>8, <4>1 DEF Repainted
      <4>3. used \in Reach(heap, Parent)
        BY <1>0, <2>2, <2>5, <4>2, MaxIsRight
      <4>4. used \in Reach(heap, Grand)
        BY <1>0, <2>2, <2>5, <4>2, <4>3, MaxIsRight
      <4>5. Rooted(heap, Grand) /\ Reach(heap, Grand) \subseteq 1..used
        BY <1>0, <4>2, HeapRooted
      <4>6. LinksKept(heap, heap', Reach(heap, Grand))
        BY <4>2, <4>5 DEF LinksKept, AllLinks
      <4>7. Reach(heap', Grand) = Reach(heap, Grand)
        BY <3>2, <4>2, <4>5, <4>6, ReachSame
      <4> QED BY <4>2, <4>4, <4>7
    <3>5. CASE RotateOnceLeft
      <4>1. PICK s \in Sides : Once(s)
        BY <1>0, <2>7, <2>4, <3>5, OnceIs
      <4>2. /\ Parent \in 1..used /\ Grand \in 1..used /\ used' = used
            /\ heap[Parent].parent = Grand /\ heap[Grand][Rev(s)] = Parent
            /\ Lifted(heap, heap', used, Parent, s) /\ call'.at = Parent
        BY <1>0, <2>5, <4>1, OnceMoves DEF Once
      <4>3. /\ used \in 0..MaxNodes /\ SoundHeap(heap, used) /\ Linked(heap, used)
            /\ SoundHeap(heap', used) /\ Linked(heap', used)
        BY <1>0, <2>5, <2>7, <2>8, <4>2 DEF Inv, Whole
      <4>4. Reach(heap', Parent) = Reach(heap, Grand)
        BY <4>2, <4>3, LiftReach
      <4> QED BY <2>6, <3>5, <4>2, <4>4
    <3> QED BY <2>8, <3>0, <3>1, <3>3, <3>4, <3>5
  <2> QED BY <2>7, <2>8
<1> QED
  BY <1>1, <1>2

\* As long as the keys are inserted in ascending order, and nothing is removed,
\* the loop only turns to the left: there is no fault
\* (main.rs:279-285, rb_tree.rs:253, 480-484).
THEOREM StaysDriven == Spec => []Driven
<1>1. Init => Driven
  BY DEF Init, Driven
<1> QED
  BY <1>1, DrivenStep, StaysOrdered, PTL DEF Spec

\* The driver and the test, however many keys they insert: no fault, no panic,
\* and every key is found (main.rs:279-291, rb_tree.rs:478-490).
THEOREM DriverAlwaysSafe == Spec => []DriverSafe
<1>1. TreeInv /\ Driven => DriverSafe
  <2> SUFFICES ASSUME TreeInv, Driven, Ascending, "removed" \notin faults, call.pc # "dropped"
               PROVE  faults = {} /\ call.pc # "failed" /\ AllFound
    BY DEF DriverSafe
  <2>1. Whole
    BY DEF Driven, Ascending, Whole
  <2>2. call.pc # "failed"
    BY <2>1 DEF TreeInv, Colored
  <2>3. ASSUME call.pc = "idle" PROVE 1..used \subseteq Reached
    <3>1. Inv /\ Rooting
      BY DEF TreeInv, OrderInv
    <3>2. Reach(heap, Top) = 1..used /\ (root = Nil => Top = Nil /\ used = 0)
      BY <2>1, <3>1, FromTop
    <3>3. root # Nil => heap[root].parent = Nil
      BY <2>1, <2>3, <3>1 DEF Rooting
    <3>4. Top = root
      BY <3>2, <3>3 DEF Top
    <3> QED BY <3>2, <3>4 DEF Reached
  <2> QED BY <2>1, <2>2, <2>3 DEF Whole, AllFound
<1> QED
  BY <1>1, StaysRight, StaysDriven, PTL
-----------------------------------------------------------------------------
(***************************************************************************)
(* That calls come to an end: their steps never lead back                  *)
(***************************************************************************)
\* The grandparent is above the node of the loop, and not below it.
LEMMA GrandAbove ==
  ASSUME Inv, Rooting, Whole, At \in 1..used, Parent \in 1..used, Grand \in 1..used,
         heap[At].parent = Parent, heap[Parent].parent = Grand
  PROVE  Reach(heap, At) \subseteq Reach(heap, Grand) /\ Reach(heap, At) # Reach(heap, Grand)
<1>1. /\ used \in 0..MaxNodes /\ SoundHeap(heap, used) /\ Linked(heap, used) /\ Nil \notin 1..used
      /\ \A x \in 0..used : Rooted(heap, x) /\ Reach(heap, x) \subseteq 1..used
      /\ 1..used \subseteq 0..used
  BY HeapRooted DEF Inv, Whole
<1>2. /\ At \in Children(heap, Parent) /\ Parent \in Children(heap, Grand)
  BY <1>1, OwnerIsParent
<1>3. \A x \in 1..used : x \in Reach(heap, x) /\ Closed(heap, Reach(heap, x))
  BY <1>1, ReachRoot, ReachClosed
<1>4. Parent \in Reach(heap, Grand) /\ At \in Reach(heap, Grand)
  BY <1>2, <1>3 DEF Closed
<1>5. Reach(heap, At) \subseteq Reach(heap, Grand) /\ Reach(heap, Parent) \subseteq Reach(heap, Grand)
  BY <1>1, <1>4, ReachWithin
<1>6. Tree(heap, Grand)
  BY <1>1, LinkedTree
<1>7. Grand \notin Reach(heap, Parent)
  BY <1>1, <1>2, <1>3, <1>6, Acyclic
<1>8. Reach(heap, At) \subseteq Reach(heap, Parent)
  <2>1. At \in Reach(heap, Parent)
    BY <1>2, <1>3 DEF Closed
  <2> QED BY <1>1, <2>1, ReachWithin
<1> QED
  BY <1>3, <1>5, <1>7, <1>8

\* What LoopClimbs says of a step.
Climbs ==
  call.pc = "recolor" /\ call'.pc = "recolor" /\ faults' = {} =>
    Reach(heap, At) \subseteq Reach(heap', At') /\ Reach(heap, At) # Reach(heap', At')

\* A red uncle sends the loop to the grandparent, a single rotation to the node
\* that has come up, and a double one lifts the node itself.
LEMMA ClimbStep == OrderInv /\ Next => Climbs
<1> SUFFICES ASSUME OrderInv, Next, call.pc = "recolor", call'.pc = "recolor", faults' = {}
             PROVE  Reach(heap, At) \subseteq Reach(heap', At') /\ Reach(heap, At) # Reach(heap', At')
  BY DEF Climbs
<1>0. Inv /\ Inv' /\ Rooting /\ call \in CallType
  BY InvStep DEF OrderInv, Inv, CallInv
<1>1. /\ Whole
      /\ \/ InsertFirst \/ InsertAttach \/ RecolorDone \/ RecolorPanic \/ Repaint
         \/ \E s \in Sides : Once(s)
         \/ \E h : Twice(h)
  BY <1>0, WholeCases
<1>2. ~InsertFirst /\ ~InsertAttach /\ ~RecolorDone /\ ~RecolorPanic
  BY <1>0 DEF InsertFirst, InsertAttach, RecolorDone, RecolorPanic, Panic, Return, CallType
<1>3. ASSUME /\ At \in 1..used /\ Parent \in 1..used /\ Grand \in 1..used
             /\ heap[At].parent = Parent /\ heap[Parent].parent = Grand,
             Reach(heap', At') = Reach(heap, Grand)
      PROVE  Reach(heap, At) \subseteq Reach(heap', At') /\ Reach(heap, At) # Reach(heap', At')
  BY <1>0, <1>1, <1>3, GrandAbove
<1>4. /\ used \in 0..MaxNodes /\ SoundHeap(heap, used) /\ Linked(heap, used)
      /\ used' \in 0..MaxNodes /\ SoundHeap(heap', used') /\ Linked(heap', used')
  BY <1>0, <1>1 DEF Inv, Whole
<1>5. CASE Repaint
  <2>1. Repainted
    BY <1>0, <1>5, RepaintIs
  <2>2. /\ At \in 1..used /\ Parent \in 1..used /\ Grand \in 1..used /\ used' = used /\ call'.at = Grand
        /\ heap[At].parent = Parent /\ heap[Parent].parent = Grand /\ AllLinks(heap, heap', used)
    BY <2>1 DEF Repainted
  <2>3. Rooted(heap, Grand) /\ Reach(heap, Grand) \subseteq 1..used /\ Rooted(heap', Grand)
    <3>1. Grand \in 0..used
      BY <1>0, <2>2, HeapRooted
    <3> QED BY <1>4, <2>2, <3>1, SoundRooted
  <2>4. LinksKept(heap, heap', Reach(heap, Grand))
    BY <2>2, <2>3 DEF LinksKept, AllLinks
  <2>5. Reach(heap', Grand) = Reach(heap, Grand)
    BY <2>3, <2>4, ReachSame
  <2> QED BY <1>3, <2>2, <2>5 DEF At
<1>6. ASSUME NEW s \in Sides, Once(s)
      PROVE  Reach(heap, At) \subseteq Reach(heap', At') /\ Reach(heap, At) # Reach(heap', At')
  <2>1. /\ At \in 1..used /\ Parent \in 1..used /\ Grand \in 1..used /\ used' = used
        /\ heap[At].parent = Parent
        /\ heap[Parent].parent = Grand /\ heap[Grand][Rev(s)] = Parent
        /\ Lifted(heap, heap', used, Parent, s) /\ call'.at = Parent
    BY <1>0, <1>1, <1>6, OnceMoves DEF Once
  <2>2. Reach(heap', Parent) = Reach(heap, Grand)
    BY <1>4, <2>1, LiftReach
  <2> QED BY <1>3, <2>1, <2>2 DEF At
<1>7. ASSUME NEW h, Twice(h)
      PROVE  Reach(heap, At) \subseteq Reach(heap', At') /\ Reach(heap, At) # Reach(heap', At')
  <2>1. /\ At \in 1..used /\ Parent \in 1..used /\ Grand \in 1..used /\ used' = used
        /\ heap[At].parent = Parent /\ heap[Parent].parent = Grand
        /\ heap[Parent].right = At /\ SoundHeap(h, used) /\ Linked(h, used)
        /\ Lifted(heap, h, used, At, "left") /\ h[At].parent = Grand /\ h[Grand].left = At
        /\ Lifted(h, heap', used, At, "right")
    BY <1>7 DEF Twice
  <2>2. call'.at = At /\ At # Grand /\ Parent # Grand
    BY <1>0, <1>1, <1>7, TwiceMoves
  <2>3. "left" \in Sides /\ "right" \in Sides /\ heap[Parent][Rev("left")] = At /\ h[Grand][Rev("right")] = At
    BY <2>1 DEF Sides, Rev
  <2>4. Grand \in 0..used \ {At, Parent}
    BY <1>4, <2>1, <2>2, Counting
  <2>5. Reach(h, Grand) = Reach(heap, Grand)
    BY <1>4, <2>1, <2>3, <2>4, LiftReach
  <2>6. Reach(heap', At) = Reach(h, Grand)
    BY <1>4, <2>1, <2>3, LiftReach
  <2> QED BY <1>3, <2>1, <2>2, <2>5, <2>6 DEF At
<1> QED
  BY <1>1, <1>2, <1>5, <1>6, <1>7

\* Until a fault, the loop of recolor_2 goes on with a node that is above more
\* nodes each time, so that it ends (rb_tree.rs:253, 272, 320-321).
THEOREM LoopAlwaysClimbs == Spec => LoopClimbs
<1>1. OrderInv /\ [Next]_vars => Climbs \/ UNCHANGED vars
  BY ClimbStep
<1> QED
  BY <1>1, StaysOrdered, PTL DEF Spec, LoopClimbs, Climbs

\* A descent leaves the node it was at behind.
Descends ==
  call.pc \in {"insert", "remove"} /\ call'.pc = call.pc /\ "stale" \notin faults =>
    Reach(heap', At') \subseteq Reach(heap, At) \ {At}

\* The next node of a descent is a child, which no node below it has again.
LEMMA DescendsStep == OrderInv /\ Owned /\ Next => Descends
<1> SUFFICES ASSUME OrderInv, Owned, Next, call.pc \in {"insert", "remove"}, call'.pc = call.pc,
                    "stale" \notin faults
             PROVE  Reach(heap', At') \subseteq Reach(heap, At) \ {At}
  BY DEF Descends
<1>1. UNCHANGED heap /\ At # Nil /\ call'.at \in Children(heap, At)
  BY Descents DEF OrderInv
<1>2. At \in Reach(heap, root) /\ Rooted(heap, root) /\ Tree(heap, root)
  BY <1>1, HeapRooted DEF OrderInv, Where, Owned
<1>3. At \notin Reach(heap, call'.at)
  BY <1>1, <1>2, Acyclic
<1>4. Rooted(heap, At) /\ At \in Nodes
  BY <1>2, ReachWithin, ReachNodes
<1>5. call'.at \in Reach(heap, At)
  BY <1>1, <1>4, ReachRoot, ReachClosed, NilNotNode DEF Closed
<1>6. Reach(heap, call'.at) \subseteq Reach(heap, At)
  BY <1>4, <1>5, ReachWithin
<1> QED
  BY <1>1, <1>3, <1>6 DEF At

\* As long as nodes have one owner each, the recursive calls of insert and
\* remove go down: what is below the next node is part of what was below the
\* last one (rb_tree.rs:192-248, 351-376).
THEOREM DescentsShrink == Spec => [][Descends]_vars
<1>1. OrderInv /\ Owned /\ [Next]_vars => Descends \/ UNCHANGED vars
  BY DescendsStep
<1> QED
  BY <1>1, StaysOrdered, StaysOwned, PTL DEF Spec
=============================================================================
