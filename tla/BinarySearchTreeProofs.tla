----------------------- MODULE BinarySearchTreeProofs -----------------------
(***************************************************************************)
(* The plain tree, for any keys and any number of nodes.  First each node  *)
(* for itself: links lead to memory that was allocated, and no pair is     *)
(* split.  Then all of them together: they form a tree, from which follow  *)
(* what each call does to the pairs and what is left to free.              *)
(***************************************************************************)
EXTENDS BinarySearchTree, TreeHeapProofs

\* The value of every node is the one its key was inserted with, also of the
\* nodes that a removal has forgotten, whose content was copied before.
WholePairs == \A n \in Nodes : heap[n].val = Value(heap[n].key)

\* A node that may stand in the heap once u nodes have been allocated.
Sound(nd, u) == /\ nd \in Node
                /\ nd.left \in 0..u /\ nd.right \in 0..u
                /\ nd.val = Value(nd.key)

CallType == [pc : {"idle", "insert", "remove", "panicked", "dropped"},
             at : Nodes \cup {Nil}, key : Keys, ret : Values \cup {NoValue}]

Inv == TypeOK /\ WholePairs

\* The invariant node by node.
LEMMA InvNodes ==
  Inv <=> /\ used \in 0..MaxNodes /\ root \in 0..used
          /\ call \in CallType /\ (call.pc = "idle" => call.at = Nil)
          /\ heap = [n \in Nodes |-> heap[n]]
          /\ \A n \in Nodes : Sound(heap[n], used)
<1>1. heap \in [Nodes -> Node] <=> heap = [n \in Nodes |-> heap[n]] /\ \A n \in Nodes : heap[n] \in Node
  OBVIOUS
<1> QED
  BY <1>1 DEF Inv, TypeOK, WholePairs, Sound, CallType

\* The same of the state after a step.
LEMMA InvNext ==
  ASSUME used' \in 0..MaxNodes, root' \in 0..used',
         call' \in CallType, call'.pc = "idle" => call'.at = Nil,
         heap' = [n \in Nodes |-> heap'[n]],
         \A n \in Nodes : Sound(heap'[n], used')
  PROVE  Inv'
<1>1. heap' \in [Nodes -> Node]
  BY DEF Sound
<1> QED
  BY <1>1 DEF Inv, TypeOK, WholePairs, Sound, CallType

\* An address is a natural number, and more may be allocated later.
LEMMA Counting ==
  /\ MaxNodes \in Nat /\ Nil \in Int /\ Nil \notin Nodes
  /\ \A u \in 0..MaxNodes : 0..u \subseteq Nodes \cup {Nil}
  /\ \A u \in 0..MaxNodes : u < MaxNodes => /\ u + 1 \in Nodes /\ u + 1 \in 0..MaxNodes
                                            /\ 0..u \subseteq 0..(u + 1) /\ u + 1 \in 0..(u + 1)
  BY TreeHeapAssumption DEF Nodes, Nil

\* A new node is sound, whatever its key.
LEMMA FreshSound ==
  ASSUME NEW k \in Keys, NEW u \in 0..MaxNodes
  PROVE  Sound(Fresh(k), u)
  BY Counting DEF Sound, Fresh, Node, Values, Nil

\* So is one that is not allocated.
LEMMA UnallocatedSound ==
  ASSUME NEW u \in 0..MaxNodes
  PROVE  Sound(Unallocated, u)
<1>1. (CHOOSE k \in Keys : TRUE) \in Keys
  BY TreeHeapAssumption
<1>2. Unallocated = Fresh(CHOOSE k \in Keys : TRUE)
  BY DEF Unallocated, Fresh
<1> QED
  BY <1>1, <1>2, FreshSound

\* The empty tree satisfies the invariant.
LEMMA InitInv == Init => Inv
<1> SUFFICES ASSUME Init PROVE Inv
  OBVIOUS
<1>1. used \in 0..MaxNodes /\ root \in 0..used
  BY Counting DEF Init, Nil
<1>2. \A n \in Nodes : Sound(heap[n], used)
  BY <1>1, UnallocatedSound DEF Init
<1>3. (CHOOSE k \in Keys : TRUE) \in Keys
  BY TreeHeapAssumption
<1> QED
  BY <1>1, <1>2, <1>3, InvNodes DEF Init, CallType

\* A new node, and one link that is set to it.
LEMMA LinkSound ==
  ASSUME NEW nd, NEW u \in 0..MaxNodes, NEW s \in {"left", "right"}, Sound(nd, u), u < MaxNodes
  PROVE  Sound([nd EXCEPT ![s] = u + 1], u + 1) /\ Sound(nd, u + 1)
<1>1. u + 1 \in Nodes /\ 0..u \subseteq 0..(u + 1) /\ u + 1 \in 0..(u + 1)
  BY Counting
<1>2. CASE s = "left"
  BY <1>1, <1>2 DEF Sound, Node
<1>3. CASE s = "right"
  BY <1>1, <1>3 DEF Sound, Node
<1> QED
  BY <1>2, <1>3

\* remove_node copies and moves whole pairs.
LEMMA RemoveNodeSound ==
  ASSUME NEW n \in Nodes, NEW m \in Nodes, Inv
  PROVE  Sound(RemoveNode(heap, n)[m], used)
<1>1. \A k \in Nodes : Sound(heap[k], used)
  BY InvNodes
<1>2. \A k \in Nodes : heap[k].left \in Nodes \cup {Nil} /\ heap[k].right \in Nodes \cup {Nil}
  BY <1>1 DEF Sound, Node
<1>3. CASE \E c \in Nodes : RemoveNode(heap, n)[m] = heap[c]
  BY <1>1, <1>3
<1>4. ASSUME heap[m].left \in Nodes, RemoveNode(heap, n)[m] = PullUp(heap, m)
      PROVE  Sound(RemoveNode(heap, n)[m], used)
  <2> DEFINE c == heap[m].left
  <2>1. Sound(heap[m], used) /\ Sound(heap[c], used)
    BY <1>1, <1>4
  <2>2. Unlinked(heap, c) \in (Nodes \cup {Nil}) \cap 0..used
    <3>1. c \in 0..used /\ Nil \in 0..used
      BY <2>1, InvNodes DEF Sound, Nil
    <3> QED
      BY <1>4, <3>1, UnlinkedType
  <2> QED
    BY <1>4, <2>1, <2>2 DEF PullUp, Sound, Node
<1>5. \/ \E c \in Nodes : RemoveNode(heap, n)[m] = heap[c]
      \/ heap[m].left \in Nodes /\ RemoveNode(heap, n)[m] = PullUp(heap, m)
  BY <1>2, RemoveNodeShape
<1> QED
  BY <1>3, <1>4, <1>5

\* Every step keeps the invariant.
LEMMA InvStep == Inv /\ [Next]_vars => Inv'
<1> SUFFICES ASSUME Inv, [Next]_vars PROVE Inv'
  OBVIOUS
<1>0. /\ used \in 0..MaxNodes /\ root \in 0..used
      /\ call \in CallType /\ (call.pc = "idle" => call.at = Nil)
      /\ heap = [n \in Nodes |-> heap[n]]
      /\ \A n \in Nodes : Sound(heap[n], used)
      /\ 0..used \subseteq Nodes \cup {Nil}
  BY InvNodes, Counting
<1>1. CASE UNCHANGED vars
  BY <1>1 DEF vars, Inv, TypeOK, WholePairs
<1>2. ASSUME NEW op \in {"insert", "remove"}, NEW k \in Keys, Call(op, k) PROVE Inv'
  BY <1>0, <1>2 DEF CallType, Call, Inv, TypeOK, WholePairs
<1>3. CASE Insert
  <2>1. CASE InsertFirst
    <3>1. /\ used' \in 0..MaxNodes /\ used' \in Nodes /\ root' \in 0..used' /\ used < MaxNodes
          /\ used' = used + 1 /\ call.key \in Keys
      BY <1>0, <2>1, Counting DEF InsertFirst, Alloc, CallType
    <3>2. \A n \in Nodes : Sound(heap'[n], used')
      <4> TAKE n \in Nodes
      <4>1. heap'[n] = IF n = used' THEN Fresh(call.key) ELSE heap[n]
        BY <1>0, <2>1 DEF InsertFirst
      <4>2. Sound(heap[n], used')
        BY <1>0, <3>1, LinkSound
      <4> QED
        BY <3>1, <4>1, <4>2, FreshSound
    <3> QED
      BY <1>0, <2>1, <3>1, <3>2, InvNext DEF CallType, InsertFirst, Return
  <2>2. CASE InsertDescend
    <3>1. heap[At][Side(At, call.key)] \in Nodes \cup {Nil}
      BY <1>0, <2>2 DEF InsertDescend, Side, CallType, At, Sound, Node
    <3> QED
      BY <1>0, <2>2, <3>1 DEF InsertDescend, CallType, Goto, Inv, TypeOK, WholePairs
  <2>3. CASE InsertAttach
    <3> DEFINE s == Side(At, call.key)
    <3>1. /\ used' \in 0..MaxNodes /\ used' \in Nodes /\ root' \in 0..used' /\ used < MaxNodes
          /\ used' = used + 1 /\ call.key \in Keys /\ At \in Nodes /\ s \in {"left", "right"}
          /\ 0 \in 0..used' 
      BY <1>0, <2>3, Counting DEF InsertAttach, Alloc, CallType, At, Side
    <3>2. \A n \in Nodes : Sound(heap'[n], used')
      <4> TAKE n \in Nodes
      <4> DEFINE h == [m \in Nodes |-> IF m = used' THEN Fresh(call.key) ELSE heap[m]]
      <4>1. Sound(Fresh(call.key), used) /\ Sound(heap[n], used)
        BY <1>0, <3>1, FreshSound
      <4>2. h[n] \in {heap[n], Fresh(call.key)}
        BY <1>0
      <4>3. Sound(h[n], used)
        BY <4>1, <4>2
      <4>4. heap' = [h EXCEPT ![At][s] = used + 1]
        BY <1>0, <2>3, <3>1 DEF InsertAttach
      <4>5. CASE n = At
        <5>1. heap'[n] = [h[n] EXCEPT ![s] = used + 1]
          BY <3>1, <4>4, <4>5
        <5> HIDE DEF h, s
        <5>2. Sound([h[n] EXCEPT ![s] = used + 1], used + 1)
          BY <1>0, <3>1, <4>3, LinkSound, Zenon
        <5> QED
          BY <3>1, <5>1, <5>2
      <4>6. CASE n # At
        <5>1. heap'[n] = h[n]
          BY <3>1, <4>4, <4>6
        <5> HIDE DEF h, s
        <5> QED
          BY <1>0, <3>1, <4>3, <5>1, LinkSound
      <4> QED
        BY <4>5, <4>6
    <3>3. heap' = [n \in Nodes |-> heap'[n]]
      BY <1>0, <2>3 DEF InsertAttach
    <3> QED
      BY <1>0, <2>3, <3>1, <3>2, <3>3, InvNext DEF CallType, InsertAttach, Return
  <2>4. CASE InsertPresent
    BY <1>0, <2>4 DEF InsertPresent, CallType, Inv, TypeOK, WholePairs
  <2>5. CASE InsertNoMemory
    BY <1>0, <2>5 DEF InsertNoMemory, CallType, Return, Inv, TypeOK, WholePairs
  <2> QED
    BY <1>3, <2>1, <2>2, <2>3, <2>4, <2>5 DEF Insert
<1>4. CASE Remove
  <2>1. CASE RemoveRoot
    <3>1. At \in Nodes /\ heap[At].val \in Values
      BY <1>0, <2>1 DEF RemoveRoot, CallType, At, Sound, Node
    <3>2. root' \in 0..used
      BY <1>0, <2>1, UnlinkedType DEF RemoveRoot, Nil
    <3>3. \A n \in Nodes : Sound(heap'[n], used')
      BY <2>1, <3>1, RemoveNodeSound DEF RemoveRoot
    <3>4. heap' = [n \in Nodes |-> heap'[n]]
      BY <2>1 DEF RemoveRoot, RemoveNode
    <3> QED
      BY <1>0, <2>1, <3>1, <3>2, <3>3, <3>4, InvNext DEF CallType, RemoveRoot, Return
  <2>2. CASE RemoveDescend
    <3>1. Candidate \in Nodes \cup {Nil}
      BY <1>0, <2>2 DEF RemoveDescend, Searching, Candidate, Way, CallType, At, Sound, Node
    <3> QED
      BY <1>0, <2>2, <3>1 DEF RemoveDescend, Searching, CallType, Goto, Inv, TypeOK, WholePairs
  <2>3. CASE RemoveChild
    <3> DEFINE c == Candidate
               R == RemoveNode(heap, c)
    <3>1. /\ At \in Nodes /\ c \in Nodes /\ c \in 0..used /\ heap[At].val \in Values
          /\ Way \in {"left", "right"} /\ Sound(heap[c], used)
      BY <1>0, <2>3 DEF RemoveChild, Searching, Candidate, Way, CallType, At, Sound, Node
    <3>2. Unlinked(heap, c) \in 0..used /\ Unlinked(heap, c) \in Nodes \cup {Nil}
      BY <1>0, <3>1, UnlinkedType DEF Nil
    <3>3. \A n \in Nodes : Sound(heap'[n], used')
      <4> TAKE n \in Nodes
      <4>1. Sound(R[n], used)
        BY <3>1, RemoveNodeSound
      <4>2. heap'[n] = IF n = At THEN [R[n] EXCEPT ![Way] = Unlinked(heap, c), !.key = heap[c].key,
                                                   !.val = heap[c].val]
                                 ELSE R[n]
        BY <2>3 DEF RemoveChild, RemoveNode
      <4>3. used' = used
        BY <2>3 DEF RemoveChild
      <4> HIDE DEF R, c
      <4>4. CASE Way = "left"
        BY <3>1, <3>2, <4>1, <4>2, <4>3, <4>4 DEF Sound, Node
      <4>5. CASE Way = "right"
        BY <3>1, <3>2, <4>1, <4>2, <4>3, <4>5 DEF Sound, Node
      <4> QED
        BY <3>1, <4>4, <4>5
    <3>4. heap' = [n \in Nodes |-> heap'[n]]
      BY <2>3 DEF RemoveChild, RemoveNode
    <3> QED
      BY <1>0, <2>3, <3>1, <3>3, <3>4, InvNext DEF CallType, RemoveChild, Return
  <2>4. CASE RemoveNothing
    BY <1>0, <2>4 DEF RemoveNothing, CallType, Return, Inv, TypeOK, WholePairs
  <2> QED
    BY <1>4, <2>1, <2>2, <2>3, <2>4 DEF Remove
<1>5. CASE DropTree
  <2>1. \A n \in Nodes : Sound(heap'[n], used')
    BY <1>0, <1>5, UnallocatedSound DEF DropTree
  <2>2. heap' = [n \in Nodes |-> heap'[n]]
    BY <1>5 DEF DropTree
  <2>3. root' \in 0..used
    BY <1>0, <1>5 DEF DropTree, Nil
  <2> QED
    BY <1>0, <1>5, <2>1, <2>2, <2>3, InvNext DEF CallType, DropTree
<1> QED
  BY <1>1, <1>2, <1>3, <1>4, <1>5, RemovableAssumption DEF Next

\* Types and whole pairs are kept together.
THEOREM Inductive == Spec => []Inv
  BY InitInv, InvStep, PTL DEF Spec

\* The nodes and the call keep their types, and no link leads to memory that
\* was not allocated (binary_search_tree.rs:98-108, 190-225).
THEOREM TypeCorrect == Spec => []TypeOK
<1>1. Inv => TypeOK
  BY DEF Inv
<1> QED
  BY <1>1, Inductive, PTL

\* A value stays with its key through any sequence of removals
\* (binary_search_tree.rs:138-140, 196-198).
THEOREM PairsAlwaysStay == Spec => []PairsStay
<1>1. Inv => PairsStay
  BY EntriesOfNodes DEF Inv, WholePairs, PairsStay
<1> QED
  BY <1>1, Inductive, PTL

-----------------------------------------------------------------------------
(***************************************************************************)
(* Two stronger facts of the nodes: no node has two owners, which the      *)
(* removal keeps although it copies nodes over others; and where a call    *)
(* is.                                                                     *)
(***************************************************************************)
\* No node has two owners, and the call under way is at a node of the tree.
Owned == /\ Tree(heap, root)
         /\ call.pc \in {"insert", "remove"} => At \in Reach(heap, root) \cup {Nil} /\ call.ret = NoValue
         /\ call.pc = "insert" /\ At = Nil => root = Nil

\* The links of the heap lead to allocated nodes.
LEMMA HeapRooted ==
  Inv => /\ Rooted(heap, root) /\ Reach(heap, root) \subseteq 1..used /\ 1..used \subseteq Nodes
         /\ \A n \in Nodes : /\ heap[n].left \in Nodes \cup {Nil}
                             /\ heap[n].right \in Nodes \cup {Nil}
<1> SUFFICES ASSUME Inv
             PROVE  /\ Rooted(heap, root) /\ Reach(heap, root) \subseteq 1..used /\ 1..used \subseteq Nodes
                    /\ \A n \in Nodes : /\ heap[n].left \in Nodes \cup {Nil}
                                        /\ heap[n].right \in Nodes \cup {Nil}
  OBVIOUS
<1>1. /\ used \in 0..MaxNodes /\ root \in 0..used /\ 0..used \subseteq Nodes \cup {Nil}
      /\ \A n \in Nodes : Sound(heap[n], used)
  BY InvNodes, Counting
<1>2. \A n \in Nodes : /\ heap[n].left \in (Nodes \cup {Nil}) \cap 0..used
                       /\ heap[n].right \in (Nodes \cup {Nil}) \cap 0..used
  BY <1>1 DEF Sound
<1>3. Rooted(heap, root)
  BY <1>1, <1>2 DEF Rooted, Closed, Children
<1>4. 1..used \subseteq Nodes /\ \A x \in 0..used : x # Nil => x \in 1..used
  BY <1>1, TreeHeapAssumption DEF Nodes, Nil
<1>5. Closed(heap, 1..used)
  BY <1>2, <1>4 DEF Closed, Children
<1>6. Reach(heap, root) \subseteq 1..used
  BY <1>1, <1>4, <1>5, ReachLeast
<1> QED
  BY <1>2, <1>3, <1>4, <1>6

\* The same of the state after a step.
LEMMA HeapRootedNext == Inv' => Rooted(heap', root')
<1>1. Inv => Rooted(heap, root)
  BY HeapRooted
<1>2. Inv' => Rooted(heap, root)'
  BY <1>1, PTL
<1> QED
  BY <1>2

\* A removal forgets one node and takes one pair out, whose value it returns.
Takes(gone, lost, src) ==
  /\ src \in Bijection(Reach(heap, root) \ {gone}, Reach(heap, root) \ {lost})
  /\ Reach(heap', root') = Reach(heap, root) \ {gone}
  /\ Tree(heap', root')
  /\ \A m \in Reach(heap, root) \ {gone} : /\ heap'[m].key = heap[src[m]].key
                                           /\ heap'[m].val = heap[src[m]].val
  /\ call'.ret = heap[lost].val

\* RemoveRoot is such a removal ...
LEMMA RootTaken ==
  ASSUME Inv, Owned, Inv', RemoveRoot
  PROVE  \E gone \in Reach(heap, root), lost \in Reach(heap, root) : \E src : Takes(gone, lost, src)
<1>1. /\ Rooted(heap, root) /\ Rooted(heap', root')
      /\ At = root /\ At \in Reach(heap, root) /\ Tree(heap, root)
  BY HeapRooted, HeapRootedNext, ReachRoot DEF Owned, RemoveRoot
<1>2. /\ heap' = RemoveNode(heap, At) /\ root' = Unlinked(heap, At) /\ call'.ret = heap[At].val
      /\ At # Nil
  BY InvNodes DEF RemoveRoot, Return, CallType
<1>3. RemovedAt(heap, heap', root, root', At)
  <2>1. \A m \in Reach(heap, root) : heap[m].left # At /\ heap[m].right # At
    BY <1>1, <1>2 DEF Tree, Children
  <2> QED
    BY <1>1, <1>2, <2>1 DEF RemovedAt
<1>4. PICK gone, src : Removes(heap, heap', root, root', At, gone, src)
  BY <1>1, <1>3, Removed, Zenon
<1>5. Takes(gone, At, src) /\ gone \in Reach(heap, root)
  BY <1>2, <1>4 DEF Takes, Removes
<1> QED
  BY <1>1, <1>5

\* ... and so is RemoveChild: the pair of the node above is the one that is lost,
\* and the bijection that remove_node gives is redirected through that node.
LEMMA ChildTaken ==
  ASSUME Inv, Owned, Inv', RemoveChild
  PROVE  \E gone \in Reach(heap, root), lost \in Reach(heap, root) : \E src : Takes(gone, lost, src)
<1> DEFINE c == Candidate
           R == Reach(heap, root)
<1>1. /\ Rooted(heap, root) /\ Rooted(heap', root')
      /\ At \in R /\ Tree(heap, root) /\ R \subseteq Nodes /\ Closed(heap, R)
  BY HeapRooted, HeapRootedNext, ReachNodes, ReachClosed DEF Owned, RemoveChild, Searching
<1>2. /\ heap' = [RemoveNode(heap, c) EXCEPT ![At][Way] = Unlinked(heap, c),
                                             ![At].key = heap[c].key,
                                             ![At].val = heap[c].val]
      /\ call'.ret = heap[At].val /\ root' = root /\ c # Nil
  BY InvNodes DEF RemoveChild, Return, CallType
<1>3. /\ c \in Children(heap, At) /\ c \in R /\ c # root
      /\ Way \in {"left", "right"}
      /\ Way = "left" => heap[At].left = c /\ heap[At].right # c
      /\ Way = "right" => heap[At].right = c /\ heap[At].left # c
  BY <1>1, <1>2 DEF Candidate, Way, Children, Closed, Tree
<1>4. At \notin Reach(heap, c) /\ At # c
  BY <1>1, <1>3, Acyclic, ReachRoot, ReachWithin, <1>2
<1>5. RemoveNode(heap, c)[At] = heap[At]
  <2>1. Spine(heap, c) \subseteq Reach(heap, c)
    BY <1>1, <1>3, ReachWithin, SpineSteps
  <2> QED
    BY <1>1, <1>4, <2>1 DEF RemoveNode
<1>6. heap'[At] = [heap[At] EXCEPT ![Way] = Unlinked(heap, c), !.key = heap[c].key, !.val = heap[c].val]
  BY <1>1, <1>2, <1>5 DEF RemoveNode
<1>7. \A m \in R \ {At} : /\ heap'[m] = RemoveNode(heap, c)[m]
                          /\ heap[m].left # c /\ heap[m].right # c
  BY <1>1, <1>2, <1>3 DEF RemoveNode, Tree, Children
<1>8. heap[At] \in Node
  BY <1>1, InvNodes DEF Sound
<1>9. /\ heap'[At].left = IF heap[At].left = c THEN Unlinked(heap, c) ELSE heap[At].left
      /\ heap'[At].right = IF heap[At].right = c THEN Unlinked(heap, c) ELSE heap[At].right
      /\ heap'[At].key = heap[c].key /\ heap'[At].val = heap[c].val
  <2> HIDE DEF c
  <2>1. CASE Way = "left"
    BY <1>3, <1>6, <1>8, <2>1 DEF Node
  <2>2. CASE Way = "right"
    BY <1>3, <1>6, <1>8, <2>2 DEF Node
  <2> QED
    BY <1>3, <2>1, <2>2
<1> HIDE DEF c
<1>10. RemovedAt(heap, heap', root, root', c)
  <2>1. root' = IF c = root THEN Unlinked(heap, c) ELSE root
    BY <1>2, <1>3
  <2>2. ASSUME NEW m \in R
        PROVE  /\ heap'[m].left = IF heap[m].left = c THEN Unlinked(heap, c) ELSE RemoveNode(heap, c)[m].left
               /\ heap'[m].right = IF heap[m].right = c THEN Unlinked(heap, c)
                                                      ELSE RemoveNode(heap, c)[m].right
    <3>1. CASE m = At
      BY <1>5, <1>9, <3>1
    <3>2. CASE m # At
      BY <1>7, <3>2
    <3> QED
      BY <3>1, <3>2
  <2> QED
    BY <2>1, <2>2 DEF RemovedAt
<1> HIDE DEF R
<1>11. PICK gone, src : Removes(heap, heap', root, root', c, gone, src)
  BY <1>1, <1>3, <1>10, Removed, Zenon DEF R
<1>12. /\ gone \in Reach(heap, c) /\ gone \in R
       /\ src \in Bijection(R \ {gone}, R \ {c})
       /\ Reach(heap', root') = R \ {gone} /\ Tree(heap', root')
       /\ \A m \in R \ {gone} :
            /\ RemoveNode(heap, c)[m].key = heap[src[m]].key
            /\ RemoveNode(heap, c)[m].val = heap[src[m]].val
            /\ m \notin Reach(heap, c) => src[m] = m
  BY <1>11, Zenon DEF Removes, R
<1>13. At \in R \ {gone} /\ src[At] = At
  BY <1>1, <1>4, <1>12
<1>14. PICK to : Redirects(R, gone, c, At, src, to)
  BY <1>1, <1>3, <1>4, <1>12, <1>13, Redirected
<1>15. \A m \in R \ {gone} : heap'[m].key = heap[to[m]].key /\ heap'[m].val = heap[to[m]].val
  BY <1>7, <1>9, <1>12, <1>14 DEF Redirects
<1>16. Takes(gone, At, to)
  BY <1>2, <1>12, <1>14, <1>15 DEF Takes, R, Redirects
<1> QED
  BY <1>1, <1>12, <1>16 DEF R

\* An insert hangs a leaf with its key on the side of At where the key belongs.
LEMMA Hung ==
  ASSUME Inv, Owned, Inv', InsertAttach
  PROVE  /\ root' = root /\ used' \in Nodes \ Reach(heap, root) /\ At \in Reach(heap, root)
         /\ used' = used + 1
         /\ Reach(heap', root') = Reach(heap, root) \cup {used'} /\ Tree(heap', root')
         /\ \A x \in Reach(heap, root) \cup {Nil} :
              Reach(heap', x) = IF At \in Reach(heap, x) THEN Reach(heap, x) \cup {used'}
                                                         ELSE Reach(heap, x)
         /\ heap'[used'] = Fresh(call.key)
         /\ \A n \in Reach(heap, root) : heap'[n].key = heap[n].key /\ heap'[n].val = heap[n].val
         /\ \A n \in Reach(heap, root), t \in Sides :
              heap'[n][t] = IF n = At /\ t = Side(At, call.key) THEN used' ELSE heap[n][t]
<1> DEFINE R == Reach(heap, root)
           u == used'
           s == Side(At, call.key)
<1>1. /\ Rooted(heap, root) /\ Rooted(heap', root') /\ R \subseteq 1..used /\ R \subseteq Nodes
      /\ Tree(heap, root) /\ At \in R /\ root' = root
      /\ used \in 0..MaxNodes /\ call \in CallType
      /\ \A n \in Nodes : heap[n] \in Node
      /\ heap = [n \in Nodes |-> heap[n]]
  BY HeapRooted, HeapRootedNext, ReachNodes, InvNodes DEF Owned, InsertAttach, Sound
<1>2. /\ u = used + 1 /\ u \in Nodes /\ u \notin R /\ u # At
      /\ heap' = [heap EXCEPT ![u] = Fresh(call.key), ![At][s] = u]
      /\ heap[At][s] = Nil
  BY <1>1, Counting DEF InsertAttach, Alloc
<1>3. s \in Sides /\ Sides = {"left", "right"}
  BY DEF Side, Sides
<1> HIDE DEF s, u
<1>4. /\ heap'[u] = Fresh(call.key)
      /\ heap'[At] = [heap[At] EXCEPT ![s] = u]
      /\ \A n \in R \ {At} : heap'[n] = heap[n]
  BY <1>1, <1>2
<1>5. /\ heap'[u].left = Nil /\ heap'[u].right = Nil
  BY <1>4 DEF Fresh
<1>6. /\ heap'[At].key = heap[At].key /\ heap'[At].val = heap[At].val
      /\ heap'[At][s] = u /\ heap'[At][Rev(s)] = heap[At][Rev(s)]
      /\ \A t \in Sides : heap'[At][t] = IF t = s THEN u ELSE heap[At][t]
  <2>0. heap[At] \in Node
    BY <1>1
  <2>1. CASE s = "left"
    <3>1. heap'[At] = [heap[At] EXCEPT !.left = u]
      BY <1>4, <2>1
    <3> QED
      BY <1>3, <2>0, <2>1, <3>1 DEF Node, Rev
  <2>2. CASE s = "right"
    <3>1. heap'[At] = [heap[At] EXCEPT !.right = u]
      BY <1>4, <2>2
    <3> QED
      BY <1>3, <2>0, <2>2, <3>1 DEF Node, Rev
  <2> QED
    BY <1>3, <2>1, <2>2
<1>7. LinksKept(heap, heap', R \ {At})
  BY <1>4 DEF LinksKept
<1>8. /\ Reach(heap', root) = R \cup {u} /\ Tree(heap', root)
      /\ \A x \in R \cup {Nil} :
           Reach(heap', x) = IF At \in Reach(heap, x) THEN Reach(heap, x) \cup {u} ELSE Reach(heap, x)
  <2>1. LeafHung(heap, heap', R, At, s, u)
    BY <1>1, <1>2, <1>3, <1>5, <1>6, <1>7 DEF LeafHung
  <2>2. Grown(heap, heap', root, At, u)
    BY <1>1, <2>1, Attached
  <2> QED
    BY <2>2 DEF Grown
<1>9. \A n \in R : heap'[n].key = heap[n].key /\ heap'[n].val = heap[n].val
  BY <1>4, <1>6
<1>10. \A n \in R, t \in Sides : heap'[n][t] = IF n = At /\ t = s THEN u ELSE heap[n][t]
  BY <1>4, <1>6
<1> QED
  BY <1>1, <1>2, <1>4, <1>8, <1>9, <1>10 DEF u, s

\* The first key becomes a tree of one leaf.
LEMMA Planted ==
  ASSUME Inv, Owned, Inv', InsertFirst
  PROVE  /\ root = Nil /\ Reach(heap, root) = {} /\ root' = used' /\ used' = used + 1 /\ used' \in Nodes
         /\ heap'[used'] = Fresh(call.key)
         /\ Reach(heap', root') = {used'} /\ Tree(heap', root')
<1>1. /\ used \in 0..MaxNodes /\ heap = [n \in Nodes |-> heap[n]] /\ Rooted(heap', root')
  BY HeapRootedNext, InvNodes
<1>2. /\ used' = used + 1 /\ used' \in Nodes /\ root' = used' /\ root = Nil
      /\ heap' = [heap EXCEPT ![used'] = Fresh(call.key)]
  BY <1>1, Counting DEF InsertFirst, Alloc, Owned
<1>3. heap'[used'] = Fresh(call.key)
  BY <1>1, <1>2
<1>4. Children(heap', used') = {} /\ heap'[used'].left = Nil
  BY <1>3 DEF Children, Fresh
<1>5. Reach(heap', root') = {used'}
  <2>1. Closed(heap', {used'})
    BY <1>4 DEF Closed
  <2>2. Reach(heap', root') \subseteq {used'}
    BY <1>2, <2>1, ReachLeast
  <2>3. used' \in Reach(heap', root')
    BY <1>1, <1>2, ReachRoot, NilNotNode
  <2> QED
    BY <2>2, <2>3
<1>6. Tree(heap', root')
  BY <1>4, <1>5 DEF Tree
<1> QED
  BY <1>2, <1>3, <1>5, <1>6, ReachNil

-----------------------------------------------------------------------------
(***************************************************************************)
(* Where an insert is: the nodes it came past sent it there, and while the *)
(* keys are in order its key can only be below.  TreeInv is inductive.     *)
(***************************************************************************)
\* The nodes above the one an insert is at have other keys, and sent it there.
Path ==
  call.pc = "insert" /\ At # Nil =>
    \A n \in Reach(heap, root), s \in Sides :
      At \in Reach(heap, heap[n][s]) => heap[n].key # call.key /\ Side(n, call.key) = s

\* When the keys are in order, its key is nowhere but below the node it is at.
Found ==
  call.pc = "insert" /\ Sorted =>
    \A n \in Reach(heap, root) : heap[n].key = call.key => n \in Reach(heap, At)

\* The inductive invariant.
TreeInv == Inv /\ Owned /\ Path /\ Found

\* A link of a node leads to one of its children.
LEMMA SideChild ==
  ASSUME NEW h, NEW n, NEW s \in Sides
  PROVE  h[n][s] = Nil \/ h[n][s] \in Children(h, n)
<1>1. CASE s = "left"
  BY <1>1 DEF Children
<1>2. CASE s = "right"
  BY <1>2 DEF Children
<1> QED
  BY <1>1, <1>2 DEF Sides

\* What the order of the keys says.
LEMMA SortedIs ==
  Sorted <=> \A n \in Reach(heap, root) :
               /\ \A m \in Reach(heap, heap[n].left) : heap[n].key < heap[m].key
               /\ \A m \in Reach(heap, heap[n].right) : heap[m].key < heap[n].key
  BY DEF Sorted, Ordered, Rev

\* A call begins at the root, which no node is above.
LEMMA CallTree == ASSUME TreeInv, NEW op \in {"insert", "remove"}, NEW k \in Keys, Call(op, k)
                  PROVE  (Owned /\ Path /\ Found)'
<1>1. /\ Rooted(heap, root) /\ Tree(heap, root) /\ heap' = heap /\ root' = root
      /\ call' = [pc |-> op, at |-> root, key |-> k, ret |-> NoValue]
  BY HeapRooted DEF TreeInv, Owned, Call
<1>2. Owned'
  BY <1>1, ReachRoot DEF Owned, At
<1>3. \A n \in Reach(heap, root), s \in Sides : root \notin Reach(heap, heap[n][s])
  BY <1>1, SideChild, RootOnTop, ReachNil
<1>4. Path'
  BY <1>1, <1>3 DEF Path, At
<1>5. Found'
  BY <1>1 DEF Found, At
<1> QED
  BY <1>2, <1>4, <1>5

\* A call that does not touch the tree, and returns or panics.
LEMMA NoInsertTree ==
  ASSUME TreeInv, UNCHANGED <<heap, root>>, call'.pc \notin {"insert", "remove"}
  PROVE  (Owned /\ Path /\ Found)'
  BY DEF TreeInv, Owned, Path, Found

\* An insert goes down to a child: the nodes above it are those above At, and At.
LEMMA DescendTree ==
  ASSUME TreeInv, InsertDescend
  PROVE  (Owned /\ Path /\ Found)'
<1> DEFINE R == Reach(heap, root)
           s == Side(At, call.key)
           c == heap[At][s]
<1>1. /\ Rooted(heap, root) /\ Tree(heap, root) /\ heap' = heap /\ root' = root
      /\ At \in R /\ At \in Nodes /\ heap[At].key # call.key /\ call.pc = "insert"
      /\ Rooted(heap, At) /\ R \subseteq Nodes /\ Closed(heap, R) /\ At # Nil
      /\ call \in CallType /\ call' = [call EXCEPT !.at = c] /\ c # Nil
      /\ call.ret = NoValue
  BY HeapRooted, ReachNodes, ReachClosed, ReachWithin, NilNotNode, InvNodes DEF TreeInv, Owned, InsertDescend, Goto
<1>2. /\ call'.pc = "insert" /\ At' = c /\ call'.key = call.key /\ call'.ret = NoValue
      /\ \A n : Side(n, call.key)' = Side(n, call.key)
  BY <1>1 DEF CallType, At, Side
<1>3. s \in Sides /\ Sides = {"left", "right"}
  BY DEF Side, Sides
<1>4. c \in Children(heap, At) /\ c \in R /\ Reach(heap, At) \subseteq R
  BY <1>1, <1>3, SideChild, ReachWithin DEF Closed
<1> HIDE DEF s, c
<1>5. Owned'
  BY <1>1, <1>2, <1>4 DEF Owned
<1>6. ASSUME NEW n \in R, NEW t \in Sides, c \in Reach(heap, heap[n][t])
      PROVE  heap[n].key # call.key /\ Side(n, call.key) = t
  <2> DEFINE x == heap[n][t]
  <2>1. x \in Children(heap, n) /\ x \in R
    BY <1>1, <1>6, SideChild, ReachNil DEF Closed
  <2>2. x = c \/ At \in Reach(heap, x)
    <3> HIDE DEF x
    <3>1. c \in Reach(heap, x)
      BY <1>6 DEF x
    <3> QED
      BY <1>1, <1>4, <2>1, <3>1, OwnerBelow
  <2>3. CASE n = At /\ t = s
    BY <1>1, <2>3 DEF s
  <2>4. CASE n = At /\ t # s
    <3>1. Reach(heap, heap[At].left) \cap Reach(heap, heap[At].right) = {}
      BY <1>1, Apart
    <3>2. c \in Reach(heap, c)
      BY <1>1, <1>4, ReachRoot, ReachWithin
    <3>3. c \in Reach(heap, heap[At][t]) /\ c \in Reach(heap, heap[At][s])
      BY <1>6, <2>4, <3>2 DEF c
    <3>4. {t, s} = {"left", "right"}
      BY <1>3, <2>4
    <3>5. CASE t = "left" /\ s = "right"
      BY <3>1, <3>3, <3>5
    <3>6. CASE t = "right" /\ s = "left"
      BY <3>1, <3>3, <3>6
    <3> QED
      BY <3>4, <3>5, <3>6
  <2>5. CASE n # At
    <3>1. x # c
      BY <1>1, <1>4, <2>1, <2>5 DEF Tree
    <3>2. At \in Reach(heap, heap[n][t])
      BY <2>2, <3>1
    <3> QED
      BY <1>1, <3>2 DEF TreeInv, Path
  <2> QED
    BY <2>3, <2>4, <2>5
<1>7. Path'
  BY <1>1, <1>2, <1>6 DEF Path
<1>8. ASSUME Sorted, NEW n \in R, heap[n].key = call.key PROVE n \in Reach(heap, c)
  <2>1. n \in Reach(heap, At) /\ n # At
    BY <1>1, <1>8 DEF TreeInv, Found
  <2>2. n \in Reach(heap, heap[At].left) \/ n \in Reach(heap, heap[At].right)
    BY <1>1, <2>1, ReachUnfold
  <2>3. /\ n \in Reach(heap, heap[At].left) => heap[At].key < call.key
        /\ n \in Reach(heap, heap[At].right) => call.key < heap[At].key
    BY <1>1, <1>8, SortedIs
  <2>4. heap[At].key \in Int /\ call.key \in Int
    BY <1>1, TreeHeapAssumption, InvNodes DEF CallType, TreeInv, Sound, Node
  <2>5. /\ n \in Reach(heap, heap[At].left) => s = "left"
        /\ n \in Reach(heap, heap[At].right) => s = "right"
    BY <2>3, <2>4 DEF s, Side
  <2>6. CASE n \in Reach(heap, heap[At].left)
    BY <2>5, <2>6 DEF c
  <2>7. CASE n \in Reach(heap, heap[At].right)
    BY <2>5, <2>7 DEF c
  <2> QED
    BY <2>2, <2>6, <2>7
<1>9. Found'
  <2>1. Sorted' => Sorted
    BY <1>1 DEF Sorted
  <2> QED
    BY <1>1, <1>2, <1>8, <2>1 DEF Found
<1> QED
  BY <1>5, <1>7, <1>9

\* Every step keeps the tree a tree.
LEMMA TreeStep == TreeInv /\ [Next]_vars => TreeInv'
<1> SUFFICES ASSUME TreeInv, [Next]_vars PROVE TreeInv'
  OBVIOUS
<1>0. Inv /\ Inv' /\ Owned /\ call \in CallType
  BY InvStep, InvNodes DEF TreeInv
<1>1. CASE UNCHANGED vars
  <2>1. heap' = heap /\ root' = root /\ call' = call
    BY <1>1 DEF vars
  <2>2. (Owned /\ Path /\ Found)'
    BY <2>1 DEF TreeInv, Owned, Path, Found, Sorted, At, Side
  <2> QED
    BY <1>0, <2>2 DEF TreeInv
<1>2. ASSUME NEW op \in {"insert", "remove"}, NEW k \in Keys, Call(op, k) PROVE TreeInv'
  BY <1>0, <1>2, CallTree DEF TreeInv
<1>3. CASE InsertFirst
  <2>1. Tree(heap', root') /\ call'.pc = "idle"
    BY <1>0, <1>3, Planted DEF InsertFirst, Return, CallType
  <2> QED
    BY <1>0, <2>1 DEF TreeInv, Owned, Path, Found
<1>4. CASE InsertDescend
  BY <1>0, <1>4, DescendTree DEF TreeInv
<1>5. CASE InsertAttach
  <2>1. Tree(heap', root') /\ call'.pc = "idle"
    BY <1>0, <1>5, Hung DEF InsertAttach, Return, CallType
  <2> QED
    BY <1>0, <2>1 DEF TreeInv, Owned, Path, Found
<1>6. CASE InsertPresent \/ InsertNoMemory \/ RemoveNothing
  <2>1. UNCHANGED <<heap, root>> /\ call'.pc \notin {"insert", "remove"}
    BY <1>0, <1>6 DEF InsertPresent, InsertNoMemory, RemoveNothing, Return, CallType
  <2> QED
    BY <1>0, <2>1, NoInsertTree DEF TreeInv
<1>7. CASE RemoveRoot \/ RemoveChild
  <2>1. PICK gone, lost, src : Takes(gone, lost, src)
    BY <1>0, <1>7, RootTaken, ChildTaken
  <2>2. call'.pc = "idle"
    BY <1>0, <1>7 DEF RemoveRoot, RemoveChild, Return, CallType
  <2> QED
    BY <1>0, <2>1, <2>2 DEF Takes, TreeInv, Owned, Path, Found
<1>8. CASE RemoveDescend
  <2>1. /\ heap' = heap /\ root' = root /\ Rooted(heap, root)
        /\ At \in Reach(heap, root) /\ Candidate # Nil /\ call.ret = NoValue
        /\ call' = [call EXCEPT !.at = Candidate]
        /\ call.pc = "remove"
    BY <1>0, <1>8, HeapRooted DEF RemoveDescend, Searching, Goto, Owned
  <2>2. Candidate \in Children(heap, At)
    BY <2>1 DEF Candidate, Way, Children
  <2>3. Candidate \in Reach(heap, root)
    BY <2>1, <2>2, ReachClosed DEF Closed
  <2>4. call'.pc = "remove" /\ At' = Candidate /\ call'.ret = NoValue
    BY <1>0, <2>1 DEF CallType, At
  <2>5. Owned'
    BY <1>0, <2>1, <2>3, <2>4 DEF Owned
  <2> QED
    BY <1>0, <2>4, <2>5 DEF TreeInv, Path, Found
<1>9. CASE DropTree
  <2>1. root' = Nil /\ call'.pc = "dropped"
    BY <1>0, <1>9 DEF DropTree, CallType
  <2>2. Tree(heap', root')
    BY <2>1, ReachNil DEF Tree
  <2> QED
    BY <1>0, <2>1, <2>2 DEF TreeInv, Owned, Path, Found
<1> QED
  BY <1>1, <1>2, <1>3, <1>4, <1>5, <1>6, <1>7, <1>8, <1>9, RemovableAssumption DEF Next, Insert, Remove

-----------------------------------------------------------------------------
(***************************************************************************)
(* What follows from TreeInv: dropping frees no node twice, what a removal *)
(* takes and forgets, the order, and the dictionary.                       *)
(***************************************************************************)
\* An empty tree to begin with.
LEMMA InitTree == Init => TreeInv
<1> SUFFICES ASSUME Init PROVE TreeInv
  OBVIOUS
<1>1. root = Nil /\ call.pc = "idle"
  BY DEF Init
<1> QED
  BY <1>1, InitInv, ReachNil DEF TreeInv, Owned, Path, Found, Tree

\* In every state the nodes form a tree, and a call is where its key belongs
\* (binary_search_tree.rs:92-159).
THEOREM StaysTree == Spec => []TreeInv
  BY InitTree, TreeStep, PTL DEF Spec

\* No node is reached by two links, so that dropping the tree frees none twice,
\* however many removals have copied nodes over others
\* (binary_search_tree.rs:171-180).
THEOREM NothingFreedTwice == Spec => []DropFreesOnce
<1>1. TreeInv => DropFreesOnce
  BY SoleOwnerTree DEF TreeInv, Owned, DropFreesOnce
<1> QED
  BY <1>1, StaysTree, PTL

\* How often a pair is among the nodes of a set.
Holding(h, S, e) == {n \in S : <<h[n].key, h[n].val>> = e}

\* A heap whose nodes that are reached hold the same pairs as before but for one.
LEMMA StockTaken ==
  ASSUME Inv, Inv', NEW gone \in Reach(heap, root), NEW lost \in Reach(heap, root), NEW src,
         Takes(gone, lost, src)
  PROVE  \E e \in Keys \X Values : /\ Stock[e] > 0 /\ e[2] = call'.ret
                                  /\ Stock' = [Stock EXCEPT ![e] = @ - 1]
<1> DEFINE R == Reach(heap, root)
           S == R \ {gone}
           q == <<heap[lost].key, heap[lost].val>>
           P == Keys \X Values
<1>1. R \subseteq Nodes /\ IsFiniteSet(R) /\ IsFiniteSet(Nodes)
  BY ReachNodes, NodesFinite, FS_Subset
<1>2. /\ src \in Bijection(S, R \ {lost}) /\ Reach(heap', root') = S
      /\ \A m \in S : heap'[m].key = heap[src[m]].key /\ heap'[m].val = heap[src[m]].val
      /\ call'.ret = heap[lost].val
  BY DEF Takes
<1>3. heap[lost] \in Node
  BY <1>1, InvNodes DEF Sound
<1>4. q \in P /\ q[2] = call'.ret
  BY <1>2, <1>3 DEF Node
<1>5. ASSUME NEW e \in P
      PROVE  Cardinality(Holding(heap', S, e)) = IF e = q THEN Cardinality(Holding(heap, R, e)) - 1
                                                        ELSE Cardinality(Holding(heap, R, e))
  <2>1. Holding(heap', S, e) \in SUBSET S /\ Holding(heap, R, e) \in SUBSET R
    BY DEF Holding
  <2>2. \A m \in S : m \in Holding(heap', S, e) <=> src[m] \in Holding(heap, R, e)
    <3>1. \A m \in S : src[m] \in R
      BY <1>2, BijectionIs
    <3> QED
      BY <1>2, <3>1 DEF Holding
  <2>3. lost \in Holding(heap, R, e) <=> e = q
    BY DEF Holding
  <2> DEFINE A == Holding(heap', S, e)
             B == Holding(heap, R, e)
  <2>4. /\ IsFiniteSet(R) /\ gone \in R /\ lost \in R
        /\ src \in Bijection(R \ {gone}, R \ {lost})
        /\ A \in SUBSET (R \ {gone}) /\ B \in SUBSET R
        /\ \A m \in R \ {gone} : m \in A <=> src[m] \in B
    BY <1>1, <1>2, <2>1, <2>2
  <2> HIDE DEF S, R, q, A, B
  <2>5. Cardinality(A) = IF lost \in B THEN Cardinality(B) - 1 ELSE Cardinality(B)
    BY <2>4, Counted
  <2> QED
    BY <2>3, <2>5 DEF A, B
<1>6. Stock = [e \in P |-> Cardinality(Holding(heap, R, e))]
  BY DEF Stock, Holding
<1>7. Stock' = [e \in P |-> Cardinality(Holding(heap', S, e))]
  BY <1>2 DEF Stock, Holding
<1>8. Stock[q] > 0
  <2>1. lost \in Holding(heap, R, q) /\ IsFiniteSet(Holding(heap, R, q))
    BY <1>1, FS_Subset DEF Holding
  <2>2. Cardinality(Holding(heap, R, q)) \in Nat /\ Cardinality(Holding(heap, R, q)) # 0
    BY <2>1, FS_EmptySet, FS_CardinalityType
  <2> QED
    BY <1>4, <1>6, <2>2
<1> HIDE DEF P, q, S
<1>9. Stock' = [Stock EXCEPT ![q] = @ - 1]
  BY <1>4, <1>5, <1>6, <1>7
<1> QED
  BY <1>4, <1>8, <1>9 DEF P

\* What RemoveTakesOne says of a step.
Takings ==
  call.pc = "remove" /\ call'.pc = "idle" =>
       IF call'.ret = NoValue
       THEN Stock' = Stock
       ELSE \E e \in Keys \X Values : /\ Stock[e] > 0 /\ e[2] = call'.ret
                                     /\ Stock' = [Stock EXCEPT ![e] = @ - 1]

\* No value is mistaken for None.
LEMMA ValueNotNone == NoValue \notin Values
  BY DEF NoValue, Values, Value

\* Only three actions return from remove.
LEMMA TakingStep == TreeInv /\ [Next]_vars => Takings
<1> SUFFICES ASSUME TreeInv, [Next]_vars, call.pc = "remove", call'.pc = "idle" PROVE Takings
  BY DEF Takings
<1>0. Inv /\ Inv' /\ Owned /\ call \in CallType
  BY InvStep, InvNodes DEF TreeInv
<1>1. CASE RemoveNothing
  <2>1. heap' = heap /\ root' = root /\ call'.ret = NoValue
    BY <1>0, <1>1 DEF RemoveNothing, Return, CallType
  <2> QED
    BY <2>1 DEF Takings, Stock
<1>2. CASE RemoveRoot \/ RemoveChild
  <2>1. PICK gone \in Reach(heap, root), lost \in Reach(heap, root) : \E src : Takes(gone, lost, src)
    BY <1>0, <1>2, RootTaken, ChildTaken
  <2>2. PICK src : Takes(gone, lost, src)
    BY <2>1
  <2>3. call'.ret # NoValue
    <3>1. heap[lost].val \in Values
      BY <1>0, InvNodes, ReachNodes DEF Sound, Node
    <3> QED
      BY <2>2, <3>1, ValueNotNone DEF Takes
  <2> QED
    BY <1>0, <2>2, <2>3, StockTaken DEF Takings
<1>3. RemoveNothing \/ RemoveRoot \/ RemoveChild
  <2>1. ~UNCHANGED vars
    BY DEF vars
  <2> QED
    BY <1>0, <2>1 DEF Next, Call, Insert, Remove, InsertFirst, InsertDescend, InsertAttach, InsertPresent,
           InsertNoMemory, RemoveDescend, DropTree, Goto, CallType
<1> QED
  BY <1>1, <1>2, <1>3

\* A removal takes out one pair or none, and returns the value of the pair
\* that is gone (binary_search_tree.rs:134-159).
THEOREM RemovalTakesOne == Spec => RemoveTakesOne
<1>1. TreeInv /\ [Next]_vars => Takings
  BY TakingStep
<1> QED
  BY <1>1, StaysTree, PTL DEF Spec, RemoveTakesOne, Takings

\* The steps that change no node.
LEMMA Otherwise ==
  ASSUME TreeInv, Next
  PROVE  \/ InsertFirst \/ InsertAttach \/ RemoveRoot \/ RemoveChild \/ DropTree
         \/ /\ UNCHANGED <<heap, root, used>> /\ call.pc # "dropped" /\ call'.pc # "dropped"
            /\ call.pc = "remove" => call'.ret = NoValue
<1>0. call \in CallType /\ Owned
  BY InvNodes DEF TreeInv
<1>1. ASSUME NEW op \in {"insert", "remove"}, NEW k \in Keys, Call(op, k)
      PROVE  /\ UNCHANGED <<heap, root, used>> /\ call.pc = "idle" /\ call'.pc = op
  BY <1>0, <1>1 DEF Call
<1>2. CASE InsertDescend
  BY <1>0, <1>2 DEF InsertDescend, Goto, CallType
<1>3. CASE InsertPresent \/ InsertNoMemory
  BY <1>0, <1>3 DEF InsertPresent, InsertNoMemory, Return, CallType
<1>4. CASE RemoveDescend
  BY <1>0, <1>4 DEF RemoveDescend, Searching, Goto, Owned, CallType
<1>5. CASE RemoveNothing
  BY <1>0, <1>5 DEF RemoveNothing, Return, CallType
<1> QED
  BY <1>1, <1>2, <1>3, <1>4, <1>5, RemovableAssumption DEF Next, Insert, Remove

\* What RemoveForgetsOneNode says of a step.
Forgets ==
  call'.pc # "dropped" =>
       /\ Forgotten \subseteq Forgotten'
       /\ Cardinality(Forgotten' \ Forgotten) =
            IF call.pc = "remove" /\ call'.ret # NoValue THEN 1 ELSE 0

\* A removal forgets the node at the end of the way; a new node is reached.
LEMMA ForgetsStep == TreeInv /\ Next => Forgets
<1> SUFFICES ASSUME TreeInv, Next, call'.pc # "dropped" PROVE Forgets
  BY DEF Forgets
<1>0. /\ Inv /\ Inv' /\ Owned /\ call \in CallType /\ Reach(heap, root) \subseteq 1..used
      /\ used \in Nat
  BY InvStep, InvNodes, HeapRooted DEF TreeInv, Inv, TypeOK
<1>1. CASE /\ UNCHANGED <<heap, root, used>>
           /\ call.pc = "remove" => call'.ret = NoValue
  BY <1>1, FS_EmptySet DEF Forgets, Forgotten
<1>2. ASSUME used' = used + 1, Reach(heap', root') = Reach(heap, root) \cup {used'}, call.pc = "insert"
      PROVE  Forgets
  <2>1. Forgotten' = Forgotten
    BY <1>0, <1>2 DEF Forgotten
  <2> QED
    BY <1>2, <2>1, FS_EmptySet DEF Forgets
<1>3. CASE InsertFirst
  BY <1>0, <1>2, <1>3, Planted DEF InsertFirst
<1>4. CASE InsertAttach
  BY <1>0, <1>2, <1>4, Hung DEF InsertAttach
<1>5. CASE RemoveRoot \/ RemoveChild
  <2>1. PICK gone \in Reach(heap, root), lost \in Reach(heap, root) : \E src : Takes(gone, lost, src)
    BY <1>0, <1>5, RootTaken, ChildTaken
  <2>2. call'.ret # NoValue
    <3>1. heap[lost].val \in Values
      BY <1>0, InvNodes, ReachNodes DEF Sound, Node
    <3> QED
      BY <2>1, <3>1, ValueNotNone DEF Takes
  <2>3. Forgotten' = Forgotten \cup {gone} /\ gone \notin Forgotten
    BY <1>0, <1>5, <2>1 DEF Takes, Forgotten, RemoveRoot, RemoveChild
  <2>4. Forgotten' \ Forgotten = {gone}
    BY <2>3
  <2>5. Cardinality({gone}) = 1
    BY FS_Singleton
  <2> QED
    BY <1>5, <2>2, <2>3, <2>4, <2>5 DEF Forgets, RemoveRoot, RemoveChild, Searching
<1>6. ~DropTree
  BY <1>0 DEF DropTree, CallType
<1> QED
  BY <1>1, <1>3, <1>4, <1>5, <1>6, Otherwise

\* The memory a removal leaks is one node, and no other step cuts a node off
\* (binary_search_tree.rs:190-192, 212-225).
THEOREM RemovalForgetsOneNode == Spec => RemoveForgetsOneNode
<1>1. TreeInv /\ [Next]_vars => Forgets \/ UNCHANGED vars
  BY ForgetsStep
<1> QED
  BY <1>1, StaysTree, PTL DEF Spec, RemoveForgetsOneNode, Forgets

\* Side, of two keys.
Toward(a, b) == IF a < b THEN "left" ELSE "right"

\* What the order of the keys says, with the sides named.
LEMMA SortedSides ==
  ASSUME Inv
  PROVE  Sorted <=> \A n \in Reach(heap, root), s \in Sides :
                      \A m \in Reach(heap, heap[n][s]) :
                        heap[n].key # heap[m].key /\ Toward(heap[n].key, heap[m].key) = s
<1>1. \A n \in Nodes : heap[n].key \in Int
  BY InvNodes, TreeHeapAssumption DEF Sound, Node
<1>2. \A n : Reach(heap, n) \subseteq Nodes
  BY ReachNodes
<1>3. \A n \in Reach(heap, root) :
        /\ \A m \in Reach(heap, heap[n].left) :
             heap[n].key < heap[m].key <=> heap[n].key # heap[m].key /\ Toward(heap[n].key, heap[m].key) = "left"
        /\ \A m \in Reach(heap, heap[n].right) :
             heap[m].key < heap[n].key <=> heap[n].key # heap[m].key /\ Toward(heap[n].key, heap[m].key) = "right"
  BY <1>1, <1>2 DEF Toward
<1> QED
  BY <1>3, SortedIs DEF Sides

\* The same of the state after a step.
LEMMA SortedSidesNext ==
  Inv' => (Sorted' <=> \A n \in Reach(heap', root'), s \in Sides :
                         \A m \in Reach(heap', heap'[n][s]) :
                           heap'[n].key # heap'[m].key /\ Toward(heap'[n].key, heap'[m].key) = s)
<1>1. Inv => (Sorted <=> \A n \in Reach(heap, root), s \in Sides :
                      \A m \in Reach(heap, heap[n][s]) :
                        heap[n].key # heap[m].key /\ Toward(heap[n].key, heap[m].key) = s)
  BY SortedSides
<1>2. Inv' => (Sorted <=> \A n \in Reach(heap, root), s \in Sides :
                      \A m \in Reach(heap, heap[n][s]) :
                        heap[n].key # heap[m].key /\ Toward(heap[n].key, heap[m].key) = s)'
  BY <1>1, PTL
<1> QED
  BY <1>2

\* The new node is on the side of its key of every node above it.
LEMMA AttachKeepsOrder ==
  ASSUME TreeInv, Inv', InsertAttach, Sorted
  PROVE  Sorted'
<1> DEFINE R == Reach(heap, root)
           k == call.key
           u == used'
<1>1. /\ root' = root /\ u \in Nodes \ R /\ At \in R
      /\ Reach(heap', root') = R \cup {u}
      /\ \A x \in R \cup {Nil} :
           Reach(heap', x) = IF At \in Reach(heap, x) THEN Reach(heap, x) \cup {u} ELSE Reach(heap, x)
      /\ heap'[u] = Fresh(k)
      /\ \A n \in R : heap'[n].key = heap[n].key /\ heap'[n].val = heap[n].val
      /\ \A n \in R, t \in Sides :
           heap'[n][t] = IF n = At /\ t = Side(At, k) THEN u ELSE heap[n][t]
  BY Hung DEF TreeInv
<1>2. heap'[u].left = Nil /\ heap'[u].right = Nil /\ heap'[u].key = k
  BY <1>1 DEF Fresh
<1>3. /\ Rooted(heap, root) /\ Closed(heap, R) /\ Reach(heap', u) = {u}
      /\ \A n \in R, t \in Sides : heap[n][t] \in R \cup {Nil}
      /\ \A x \in R \cup {Nil} : Reach(heap, x) \subseteq R
  <2>1. Rooted(heap, root) /\ Closed(heap, R)
    BY HeapRooted, ReachClosed DEF TreeInv
  <2>2. Reach(heap', u) = {u}
    <3>1. Rooted(heap', u)
      BY <1>1, HeapRootedNext DEF Rooted
    <3> QED
      BY <1>1, <1>2, <3>1, ReachUnfold, ReachNil
  <2> QED
    BY <2>1, <2>2, SideChild, ReachWithin DEF Closed
<1>4. /\ At # Nil /\ call.pc = "insert" /\ heap[At].key # k /\ heap[At][Side(At, k)] = Nil
  BY DEF InsertAttach
<1>5. ASSUME NEW n \in R, NEW t \in Sides, NEW m \in Reach(heap', heap'[n][t])
      PROVE  \/ m \in Reach(heap, heap[n][t]) /\ m \in R
             \/ m = u /\ heap[n].key # k /\ Side(n, k) = t
  <2>1. CASE n = At /\ t = Side(At, k)
    BY <1>1, <1>3, <1>4, <1>5, <2>1
  <2>2. CASE ~(n = At /\ t = Side(At, k))
    <3>1. heap'[n][t] = heap[n][t] /\ heap[n][t] \in R \cup {Nil}
      BY <1>1, <1>3, <2>2
    <3>2. CASE m \in Reach(heap, heap[n][t])
      BY <1>3, <3>1, <3>2
    <3>3. CASE m \notin Reach(heap, heap[n][t])
      <4>1. At \in Reach(heap, heap[n][t]) /\ m = u
        BY <1>1, <1>5, <3>1, <3>3
      <4> QED
        BY <1>4, <4>1 DEF TreeInv, Path
    <3> QED
      BY <3>2, <3>3
  <2> QED
    BY <2>1, <2>2
<1>6. ASSUME NEW n \in R, NEW t \in Sides, NEW m \in Reach(heap', heap'[n][t])
      PROVE  heap'[n].key # heap'[m].key /\ Toward(heap'[n].key, heap'[m].key) = t
  <2>1. CASE m \in Reach(heap, heap[n][t]) /\ m \in R
    <3>1. heap[n].key # heap[m].key /\ Toward(heap[n].key, heap[m].key) = t
      BY <2>1, SortedSides DEF TreeInv
    <3>2. heap'[n].key = heap[n].key /\ heap'[m].key = heap[m].key
      BY <1>1, <2>1
    <3> QED
      BY <3>1, <3>2
  <2>2. CASE m = u /\ heap[n].key # k /\ Side(n, k) = t
    <3>1. heap'[n].key = heap[n].key /\ heap'[m].key = k
      BY <1>1, <1>2, <2>2
    <3> QED
      BY <2>2, <3>1 DEF Side, Toward
  <2> QED
    BY <1>5, <2>1, <2>2
<1>7. \A t \in Sides : Reach(heap', heap'[u][t]) = {}
  BY <1>2, ReachNil DEF Sides
<1> QED
  BY <1>1, <1>6, <1>7, SortedSidesNext

\* What InsertKeepsOrder says of a step.
InsertKeeps == call.pc = "insert" /\ Sorted => Sorted'

\* The other steps of an insert change no node.
LEMMA InsertKeepsStep == TreeInv /\ Next => InsertKeeps
<1> SUFFICES ASSUME TreeInv, Next, call.pc = "insert", Sorted PROVE Sorted'
  BY DEF InsertKeeps
<1>0. Inv /\ Inv' /\ Owned
  BY InvStep DEF TreeInv
<1>1. CASE InsertFirst
  <2>1. Reach(heap', root') = {used'} /\ heap'[used'].left = Nil /\ heap'[used'].right = Nil
    BY <1>0, <1>1, Planted DEF Fresh
  <2>2. \A t \in Sides : Reach(heap', heap'[used'][t]) = {}
    BY <2>1, ReachNil DEF Sides
  <2> QED
    BY <1>0, <2>1, <2>2, SortedSidesNext
<1>2. CASE InsertAttach
  BY <1>0, <1>2, AttachKeepsOrder
<1>3. CASE UNCHANGED <<heap, root>>
  BY <1>3 DEF Sorted
<1> QED
  BY <1>1, <1>2, <1>3, Otherwise DEF RemoveRoot, RemoveChild, DropTree, Searching

\* No insert puts a sorted tree out of order (binary_search_tree.rs:92-132).
THEOREM InsertsKeepOrder == Spec => InsertKeepsOrder
<1>1. TreeInv /\ [Next]_vars => InsertKeeps \/ UNCHANGED vars
  BY InsertKeepsStep
<1> QED
  BY <1>1, StaysTree, PTL DEF Spec, InsertKeepsOrder, InsertKeeps

\* The key of an insert that finds a place in an ordered tree is new.
LEMMA KeyNew ==
  ASSUME TreeInv, InsertAttach, Sorted
  PROVE  \A n \in Reach(heap, root) : heap[n].key # call.key
<1> SUFFICES ASSUME NEW n \in Reach(heap, root), heap[n].key = call.key PROVE FALSE
  OBVIOUS
<1>1. /\ call.pc = "insert" /\ At # Nil /\ heap[At].key # call.key
      /\ heap[At][Side(At, call.key)] = Nil /\ At \in Reach(heap, root) /\ At \in Nodes
      /\ Rooted(heap, At)
  BY HeapRooted, ReachNodes, ReachWithin DEF InsertAttach, TreeInv, Owned
<1>2. n \in Reach(heap, At)
  BY <1>1 DEF TreeInv, Found
<1>3. n \in Reach(heap, heap[At].left) \/ n \in Reach(heap, heap[At].right)
  BY <1>1, <1>2, ReachUnfold
<1>4. PICK s \in Sides : n \in Reach(heap, heap[At][s])
  BY <1>3 DEF Sides
<1>5. Side(At, call.key) = s
  BY <1>1, <1>4, SortedSides DEF TreeInv, Side, Toward
<1> QED
  BY <1>1, <1>4, <1>5, ReachNil

\* What RefinesDictionary says of a step.
RefinesStep == call.pc = "remove" \/ ~Sorted \/ UNCHANGED D!dvars \/ D!DNext

\* Each step but those of remove is one of the dictionary, or changes no pair.
LEMMA DictionaryStep == TreeInv /\ Next => RefinesStep
<1> SUFFICES ASSUME TreeInv, Next, call.pc # "remove", Sorted PROVE RefinesStep
  BY DEF RefinesStep
<1> DEFINE e == <<call.key, Value(call.key)>>
           E == Entries(heap, root)
<1>0. Inv /\ Inv' /\ Owned /\ call \in CallType
  BY InvStep, InvNodes DEF TreeInv
<1>1. ASSUME Entries(heap', root') = E \cup {e}, \A f \in E : f[1] # e[1],
             call.pc # "dropped", call'.pc # "dropped"
      PROVE  RefinesStep
  <2>1. e \in {<<k, Value(k)>> : k \in Keys}
    BY <1>0 DEF CallType
  <2>2. D!DInsert(e)
    BY <1>1 DEF D!DInsert
  <2> QED
    BY <2>1, <2>2 DEF RefinesStep, D!DNext
<1>2. CASE InsertFirst
  <2>1. /\ Reach(heap, root) = {} /\ Reach(heap', root') = {used'} /\ heap'[used'] = Fresh(call.key)
    BY <1>0, <1>2, Planted
  <2>2. E = {} /\ Entries(heap', root') = {e}
    BY <2>1 DEF Entries, Fresh
  <2>3. call.pc # "dropped" /\ call'.pc # "dropped"
    BY <1>0, <1>2 DEF InsertFirst, Return, CallType
  <2> QED
    BY <1>1, <2>2, <2>3
<1>3. CASE InsertAttach
  <2>1. /\ used' \notin Reach(heap, root)
        /\ Reach(heap', root') = Reach(heap, root) \cup {used'} /\ heap'[used'] = Fresh(call.key)
        /\ \A n \in Reach(heap, root) : heap'[n].key = heap[n].key /\ heap'[n].val = heap[n].val
    BY <1>0, <1>3, Hung
  <2>2. Entries(heap', root') = E \cup {e}
    BY <2>1 DEF Entries, Fresh
  <2>3. \A f \in E : f[1] # e[1]
    BY <1>3, KeyNew DEF Entries
  <2>4. call.pc # "dropped" /\ call'.pc # "dropped"
    BY <1>0, <1>3 DEF InsertAttach, Return, CallType
  <2> QED
    BY <1>1, <2>2, <2>3, <2>4
<1>4. CASE DropTree
  <2>1. root' = Nil /\ call.pc # "dropped" /\ call'.pc = "dropped"
    BY <1>0, <1>4 DEF DropTree, CallType
  <2>2. Entries(heap', root') = {}
    BY <2>1, ReachNil DEF Entries
  <2> QED
    BY <2>1, <2>2 DEF RefinesStep, D!DNext, D!DDrop
<1>5. CASE UNCHANGED <<heap, root>> /\ call.pc # "dropped" /\ call'.pc # "dropped"
  BY <1>5 DEF RefinesStep, D!dvars
<1> QED
  BY <1>2, <1>3, <1>4, <1>5, Otherwise DEF RemoveRoot, RemoveChild, Searching

\* While its keys are in order, and but for remove, the tree implements the
\* dictionary: a key is inserted once, and no pair is lost
\* (binary_search_tree.rs:92-132).
THEOREM IsDictionary == Spec => RefinesDictionary
<1>1. Init => D!DInit
  BY ReachNil DEF Init, D!DInit, Entries
<1>2. TreeInv /\ [Next]_vars => RefinesStep \/ UNCHANGED vars
  BY DictionaryStep
<1> QED
  BY <1>1, <1>2, StaysTree, PTL DEF Spec, RefinesDictionary, RefinesStep

\* A descent leaves the node it was at behind.
Descends ==
  call.pc \in {"insert", "remove"} /\ call'.pc = call.pc =>
    Reach(heap, call'.at) \subseteq Reach(heap, At) \ {At}

\* The next node of a descent is a child, from which no link leads back.
LEMMA DescendsStep == TreeInv /\ Next => Descends
<1> SUFFICES ASSUME TreeInv, Next, call.pc \in {"insert", "remove"}, call'.pc = call.pc
             PROVE  Reach(heap, call'.at) \subseteq Reach(heap, At) \ {At}
  BY DEF Descends
<1>0. Inv /\ Owned /\ call \in CallType
  BY InvNodes DEF TreeInv
<1>1. InsertDescend \/ RemoveDescend
  <2>1. ASSUME NEW op, NEW k, Call(op, k)
        PROVE  FALSE
    BY <2>1 DEF Call
  <2>2. ~InsertFirst /\ ~InsertAttach /\ ~InsertNoMemory /\ ~RemoveRoot /\ ~RemoveChild /\ ~RemoveNothing
    BY <1>0 DEF InsertFirst, InsertAttach, InsertNoMemory, RemoveRoot, RemoveChild, RemoveNothing,
                Return, CallType
  <2>3. ~InsertPresent /\ ~DropTree
    BY <1>0 DEF InsertPresent, DropTree, CallType
  <2> QED BY <2>1, <2>2, <2>3 DEF Next, Insert, Remove
<1>2. At # Nil /\ At \in Reach(heap, root) /\ call'.at \in Children(heap, At)
  <2>1. CASE InsertDescend
    <3>1. call'.at = heap[At][Side(At, call.key)] /\ call'.at # Nil /\ At # Nil
      BY <1>0, <2>1 DEF InsertDescend, Goto, CallType
    <3> QED BY <1>0, <3>1, SideChild DEF Side, Sides, Owned
  <2>2. CASE RemoveDescend
    <3>1. call'.at = heap[At][Way] /\ call'.at # Nil /\ At # Nil
      BY <1>0, <2>2 DEF RemoveDescend, Searching, Candidate, Goto, CallType
    <3> QED BY <1>0, <3>1, SideChild DEF Way, Sides, Owned
  <2> QED BY <1>1, <2>1, <2>2
<1>3. Rooted(heap, root) /\ Tree(heap, root)
  BY <1>0, HeapRooted DEF Owned
<1>4. Rooted(heap, At) /\ At \in Nodes
  BY <1>2, <1>3, ReachWithin, ReachNodes
<1>5. call'.at \in Reach(heap, At)
  BY <1>2, <1>4, ReachRoot, ReachClosed, NilNotNode DEF Closed
<1>6. Reach(heap, call'.at) \subseteq Reach(heap, At)
  BY <1>4, <1>5, ReachWithin
<1>7. At \notin Reach(heap, call'.at)
  BY <1>2, <1>3, Acyclic
<1> QED
  BY <1>6, <1>7

\* The recursive calls of insert and remove go down, however many removals have
\* copied nodes over others: what is below the next node is part of what was
\* below the last one, so that the calls end (binary_search_tree.rs:92-159).
THEOREM DescentsShrink == Spec => [][Descends]_vars
<1>1. TreeInv /\ [Next]_vars => Descends \/ UNCHANGED vars
  BY DescendsStep
<1> QED
  BY <1>1, StaysTree, PTL DEF Spec
=============================================================================
