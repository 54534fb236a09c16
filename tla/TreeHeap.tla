------------------------------ MODULE TreeHeap ------------------------------
(***************************************************************************)
(* The memory both search trees work on: nodes at addresses, linked by raw *)
(* pointers.  The operators say what is reached from a root, and what      *)
(* remove_node does, whose code the two trees share word for word.         *)
(***************************************************************************)
EXTENDS Integers, FiniteSets

CONSTANTS Keys,      \* the keys, in the order Ord gives them
          MaxNodes   \* bound: allocations

ASSUME TreeHeapAssumption == /\ Keys \subseteq Int /\ Keys # {}
                             /\ MaxNodes \in Nat

Nil == 0
Nodes == 1..MaxNodes

\* The value every caller stores under a key, format!("test {}", i).
Value(k) == <<"test", k>>
NoValue == <<"none">>
Values == {Value(k) : k \in Keys}

Sides == {"left", "right"}
Rev(s) == IF s = "left" THEN "right" ELSE "left"

Children(h, n) == {h[n].left, h[n].right} \ {Nil}

\* The nodes an owner with link r reaches in heap h by at most i links.
Within(h, r) ==
  LET within[i \in 0..MaxNodes] ==
        IF i = 0 THEN {r} \ {Nil} ELSE UNION {{n} \cup Children(h, n) : n \in within[i - 1]}
  IN  within

Reach(h, r) == Nodes \cap Within(h, r)[MaxNodes]

\* The pairs get can find: it looks at every node, whatever the order.
Entries(h, r) == {<<h[n].key, h[n].val>> : n \in Reach(h, r)}

\* Dropping the tree drops the target of every link that is reached: no node
\* is freed twice as long as no two of these links are equal.
SoleOwner(h, r) ==
  LET owned == Reach(h, r)
  IN  /\ \A n, m \in owned : \A s, t \in Sides :
           h[n][s] # Nil /\ h[n][s] = h[m][t] => n = m /\ s = t
      /\ \A n \in owned : r \notin Children(h, n)

\* On side s of every node are larger keys, on the other smaller ones.
Ordered(h, r, s) ==
  \A n \in Reach(h, r) : /\ \A m \in Reach(h, h[n][s]) : h[n].key < h[m].key
                         /\ \A m \in Reach(h, h[n][Rev(s)]) : h[m].key < h[n].key
-----------------------------------------------------------------------------
\* remove_node: the pair of a node with two children is replaced by that of
\* its left child, and so on down to a node with at most one child.
Both(h, n) == h[n].left # Nil /\ h[n].right # Nil
Leaf(h, n) == h[n].left = Nil /\ h[n].right = Nil

\* The links remove_node follows.
Down(h) == [m \in Nodes |-> [left |-> IF Both(h, m) THEN h[m].left ELSE Nil, right |-> Nil]]

Spine(h, n) == Reach(Down(h), n)

\* What is left in the link that led to the node.
Unlinked(h, n) == IF Leaf(h, n) THEN Nil ELSE n

\* Faulty: the keys move up, the values stay.
PullUpKey(h, m) == [h[m] EXCEPT !.key = h[h[m].left].key, !.left = Unlinked(h, h[m].left)]

PullUp(h, m) == [h[m] EXCEPT !.key = h[h[m].left].key,
                             !.val = h[h[m].left].val,
                             !.left = Unlinked(h, h[m].left)]

OnlyChild(h, n) == CHOOSE c \in Children(h, n) : TRUE

\* Faulty: the left link is not overwritten.
CopyKeepingLeft(h, n) == [h[OnlyChild(h, n)] EXCEPT !.left = h[n].left]

\* A node with one child becomes a copy of that child, links and all.
CopyChild(h, n) == h[OnlyChild(h, n)]

RemoveNode(h, n) ==
  [m \in Nodes |->
     IF m \notin Spine(h, n) \/ Leaf(h, m) THEN h[m]
     ELSE IF Both(h, m) THEN PullUp(h, m)
     ELSE CopyChild(h, m)]
=============================================================================
