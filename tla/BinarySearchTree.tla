-------------------------- MODULE BinarySearchTree --------------------------
(***************************************************************************)
(* The tree of binary_search_tree.rs under any sequence of calls.  A call  *)
(* is taken one recursive call at a time.  Larger keys go to the left.     *)
(***************************************************************************)
EXTENDS TreeHeap

CONSTANT Removable  \* the keys the callers may pass to remove

ASSUME RemovableAssumption == Removable \subseteq Keys

VARIABLES root,  \* BinarySearchTree.val
          heap,  \* the nodes
          used,  \* how many nodes have been allocated
          call   \* the call under way: where it is, its key, and what it returns

vars == <<root, heap, used, call>>

Node == [left : Nodes \cup {Nil}, right : Nodes \cup {Nil}, key : Keys, val : Values]
Unallocated == [left |-> Nil, right |-> Nil, key |-> CHOOSE k \in Keys : TRUE,
                val |-> Value(CHOOSE k \in Keys : TRUE)]

Fresh(k) == [left |-> Nil, right |-> Nil, key |-> k, val |-> Value(k)]

Init == /\ root = Nil
        /\ heap = [n \in Nodes |-> Unallocated]
        /\ used = 0
        /\ call = [pc |-> "idle", at |-> Nil, key |-> CHOOSE k \in Keys : TRUE, ret |-> NoValue]

At == call.at
Goto(n) == call' = [call EXCEPT !.at = n]
Return(v) == call' = [call EXCEPT !.pc = "idle", !.at = Nil, !.ret = v]

Call(op, k) == /\ call.pc = "idle"
               /\ call' = [pc |-> op, at |-> root, key |-> k, ret |-> NoValue]
               /\ UNCHANGED <<root, heap, used>>
-----------------------------------------------------------------------------
\* Where a key belongs below a node (Ordering::Less is left).
Side(n, k) == IF heap[n].key < k THEN "left" ELSE "right"

Alloc == /\ used < MaxNodes
         /\ used' = used + 1

InsertFirst ==
  /\ call.pc = "insert" /\ At = Nil
  /\ Alloc
  /\ heap' = [heap EXCEPT ![used'] = Fresh(call.key)]
  /\ root' = used'
  /\ Return(NoValue)

InsertDescend ==
  /\ call.pc = "insert" /\ At # Nil /\ heap[At].key # call.key
  /\ heap[At][Side(At, call.key)] # Nil
  /\ Goto(heap[At][Side(At, call.key)])
  /\ UNCHANGED <<root, heap, used>>

\* Faulty: whatever the side, the new node is linked on the left.
AttachLeft ==
  /\ call.pc = "insert" /\ At # Nil /\ heap[At].key # call.key
  /\ heap[At][Side(At, call.key)] = Nil
  /\ Alloc
  /\ heap' = [heap EXCEPT ![used'] = Fresh(call.key), ![At].left = used']
  /\ Return(NoValue)
  /\ UNCHANGED root

\* Faulty: the new node takes the place of the one that may be there.
AttachInPlace ==
  /\ call.pc = "insert" /\ At # Nil /\ heap[At].key # call.key
  /\ Alloc
  /\ heap' = [heap EXCEPT ![used'] = Fresh(call.key), ![At][Side(At, call.key)] = used']
  /\ Return(NoValue)
  /\ UNCHANGED root

InsertAttach ==
  /\ call.pc = "insert" /\ At # Nil /\ heap[At].key # call.key
  /\ heap[At][Side(At, call.key)] = Nil
  /\ Alloc
  /\ heap' = [heap EXCEPT ![used'] = Fresh(call.key), ![At][Side(At, call.key)] = used']
  /\ Return(NoValue)
  /\ UNCHANGED root

\* panic!("Tried to insert a key that is already present")
InsertPresent ==
  /\ call.pc = "insert" /\ At # Nil /\ heap[At].key = call.key
  /\ call' = [call EXCEPT !.pc = "panicked"]
  /\ UNCHANGED <<root, heap, used>>

\* Faulty: the link is set although there is no node.
LinkNoMemory ==
  /\ call.pc = "insert" /\ At # Nil
  /\ heap[At].key # call.key /\ heap[At][Side(At, call.key)] = Nil
  /\ heap' = [heap EXCEPT ![At][Side(At, call.key)] = used + 1]
  /\ Return(NoValue)
  /\ UNCHANGED <<root, used>>

\* alloc gives null: the pair is dropped and insert returns as if all was well.
InsertNoMemory ==
  /\ call.pc = "insert"
  /\ At # Nil => heap[At].key # call.key /\ heap[At][Side(At, call.key)] = Nil
  /\ Return(NoValue)
  /\ UNCHANGED <<root, heap, used>>
-----------------------------------------------------------------------------
RemoveRoot ==
  /\ call.pc = "remove" /\ At # Nil /\ At = root /\ heap[At].key = call.key
  /\ heap' = RemoveNode(heap, At)
  /\ root' = Unlinked(heap, At)
  /\ Return(heap[At].val)
  /\ UNCHANGED used

\* The only child that TreeNode::remove looks at.
Way == IF heap[At].left # Nil THEN "left" ELSE "right"
Candidate == heap[At][Way]

Searching == call.pc = "remove" /\ At # Nil /\ (At = root => heap[At].key # call.key)

RemoveDescend ==
  /\ Searching /\ Candidate # Nil /\ heap[Candidate].key # call.key
  /\ Goto(Candidate)
  /\ UNCHANGED <<root, heap, used>>

\* Faulty: the pair that was removed is the one whose value is returned.
RemoveChildValue ==
  /\ Searching /\ Candidate # Nil /\ heap[Candidate].key = call.key
  /\ heap' = [RemoveNode(heap, Candidate) EXCEPT ![At][Way] = Unlinked(heap, Candidate),
                                             ![At].key = heap[Candidate].key,
                                             ![At].val = heap[Candidate].val]
  /\ Return(heap[Candidate].val)
  /\ UNCHANGED <<root, used>>

\* The removed pair overwrites that of the node above, whose value is returned.
RemoveChild ==
  /\ Searching /\ Candidate # Nil /\ heap[Candidate].key = call.key
  /\ heap' = [RemoveNode(heap, Candidate) EXCEPT ![At][Way] = Unlinked(heap, Candidate),
                                             ![At].key = heap[Candidate].key,
                                             ![At].val = heap[Candidate].val]
  /\ Return(heap[At].val)
  /\ UNCHANGED <<root, used>>

RemoveNothing ==
  /\ call.pc = "remove" /\ (At # Nil => Searching /\ Candidate = Nil)
  /\ Return(NoValue)
  /\ UNCHANGED <<root, heap, used>>
-----------------------------------------------------------------------------
\* The owner, or a panic that unwinds, drops the tree.
DropTree ==
  /\ call.pc \in {"idle", "panicked"}
  /\ LET owned == Reach(heap, root)
     IN  heap' = [n \in Nodes |-> IF n \in owned THEN Unallocated ELSE heap[n]]
  /\ root' = Nil
  /\ call' = [call EXCEPT !.pc = "dropped"]
  /\ UNCHANGED used
-----------------------------------------------------------------------------
Insert == \/ InsertFirst \/ InsertDescend \/ InsertAttach
          \/ InsertPresent \/ InsertNoMemory
Remove == RemoveRoot \/ RemoveDescend \/ RemoveChild \/ RemoveNothing

Next == \/ \E k \in Keys : Call("insert", k)
        \/ \E k \in Removable : Call("remove", k)
        \/ Insert \/ Remove \/ DropTree

Spec == Init /\ [][Next]_vars
-----------------------------------------------------------------------------
\* Types, and no link leads to memory that was not allocated.
TypeOK == /\ used \in 0..MaxNodes
          /\ root \in 0..used
          /\ heap \in [Nodes -> Node]
          /\ \A n \in Nodes : heap[n].left \in 0..used /\ heap[n].right \in 0..used
          /\ call \in [pc : {"idle", "insert", "remove", "panicked", "dropped"},
                       at : Nodes \cup {Nil}, key : Keys, ret : Values \cup {NoValue}]
          /\ call.pc = "idle" => call.at = Nil

\* How often each pair is in the tree.
Stock == [e \in Keys \X Values |->
            Cardinality({n \in Reach(heap, root) : <<heap[n].key, heap[n].val>> = e})]

\* A value stays with the key it was inserted under, however often the pairs
\* are moved between nodes (binary_search_tree.rs:138-140, 196-198).
PairsStay == \A e \in Entries(heap, root) : e[2] = Value(e[1])

\* No node is reached by two links, so that dropping the tree frees none
\* twice, although nodes are copied over others (binary_search_tree.rs:171-180).
DropFreesOnce == SoleOwner(heap, root)

\* remove takes at most one pair out, and the value it returns is the one of
\* the pair that is gone; when it returns None nothing is gone
\* (binary_search_tree.rs:134-159).
RemoveTakesOne ==
  [][call.pc = "remove" /\ call'.pc = "idle" =>
       IF call'.ret = NoValue
       THEN Stock' = Stock
       ELSE \E e \in Keys \X Values : /\ Stock[e] > 0 /\ e[2] = call'.ret
                                     /\ Stock' = [Stock EXCEPT ![e] = @ - 1]]_vars

Forgotten == (1..used) \ Reach(heap, root)

\* A removal forgets one node, whose memory is never freed, and nothing else
\* does: no insert and no copying of nodes cuts off a subtree, so that the
\* memory lost before the drop is that of the pairs removed
\* (binary_search_tree.rs:190-192, 212-225).
RemoveForgetsOneNode ==
  [][call'.pc # "dropped" =>
       /\ Forgotten \subseteq Forgotten'
       /\ Cardinality(Forgotten' \ Forgotten) =
            IF call.pc = "remove" /\ call'.ret # NoValue THEN 1 ELSE 0]_vars

Sorted == Ordered(heap, root, "left")

\* An insert leaves a sorted tree sorted (binary_search_tree.rs:92-132).
InsertKeepsOrder == [][call.pc = "insert" /\ Sorted => Sorted']_vars

D == INSTANCE Dictionary WITH Pairs <- {<<k, Value(k)>> : k \in Keys},
                              entries <- Entries(heap, root),
                              open <- call.pc # "dropped"

\* But for remove, and as long as the keys are in order, the tree is a
\* dictionary: each insert adds its pair, or panics when the key is present
\* (binary_search_tree.rs:92-132).
RefinesDictionary ==
  D!DInit /\ [][call.pc = "remove" \/ ~Sorted \/ UNCHANGED D!dvars \/ D!DNext]_vars

\* "assert_eq!(tree.remove(&i), Some(format!("test {}", i)))"
\* (binary_search_tree.rs:263): removing a key that is present returns its value.
RemoveReturnsItsValue ==
  [][call.pc = "remove" /\ call'.pc = "idle" =>
       (call.key \in {e[1] : e \in Entries(heap, root)} => call'.ret = Value(call.key))]_vars
=============================================================================
