------------------------------- MODULE RbTree -------------------------------
(***************************************************************************)
(* The tree of rb_tree.rs under any sequence of calls.  An insert descends *)
(* one recursive call at a time, hangs a red node below a leaf and runs    *)
(* the loop of recolor_2, one iteration per action, up towards the root.   *)
(* Removal is the code of binary_search_tree.rs and takes no care of the   *)
(* colours and the parent links.                                           *)
(*                                                                         *)
(* The variable "faults" records the steps after which the tree is no      *)
(* longer what the code takes it for: a rotation to the right below        *)
(* another node leaves that node's link on the old child ("unlinked"); the *)
(* loop of recolor_2, which goes on with whatever is above a rotation,     *)
(* turns twice for a node that is not red ("not_red"); an assert fails in  *)
(* the middle of a rotation ("half_done"); a removal copies nodes with     *)
(* their parent links ("removed"); and a rotation after any of these may   *)
(* follow a link that no longer says where a node hangs ("stale").         *)
(***************************************************************************)
EXTENDS TreeHeap

CONSTANT Removable  \* the keys the callers may pass to remove

ASSUME RemovableAssumption == Removable \subseteq Keys

VARIABLES root,   \* RbTree.val
          heap,   \* the nodes
          used,   \* how many nodes have been allocated
          call,   \* the call under way: where it is, its key, what it returns
          faults  \* history: what has gone wrong so far

vars == <<root, heap, used, call, faults>>

Link == Nodes \cup {Nil}
Colors == {"Red", "Black"}
Node == [parent : Link, left : Link, right : Link, color : Colors, key : Keys, val : Values]
AnyKey == CHOOSE k \in Keys : TRUE

Fresh(p, c, k) == [parent |-> p, left |-> Nil, right |-> Nil, color |-> c,
                   key |-> k, val |-> Value(k)]
Unallocated == Fresh(Nil, "Red", AnyKey)

Init == /\ root = Nil
        /\ heap = [n \in Nodes |-> Unallocated]
        /\ used = 0
        /\ call = [pc |-> "idle", at |-> Nil, key |-> AnyKey, ret |-> NoValue]
        /\ faults = {}

At == call.at
Goto(n) == call' = [call EXCEPT !.at = n]
Return(v) == call' = [call EXCEPT !.pc = "idle", !.at = Nil, !.ret = v]

\* A panic ends the use of the tree, which unwinding drops.  "panicked" is the
\* panic the callers are told of, "failed" an assert of the tree itself.
Panic(pc) == /\ call' = [call EXCEPT !.pc = pc]
             /\ UNCHANGED <<root, heap, used, faults>>

Call(op, k) == /\ call.pc = "idle"
               /\ call' = [pc |-> op, at |-> root, key |-> k, ret |-> NoValue]
               /\ UNCHANGED <<root, heap, used, faults>>
-----------------------------------------------------------------------------
(***************************************************************************)
(* insert, down to the leaf                                                *)
(***************************************************************************)
\* Where a key belongs below a node (Ordering::Less is right).
Side(n, k) == IF heap[n].key < k THEN "right" ELSE "left"

Alloc == /\ used < MaxNodes
         /\ used' = used + 1

InsertFirst ==
  /\ call.pc = "insert" /\ At = Nil
  /\ Alloc
  /\ heap' = [heap EXCEPT ![used'] = Fresh(Nil, "Black", call.key)]
  /\ root' = used'
  /\ Return(NoValue)
  /\ UNCHANGED faults

InsertDescend ==
  /\ call.pc = "insert" /\ At # Nil /\ heap[At].key # call.key
  /\ heap[At][Side(At, call.key)] # Nil
  /\ Goto(heap[At][Side(At, call.key)])
  /\ UNCHANGED <<root, heap, used, faults>>

\* The new node is red; below a red node recolor_2 takes over.
InsertAttach ==
  /\ call.pc = "insert" /\ At # Nil /\ heap[At].key # call.key
  /\ heap[At][Side(At, call.key)] = Nil
  /\ Alloc
  /\ heap' = [heap EXCEPT ![used'] = Fresh(At, "Red", call.key),
                          ![At][Side(At, call.key)] = used']
  /\ IF heap[At].color = "Red" THEN call' = [call EXCEPT !.pc = "recolor", !.at = used']
                               ELSE Return(NoValue)
  /\ UNCHANGED <<root, faults>>

\* panic!("Tried to insert a key that is already present")
InsertPresent ==
  /\ call.pc = "insert" /\ At # Nil /\ heap[At].key = call.key
  /\ Panic("panicked")

\* Faulty: the link is set although there is no node.
LinkNoMemory ==
  /\ call.pc = "insert" /\ At # Nil
  /\ heap[At].key # call.key /\ heap[At][Side(At, call.key)] = Nil
  /\ heap' = [heap EXCEPT ![At][Side(At, call.key)] = used + 1]
  /\ Return(NoValue)
  /\ UNCHANGED <<root, used, faults>>

\* alloc gives null: the pair is dropped and insert returns as if all was well.
InsertNoMemory ==
  /\ call.pc = "insert"
  /\ At # Nil => heap[At].key # call.key /\ heap[At][Side(At, call.key)] = Nil
  /\ Return(NoValue)
  /\ UNCHANGED <<root, heap, used, faults>>
-----------------------------------------------------------------------------
(***************************************************************************)
(* The rotations: node n moves up, its parent becomes its child on side s. *)
(***************************************************************************)
IsChild(h, p, c) == c \in {h[p].left, h[p].right}

\* child_dir, which asserts IsChild
SideOf(h, p, c) == IF h[p].left = c THEN "left" ELSE "right"

\* Faulty: the wrong subtree of the raised node is handed over.
RaiseCrossed(h, n, s) ==
  LET p == h[n].parent
  IN  [m \in Nodes |->
         CASE m = n -> [h[n] EXCEPT !.parent = h[p].parent, ![s] = p, ![Rev(s)] = h[n][s]]
           [] m = p -> [h[p] EXCEPT !.parent = n, ![Rev(s)] = h[n][Rev(s)]]
           [] m = h[n][Rev(s)] -> [h[m] EXCEPT !.parent = p]
           [] OTHER -> h[m]]

Raise(h, n, s) ==
  LET p == h[n].parent
  IN  [m \in Nodes |->
         CASE m = n -> [h[n] EXCEPT !.parent = h[p].parent, ![s] = p]
           [] m = p -> [h[p] EXCEPT !.parent = n, ![Rev(s)] = h[n][s]]
           [] m = h[n][s] -> [h[m] EXCEPT !.parent = p]
           [] OTHER -> h[m]]

\* Faulty: the link of the parent's own parent stays on the parent.
RotLeftUnlinked(h, n) == Raise(h, n, "left")

RotLeft(h, n) ==
  LET p == h[n].parent
      g == h[p].parent
      raised == Raise(h, n, "left")
  IN  IF g = Nil THEN raised ELSE [raised EXCEPT ![g][SideOf(raised, g, p)] = n]

\* The link of the parent's own parent stays on the parent.
RotRight(h, n) == Raise(h, n, "right")

\* What rot_left_par has done when it asserts that n is a right child.
BeginLeft(h, n) ==
  [m \in Nodes |-> CASE m = n -> [h[n] EXCEPT !.left = h[n].parent]
                     [] m = h[n].left -> [h[m] EXCEPT !.parent = h[n].parent]
                     [] OTHER -> h[m]]
-----------------------------------------------------------------------------
(***************************************************************************)
(* recolor_2: an iteration looks at the red node At and its parent.        *)
(***************************************************************************)
Parent == heap[At].parent
Grand == heap[Parent].parent
Uncle == IF heap[Grand].left = Parent THEN heap[Grand].right ELSE heap[Grand].left

Recoloring == call.pc = "recolor"
RedParent == Recoloring /\ Parent # Nil /\ heap[Parent].color = "Red"
HasGrand == RedParent /\ Grand # Nil /\ IsChild(heap, Grand, Parent)
RedUncle == HasGrand /\ Uncle # Nil /\ heap[Uncle].color = "Red"
Rotates == HasGrand /\ ~RedUncle /\ IsChild(heap, Parent, At)

\* Faulty: the root is painted and RbTree.val is not set.
RecolorDoneOldRoot ==
  /\ Recoloring /\ ~RedParent
  /\ heap' = IF Parent = Nil THEN [heap EXCEPT ![At].color = "Black"] ELSE heap
  /\ Return(NoValue)
  /\ UNCHANGED <<root, used, faults>>

\* The loop ends; a node without parent is made the root.
RecolorDone ==
  /\ Recoloring /\ ~RedParent
  /\ IF Parent = Nil
     THEN root' = At /\ heap' = [heap EXCEPT ![At].color = "Black"]
     ELSE UNCHANGED <<root, heap>>
  /\ Return(NoValue)
  /\ UNCHANGED <<used, faults>>

\* panic!("weird state!") or a failed assert of get_sibling or child_dir
RecolorPanic ==
  /\ RedParent
  /\ ~HasGrand \/ (~RedUncle /\ ~IsChild(heap, Parent, At))
  /\ Panic("failed")

\* Faulty: the uncle stays red.
RepaintParentOnly ==
  /\ RedUncle
  /\ LET h == [heap EXCEPT ![Parent].color = "Black"]
     IN  IF heap[Grand].parent = Nil
         THEN heap' = h /\ Return(NoValue)
         ELSE heap' = [h EXCEPT ![Grand].color = "Red"] /\ Goto(Grand)
  /\ UNCHANGED <<root, used, faults>>

\* Faulty: the grandparent stays black, whether it is the root or not.
RepaintChildrenOnly ==
  /\ RedUncle
  /\ heap' = [heap EXCEPT ![Parent].color = "Black", ![Uncle].color = "Black"]
  /\ IF heap[Grand].parent = Nil THEN Return(NoValue) ELSE Goto(Grand)
  /\ UNCHANGED <<root, used, faults>>

\* Faulty: the loop does not go on to the grandparent.
RepaintInPlace ==
  /\ RedUncle
  /\ LET h == [heap EXCEPT ![Parent].color = "Black", ![Uncle].color = "Black"]
     IN  IF heap[Grand].parent = Nil
         THEN heap' = h /\ Return(NoValue)
         ELSE heap' = [h EXCEPT ![Grand].color = "Red"] /\ Goto(At)
  /\ UNCHANGED <<root, used, faults>>

\* Both children of the grandparent are painted black, and the grandparent,
\* unless it is the root, takes the red to the next iteration.
Repaint ==
  /\ RedUncle
  /\ LET h == [heap EXCEPT ![Parent].color = "Black", ![Uncle].color = "Black"]
     IN  IF heap[Grand].parent = Nil
         THEN heap' = h /\ Return(NoValue)
         ELSE heap' = [h EXCEPT ![Grand].color = "Red"] /\ Goto(Grand)
  /\ UNCHANGED <<root, used, faults>>

Straight == SideOf(heap, Grand, Parent) = SideOf(heap, Parent, At)
Turned == IF SideOf(heap, Grand, Parent) = "right" THEN "left" ELSE "right"

\* What rot_left_par asserts of the link above, when it has set all others:
\* child_dir must find the node that was turned below the raised one.
LinkedAbove ==
  heap[Grand].parent # Nil => IsChild(Raise(heap, Parent, "left"), heap[Grand].parent, Grand)

\* A rotation to the right below another node unlinks the raised node from it.
Unlinks(h, n) == h[h[n].parent].parent # Nil

\* A rotation in a tree that is no longer what the code takes it for.
Stale == IF faults = {} THEN {} ELSE {"stale"}

\* The loop goes on with the parent of At after the rotations, if there is one.
GoOn(h) == Goto(IF h[At].parent = Nil THEN At ELSE h[At].parent)

RotateOnceLeft ==
  /\ Rotates /\ Straight /\ Turned = "left"
  /\ LinkedAbove
  /\ heap' = [RotLeft(heap, Parent) EXCEPT ![Grand].color = "Red", ![Parent].color = "Black"]
  /\ faults' = faults \cup Stale
  /\ GoOn(heap')
  /\ UNCHANGED <<root, used>>

RotateOnceRight ==
  /\ Rotates /\ Straight /\ Turned = "right"
  /\ heap' = [RotRight(heap, Parent) EXCEPT ![Grand].color = "Red", ![Parent].color = "Black"]
  /\ faults' = faults \cup Stale \cup (IF Unlinks(heap, Parent) THEN {"unlinked"} ELSE {})
  /\ GoOn(heap')
  /\ UNCHANGED <<root, used>>

\* The node is raised over its parent to the left, then over its grandparent.
RotateTwice ==
  /\ Rotates /\ ~Straight /\ Turned = "right"
  /\ LET h == RotLeft(heap, At)
     IN  /\ heap' = [RotRight(h, At) EXCEPT ![At].color = "Black", ![Parent].color = "Red",
                                            ![Grand].color = "Red"]
         /\ faults' = faults \cup Stale \cup (IF Unlinks(h, At) THEN {"unlinked"} ELSE {})
                             \cup (IF heap[At].color = "Black" THEN {"not_red"} ELSE {})
  /\ GoOn(heap')
  /\ UNCHANGED <<root, used>>

\* A panic in the middle of a rotation: the links set so far stay.
HalfDone(h) == /\ heap' = h
               /\ call' = [call EXCEPT !.pc = "failed"]
               /\ faults' = faults \cup Stale \cup {"half_done"}
               /\ UNCHANGED <<root, used>>

\* The assert comes when all but the link above has been set.
RotateOncePanic ==
  /\ Rotates /\ Straight /\ Turned = "left"
  /\ ~LinkedAbove
  /\ HalfDone(Raise(heap, Parent, "left"))

\* Faulty: the first rotation hangs the raised node below the grandparent too.
RotateTwiceLinked ==
  /\ Rotates /\ ~Straight /\ Turned = "left"
  /\ HalfDone([BeginLeft(RotRight(heap, At), At) EXCEPT ![Grand].right = At])

\* The other way round the first rotation leaves the grandparent's link on the
\* parent, and in the second one child_dir asserts that it is not.
RotateTwicePanic ==
  /\ Rotates /\ ~Straight /\ Turned = "left"
  /\ HalfDone(BeginLeft(RotRight(heap, At), At))
-----------------------------------------------------------------------------
(***************************************************************************)
(* remove                                                                  *)
(***************************************************************************)
\* Parent links and colours are not looked after.
RemoveRoot ==
  /\ call.pc = "remove" /\ At # Nil /\ At = root /\ heap[At].key = call.key
  /\ heap' = RemoveNode(heap, At)
  /\ root' = Unlinked(heap, At)
  /\ faults' = faults \cup {"removed"}
  /\ Return(heap[At].val)
  /\ UNCHANGED used

\* The only child that TreeNode::remove looks at.
Way == IF heap[At].left # Nil THEN "left" ELSE "right"
Candidate == heap[At][Way]

Searching == call.pc = "remove" /\ At # Nil /\ (At = root => heap[At].key # call.key)

\* Faulty: the recursive call is made on the same node again.
RemoveDescendNowhere ==
  /\ Searching /\ Candidate # Nil /\ heap[Candidate].key # call.key
  /\ Goto(At)
  /\ UNCHANGED <<root, heap, used, faults>>

RemoveDescend ==
  /\ Searching /\ Candidate # Nil /\ heap[Candidate].key # call.key
  /\ Goto(Candidate)
  /\ UNCHANGED <<root, heap, used, faults>>

\* Faulty: the pair that was removed is the one whose value is returned.
RemoveChildValue ==
  /\ Searching /\ Candidate # Nil /\ heap[Candidate].key = call.key
  /\ heap' = [RemoveNode(heap, Candidate) EXCEPT ![At][Way] = Unlinked(heap, Candidate),
                                                 ![At].key = heap[Candidate].key,
                                                 ![At].val = heap[Candidate].val]
  /\ faults' = faults \cup {"removed"}
  /\ Return(heap[Candidate].val)
  /\ UNCHANGED <<root, used>>

\* The removed pair overwrites that of the node above, whose value is returned.
RemoveChild ==
  /\ Searching /\ Candidate # Nil /\ heap[Candidate].key = call.key
  /\ heap' = [RemoveNode(heap, Candidate) EXCEPT ![At][Way] = Unlinked(heap, Candidate),
                                                 ![At].key = heap[Candidate].key,
                                                 ![At].val = heap[Candidate].val]
  /\ faults' = faults \cup {"removed"}
  /\ Return(heap[At].val)
  /\ UNCHANGED <<root, used>>

RemoveNothing ==
  /\ call.pc = "remove" /\ (At # Nil => Searching /\ Candidate = Nil)
  /\ Return(NoValue)
  /\ UNCHANGED <<root, heap, used, faults>>

\* The owner, or a panic that unwinds, drops the tree.
DropTree ==
  /\ call.pc \in {"idle", "panicked", "failed"}
  /\ LET owned == Reach(heap, root)
     IN  heap' = [n \in Nodes |-> IF n \in owned THEN Unallocated ELSE heap[n]]
  /\ root' = Nil
  /\ call' = [call EXCEPT !.pc = "dropped"]
  /\ UNCHANGED <<used, faults>>
-----------------------------------------------------------------------------
Insert == \/ InsertFirst \/ InsertDescend \/ InsertAttach
          \/ InsertPresent \/ InsertNoMemory
Recolor == \/ RecolorDone \/ RecolorPanic \/ Repaint
           \/ RotateOnceLeft \/ RotateOnceRight \/ RotateTwice
           \/ RotateOncePanic \/ RotateTwicePanic
Remove == RemoveRoot \/ RemoveDescend \/ RemoveChild \/ RemoveNothing

Next == \/ \E k \in Keys : Call("insert", k)
        \/ \E k \in Removable : Call("remove", k)
        \/ Insert \/ Recolor \/ Remove \/ DropTree

Spec == Init /\ [][Next]_vars

\* A call that was made is carried on; nobody has to make one.
FairSpec == Spec /\ WF_vars(Insert \/ Recolor \/ Remove)
-----------------------------------------------------------------------------
\* Types, and no link leads to memory that was not allocated.
TypeOK == /\ used \in 0..MaxNodes
          /\ root \in 0..used
          /\ heap \in [Nodes -> Node]
          /\ \A n \in Nodes : {heap[n].parent, heap[n].left, heap[n].right} \subseteq 0..used
          /\ call \in [pc : {"idle", "insert", "recolor", "remove", "panicked", "failed", "dropped"},
                       at : Link, key : Keys, ret : Values \cup {NoValue}]
          /\ call.pc = "recolor" => At # Nil
          /\ faults \subseteq {"unlinked", "not_red", "half_done", "removed", "stale"}

Reached == Reach(heap, root)
AtRest == faults = {} /\ call.pc = "idle"

\* Until a fault, the links go both ways, also between two iterations of
\* recolor_2: the children of a node are those whose parent link is on it
\* (rb_tree.rs:149-190).
LinksAgree ==
  faults = {} /\ call.pc # "dropped" =>
    \A n, m \in 1..used : IsChild(heap, n, m) <=> heap[m].parent = n

\* RbTree.val is set when the loop of recolor_2 ends: until then the root may
\* have been turned below another node.
Top == IF root # Nil /\ heap[root].parent # Nil THEN heap[root].parent ELSE root

\* Until a fault, the keys stay in order below every node, also between two
\* iterations of recolor_2: rotations hand over the subtree in between
\* (rb_tree.rs:149-190).
KeysInOrder == faults = {} => Ordered(heap, Top, "right")

RedsApart == \A n \in Reached : heap[n].color = "Red" =>
               \A c \in Children(heap, n) : heap[c].color = "Black"

\* Until a fault, an insert leaves the root black and no red node with a red
\* child (rb_tree.rs:250-337).
ColorsRight == AtRest => RedsApart /\ (root # Nil => heap[root].color = "Black")

\* Until a fault, get_sibling never fails its assert and the "weird state!" of
\* recolor_2 is not met: a red node with a red parent has a grandparent, and the
\* links it is found by go both ways (rb_tree.rs:132-138, 253-262, 328-330).  An
\* assert of child_dir that fails in a rotation is the fault half_done.
AssertsHold == faults = {} => call.pc # "failed"

Blackness(h, n) == IF h[n].color = "Black" THEN 1 ELSE 0

\* The nodes at most i links below r, each with the number of black nodes on the way to it.
BlackDepths(h, r) ==
  LET within[i \in 0..MaxNodes] ==
        IF i = 0 THEN {<<n, Blackness(h, n)>> : n \in {r} \ {Nil}}
        ELSE UNION {{d} \cup {<<c, d[2] + Blackness(h, c)>> : c \in Children(h, d[1])}
                      : d \in within[i - 1]}
  IN  within

\* Until a fault, every way from the root to a missing child passes the same
\* number of black nodes, which is what keeps the tree shallow
\* (rb_tree.rs:250-337).
Balanced ==
  AtRest => \A d, e \in {f \in BlackDepths(heap, root)[MaxNodes] : ~Both(heap, f[1])} : d[2] = e[2]

\* No node is reached by two links, so that dropping the tree frees none twice,
\* also when a rotation has unlinked a node or stopped half way, and after any
\* number of removals: only a rotation that comes later, and finds the links
\* those have left, may give a node a second owner
\* (rb_tree.rs:149-190, 388-397).
DropFreesOnce == "stale" \notin faults => SoleOwner(heap, root)

\* A value stays with the key it was inserted under, however often the pairs
\* are moved between nodes (rb_tree.rs:355-357, 413-415).
PairsStay == \A e \in Entries(heap, root) : e[2] = Value(e[1])

\* How often each pair is in the tree.
Stock == [e \in Keys \X Values |->
            Cardinality({n \in Reached : <<heap[n].key, heap[n].val>> = e})]

\* While no node has two owners, remove takes at most one pair out, and the
\* value it returns is the one of the pair that is gone; when it returns None
\* nothing is gone (rb_tree.rs:351-376).
RemoveTakesOne ==
  [][call.pc = "remove" /\ call'.pc = "idle" /\ "stale" \notin faults =>
       IF call'.ret = NoValue
       THEN Stock' = Stock
       ELSE \E e \in Keys \X Values : /\ Stock[e] > 0 /\ e[2] = call'.ret
                                     /\ Stock' = [Stock EXCEPT ![e] = @ - 1]]_vars

\* Every call returns or panics: neither the descents nor the loop of
\* recolor_2 go round in circles, even in a tree whose links no longer agree
\* (rb_tree.rs:253).
CallReturns ==
  call.pc \in {"insert", "recolor", "remove"} ~> call.pc \in {"idle", "panicked", "failed"}

\* Until a fault, the loop of recolor_2 climbs: the node it goes on with is above
\* all the nodes that the last one was above, and above more, so that there
\* are no more iterations than nodes (rb_tree.rs:253, 272, 320-321).
LoopClimbs ==
  [][call.pc = "recolor" /\ call'.pc = "recolor" /\ faults' = {} =>
       Reach(heap, At) \subseteq Reach(heap', At') /\ Reach(heap, At) # Reach(heap', At')]_vars

D == INSTANCE Dictionary WITH Pairs <- {<<k, Value(k)>> : k \in Keys},
                              entries <- Entries(heap, Top),
                              open <- call.pc # "dropped"

\* Until a fault, the tree is a dictionary: each insert adds its pair in one
\* step, and no rotation loses one (rb_tree.rs:192-337).
RefinesDictionary == D!DInit /\ [][faults' # {} \/ UNCHANGED D!dvars \/ D!DNext]_vars
-----------------------------------------------------------------------------
(***************************************************************************)
(* What the tests and the asserts say of every order of the calls          *)
(***************************************************************************)
\* "assert_eq!(tree.get(&i), Some(&format!("test {}", i)))" (rb_tree.rs:485):
\* every key that was inserted, and not removed, is found again.
AllFound == call.pc = "idle" => 1..used \subseteq Reached

\* The keys 1, 2, 3, ... are inserted in ascending order
\* (main.rs:279-285, rb_tree.rs:480-484).
Ascending ==
  /\ \A n \in 1..used : heap[n].key = n
  /\ call.pc = "insert" => call.key = used + 1

\* In the ascending order, and while nothing is removed, there is no fault and
\* no panic of the tree, and every key is found, as the driver and the test
\* expect: the loop of recolor_2 only ever turns to the left
\* (main.rs:279-291, rb_tree.rs:478-490).
DriverSafe ==
  Ascending /\ "removed" \notin faults /\ call.pc # "dropped" =>
    faults = {} /\ call.pc # "failed" /\ AllFound
=============================================================================
