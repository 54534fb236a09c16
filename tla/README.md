# A verification project for the data structures of "AssemblyTest"

The repository is a Rust crate of hand-written data structures on raw memory:
a byte ring and a vector that several threads share, and two search trees. This
directory holds TLA+ modules for them, TLC configurations, and proofs checked by
TLAPS. Source lines are given as `file.rs:line`, files are under `src/`.

## 1. Inventory

| Part | State | Operations | What is hard | What makes it correct |
|---|---|---|---|---|
| **BBRing** (`bbring.rs`) | a byte buffer; `marker` and `remove_marker`, each one `usize` with the fields head, len, finished_len | `push` from many threads, `pop_front` from one, `as_ref`, `as_mut` and drop of the `BufGuard` it returns | reservations taken back in a second step, unsynchronised writes, records finished out of order, packed counters, wrap-around, guards that a nested call waits for | no byte is touched by two threads; guards show whole records in order; room that was given back can be used; every call returns |
| **Marker** (`bbring.rs:164-201`) | the packed word | `new`, `head`, `len`, `finished_len`, and `fetch_add`/`fetch_sub` of a whole word | carries and borrows between fields, masks of fixed width | what is read out is what was put in |
| **RbTree** (`rb_tree.rs`) | nodes with parent and child links and a colour | `insert` with `recolor_2` and the rotations, `remove`, `get`, drop | links kept in both directions, a loop that climbs and rotates, asserts in the middle of a rotation, nodes copied over others | no key is lost, links agree, colours and black heights are right, nothing is freed twice, calls return |
| **BinarySearchTree** (`binary_search_tree.rs`) | nodes with child links | `insert`, `remove`, `get`, drop | pairs moved between nodes by `remove_node`, nodes it forgets | pairs stay whole, only the removed pair goes, nothing is freed twice |
| **ConcVec** (`conc_vec_2.rs`) | buckets, metadata words, a word of announced buckets | `push`, unfinished, and drop | a race to install metadata, a bitmap that all claim from, allocations that fail between two stores | one winner, no bit claimed twice, no leak, calls return |
| LinkedList (`linked_list.rs`) | owned boxes | `insert`, `replace_next`, `set_value`, `contains` | nothing: one assignment each | not modelled |
| ConcVec (`conc_vec.rs`) | — | — | the whole file is a comment | not modelled |
| Driver (`main.rs`), `rustlings.rs`, empty files | — | live: 20 ascending inserts into an RbTree | terminal input, commented-out experiments | the driver's order is part of the run `rb_insert`, the rest is not modelled |

The parts do not call each other. The threads of BBRing interact only through
the two words and the buffer, those of ConcVec only through its three atomics.
The two trees are sequential and share, word for word, the code of `remove` and
`remove_node`. `PROJECT.json` lists the hazards at their lines.

## 2. Modules

| Module | Models |
|---|---|
| `Marker` | the packed word as a record of fields, with `Plus`, an addition that carries and borrows |
| `WordMarker` | the raw number with shifts and masks beside that record |
| `ByteQueue` | abstract: a queue of whole records, one of them held at a time, changed or given back |
| `BBRing` | `push`, `pop_front`, writing through the guard and its drop: an action per atomic access and per access to the buffer |
| `BBRingNested` | the same ring with one remover thread that calls `pop_front` while it holds guards |
| `MCBBRing` | payload lengths, constraints and symmetries for TLC |
| `TreeHeap` | nodes at addresses, what is reached from a root, and `remove_node` |
| `Dictionary` | abstract: a set of pairs without a key twice that only grows until it is dropped |
| `RbTree` | the red-black tree: an action per recursive call of `insert` and `remove` and per iteration of `recolor_2` |
| `MCRbTree` | the orders of inserts that TLC follows |
| `BinarySearchTree` | the plain tree, in the same way |
| `ConcVec` | `push` and drop of `conc_vec_2.rs`: an action per atomic access |
| `MarkerProofs`, `WordMarkerProofs`, `BBRingProofs`, `BBRingRemoversProofs`, `ConcVecProofs`, `TreeHeapProofs`, `BinarySearchTreeProofs`, `RbTreeProofs` | theorems and proofs |

An operator with the comment "Faulty:" is a variant of the definition after it,
with a mistake one could make there; no behaviour uses it. Each property is
shown to fail when such a variant takes the place of the definition.

### BBRing against the code

`marker`, `remove_marker` are the two words, `buf` the allocation, `push[p]` and
`pop[r]` a thread's place in the call and its locals. `push` is
`Reserve` (83), `Accept`/`Refuse`/`Underflow` (84), `Rollback` (85),
`WriteHeader` (89), `WritePayload` (91), `AwaitTurn` (94), `Publish` (97).
`pop_front` is `PopReserve` (102), `PopEmpty`/`PopClaim` (103-110),
`PopRollback` (106), `PopAwaitTurn` (113-117), `PopRead` (120-126). While the
guard is alive its holder may write other bytes of the same length through
`as_mut`, which is `Overwrite` (152-156); its drop is `DropGuard` (160).

In `BBRing` a remover holds one guard at a time. `pop_front` takes `&self`,
though, so a thread may call it again with a guard in its hand. `BBRingNested`
says what becomes of that: its removers are the guards one thread has room for,
of whose calls only one runs at a time, and while it runs no guard is used or
dropped. A nested call returns `None` when it finds nothing and otherwise waits
for a drop that only its own thread could make.

Three things go wrong in this code, and the history variable `faults` records when:

* **overtaken**: a refused push gives its reservation back with `fetch_sub`
  after another push has reserved behind it. Positions and numbers shift, and a
  later push waits for a number nobody publishes.
* **overrun**: `push` does not reduce head modulo the capacity, so after
  removals a record that is accepted lies beyond the end of the buffer. From
  then on `pop_front`, which does reduce it, reads headers that were never
  written where it looks, and the head of the removals may pass that of the
  pushes: the subtraction at line 84 goes below zero.
* **carried**: after an overrun the bytes taken for a header may be any `u32`
  (`HeaderAt`), and at the drop of the guard (160) such a length carries from the
  head field of `remove_marker` into len. The numbers of the removals no longer
  fit those given out, and a later `pop_front` waits with no guard alive.

The guarantees of the ring, that calls return among them (`PushReturns`,
`PopReturns`), are stated for the time before the first fault, for that is what
the code does provide; that the first two happen is shown by `bbring_push_hangs`
and `bbring_out_of_buffer`. `SingleGuard`, `RemoversBehind` and
`NestedCallHangs` hold longer: until a drop carries. In particular, that nobody
but a nested call waits is promised up to there only.

### The trees against the code

`heap` maps an address to a node, `used` counts allocations, `call` is the call
under way: `pc`, the node it is at, its key, and what it returned. `alloc` may
fail, and the pair is then dropped, as in the code. The value under a key is
determined by the key, as in all callers (`format!("test {}", i)`); comparing
values therefore tells whether a pair was split. `get` looks at every node
whatever the order, so what it can find is `Entries`, the pairs of the nodes
reached. `recolor_2` is `RecolorDone`, `Repaint` (red uncle), `RotateOnceLeft`,
`RotateOnceRight`, `RotateTwice`, and `RotateOncePanic` and `RotateTwicePanic`
for the asserts that fail in the middle of a rotation, with the links set so
far. A call ends `"panicked"` for a present key, which callers are told of, and
`"failed"` where an assert of the tree itself fails. `DropTree` is the drop, at
the end of the tree's life or when a panic unwinds through its owner.

Of RbTree, too, the guarantees are stated up to a fault: **unlinked**, a
rotation to the right below another node, whose child link `rot_right_par` does
not update; **not_red**, a double rotation for a black node, which the loop
meets because it goes on with the parent of the node after a rotation;
**half_done**, a failed assert that leaves a rotation unfinished; and
**removed**, since `remove_node` copies nodes with their parent links and
colours; and **stale**, a rotation after any of these. (A `child_dir` assert that
fails inside a rotation is the fault half_done itself, so that `AssertsHold` is
about the other asserts: `get_sibling` and the weird state of `recolor_2`.) Some properties hold
beyond the first four: no node has two owners, so that drop frees none twice,
after a panic too, and a removal takes out one pair. A stale rotation ends that:
it may follow a parent link that no longer says where a node hangs, and set the
child link of the wrong node. Pairs stay whole even then, and TLC finds every
call to return or panic. What a removal does not do is free memory:
`RemoveForgetsOneNode` says that each one makes exactly one node unreachable,
and that nothing else does.

### ConcVec against the code

`meta_allocated`, `bucket_meta` with its `bits`, and `bucket` are the atomics,
`live` the allocations not freed. `push` is `LoadAllocated`/`LoadNone` (59-64),
`ExchangeWin`/`ExchangeLose` (65-73), `Store`, `Announce` (67-70), and for the
losers `Scan`, `ScanFull`, `Claim` (75-88). Either `alloc` may give null, and its
`unwrap` then panics (`LoadNoMemory`, `StoreNoMemory`): the second panic leaves
metadata installed whose value never comes, the state `Orphaned`, in which later
pushes call themselves for ever. `Drop` runs when no thread is inside of push,
for it takes `&mut self`, and frees what the two arrays lead to.

## 3. Runs

| Run | Instance | Shows |
|---|---|---|
| `bbring_first_lap` | 3 pushers, 1 remover, payloads of 0, 1, 1 and 5 bytes, capacity 5 | up to a fault: `RegionsApart`, `GuardShowsRecord`, `TurnIsHeld`, `NoneMeansEmpty`, `AdmittedWhenRoom`, and the refinement of `ByteQueue` |
| `bbring_removers` | 1 pusher, 3 removers, payloads of 0 and 1 bytes, capacity 3 | `SingleGuard`, `RemoversBehind`, beyond the faults until a drop carries; `GuardShowsRecord` until a fault, for removers that waited for the guard before theirs too |
| `bbring_returns` | 3 pushers, 1 remover thread with room for 2 guards, payloads of 0 bytes, capacity 4 | up to a fault: every call returns, unless a thread waits for a guard of its own: that call never returns |
| `bbring_push_hangs` | 2 pushers, full buffer | violated: a push never returns |
| `bbring_out_of_buffer` | 1 pusher, 1 remover | violated: a record is stored outside of the buffer |
| `word_fields` | fields of 16 and 4 values | the record form of the word is exact, carries and borrows included; it does not say that none happens |
| `rb_insert` | all orders of 7 keys up to a fault, 20 keys in the order of driver and test | `LinksAgree`, `KeysInOrder`, `ColorsRight`, `Balanced`, `AssertsHold`, refinement of `Dictionary`; the loop only climbs; the test's order meets no fault, no failed assert, and all keys are found |
| `rb_remove` | 5 keys, 5 allocations, inserts and removes of 3 keys, beyond the faults | pairs stay whole, every call ends; no double owner and a removal takes one pair, until a rotation is stale |
| `rb_lost_key` | 5 keys | violated: inserted keys are not found |
| `bst_calls` | 4 keys, 5 allocations, inserts and removes | pairs stay whole, a removal takes one pair and forgets one node, no double owner; inserts keep the order, and make a sorted tree a dictionary |
| `bst_wrong_value` | 3 keys | violated: remove returns the value of another key |
| `conc_vec_push` | 3 threads, 4 bits | one winner, claims apart, no leak, calls return |

**Bounds.** `MaxReserved` and `MaxHead` bound the reservations and bytes of the
ring; the buffers hold two or three records, so that full, overtaken, refused
and wrapped states are all met, and three pushers are needed for a rollback
between two others. Two payloads of one byte are there for `Overwrite`, which
replaces one by the other. `bbring_first_lap` and `bbring_returns` do not follow
a behaviour beyond its first fault, nor `bbring_removers` beyond a drop that
carries, where their properties promise nothing more (`bbring_removers` does go
on after an overrun, of which `GuardShowsRecord` says nothing; that
`NestedCallHangs` reaches beyond the first fault is left to the theorem). In
`bbring_returns` no bound ends a behaviour before its first fault: at most 4
records of one byte are accepted without an overrun and 3 more are outstanding,
so that 7 reservations and 7 bytes are never exceeded. Its payloads are empty to
make that possible with three pushers; the sizes only decide who is refused, and
refusals, rollbacks and full buffers are all met. `HeadMod` and `LenMod` stand
for 2^32 and 2^16 and are larger than the bounds, so that nothing carries but a
length that was never written; `word_fields` covers the other carries. `Hdr` is
1 byte for 4. `MaxNodes` bounds
allocations: five inserts are enough for the fault of `rb_lost_key`, seven for
that of a black node that is turned, and 20 ascending ones rotate several levels
above the leaf. `HalfBits` is 4 for 32: three bits to claim, enough for two
losers to claim next to each other and run out. In `conc_vec_push` a thread may
push again and again.

**Fairness.** Weak fairness of a thread's own steps inside a call, and none for
making calls: the scheduler runs every thread, and the spinning threads yield
(`Backoff::snooze`). In `FairSpec` of BBRing, with one guard to a remover, a
guard that is held is dropped at some time. `NestedSpec`, which `bbring_returns`
checks, assumes less: a guard need not be dropped at all. The trees are
sequential, and a call that was made is carried on.

**Deadlock** is not checked where a program really may stop: in the tree runs,
once the program has panicked or dropped its tree; in `conc_vec_push`, once the
vector is dropped or its threads have panicked; and in `bbring_returns`, where a
nested call waits for ever.

## 4. Findings

Each is shown by a run that TLC finds violated:

1. A refused push that was overtaken makes a later push spin for ever
   (`bbring.rs:85`, `bbring_push_hangs`).
2. Records are written beyond the end of the buffer (`bbring.rs:89`,
   `bbring_out_of_buffer`).
3. `rot_right_par` loses keys (`rb_tree.rs:184-189`, `rb_lost_key`): inserting
   5, 4, 3, 2, 1. For the same reason the double rotation of a left child of a
   right child fails an assert (`rb_tree.rs:285-293`, the action
   `RotateTwicePanic`): inserting 1, 3, 2.
4. `remove` returns the value of another key and loses that one
   (`binary_search_tree.rs:138-141`, `bst_wrong_value`).

Read off the models, without a run of their own: after removals a rotation may
give a node of the red-black tree a second owner, and the drop frees it twice
(`rb_tree.rs:149-176`, `388-397`, why `DropFreesOnce` speaks of "stale"); this
takes eight nodes, for instance inserting 6, 4, 5, 7, removing 5, inserting 2,
1, 3, removing 1 twice and inserting 2, where the last rotation leaves node 1
below both 3 and 5. It is out of the reach of `rb_remove`, which follows every
order of 5 allocations, and came up as the step at which a proof without that
condition failed. `recolor_2` may turn for a black
node and leave a red node with a red child (`rb_tree.rs:320`, the fault
"not_red"); after a removal the tree is no longer sorted, and a present key can
be inserted again (`binary_search_tree.rs:196-198`, why `RefinesDictionary` speaks
of sorted trees); a removal frees no memory (`binary_search_tree.rs:221`); the
masks of `Marker` are wider than its fields on 32 bit targets (`bbring.rs:181`,
why `FieldsAlwaysAgree` assumes `Masks`); a push that finds the ring orphaned by a
failed allocation never returns (`conc_vec_2.rs:67`, why `PushReturns` speaks of
`Orphaned`); and losers of the race in `conc_vec_2.rs:85` claim bits for buckets
that are never made.

## 5. Proofs

For all values of the constants: any number of threads, keys, nodes and bits,
any payloads, capacity and field widths.

| Theorem | Says |
|---|---|
| `BBRingProofs!TypeCorrect`, `Inductive` | `Spec => []TypeOK`, `Spec => []IInv` |
| `RegionsAlwaysApart`, `GuardAlwaysShowsRecord`, `TurnIsAlwaysHeld`, `NoneAlwaysMeansEmpty`, `AlwaysAdmittedWhenRoom` | the safety properties of `bbring_first_lap` |
| `RingIsQueue` | the ring implements `ByteQueue` until a fault |
| `BBRingRemoversProofs!AlwaysSingleGuard`, `RemoversAlwaysBehind` | at most one guard, nothing unpublished removed, until a drop carries |
| `WordMarkerProofs!FieldsAlwaysAgree` | the record form of the word is exact for all widths |
| `ConcVecProofs!TypeCorrect`, `ClaimsAlwaysApart`, `NeverLeaks`, `AnnouncedIsAlwaysStored`, `StoredOnlyOnce` | all safety properties of `conc_vec_push` |
| `NestedCallAlwaysHangs` | a nested call that finds a record never gets its guard, and no other call waits, until a drop carries |
| `RbTreeProofs!TypeCorrect`, `PairsAlwaysStay` | types and whole pairs, beyond all faults |
| `LinksAlwaysAgree`, `KeysAlwaysInOrder`, `ColorsAlwaysRight`, `AlwaysBalanced`, `AssertsAlwaysHold` | the red-black tree until a fault |
| `RbTreeProofs!IsDictionary` | it implements `Dictionary` until a fault |
| `DriverAlwaysSafe` | ascending inserts, as many as one likes, meet no fault |
| `RbTreeProofs!NothingFreedTwice`, `RemovalTakesOne` | one owner to a node and one pair to a removal, until a rotation is stale |
| `LoopAlwaysClimbs`, `RbTreeProofs!DescentsShrink` | no step of a call leads back |
| `BinarySearchTreeProofs!TypeCorrect`, `PairsAlwaysStay` | types and whole pairs |
| `NothingFreedTwice`, `RemovalTakesOne`, `RemovalForgetsOneNode` | one owner to a node, one pair and one node to a removal, after any calls |
| `InsertsKeepOrder`, `IsDictionary`, `DescentsShrink` | inserts keep a sorted tree sorted and make it a dictionary; descents go down |

**Assumptions.** The type theorems, ConcVec and the trees need none but those on
the constants. The theorems of `bbring_first_lap` take `LoneRemover` (one
remover, as the doc says, `bbring.rs:51`) and `NoCarry` (the bounds on
reservations and bytes stay below the widths of the fields); those about many
removers take, as formulas that are to hold throughout the behaviour,
`RemovalsFit` (until a drop carries out of head, len and finished_len of the
removals have room for one more) and, for `RemoversAlwaysBehind`,
`ReservationsFit` (no addition or rollback on the pushers' word carries). Both
hold in every state of the instance of `bbring_removers`;
`NestedCallAlwaysHangs` takes the first of them. None bounds the head of the
removals: that it carries is the fault, at which the theorems stop;
`FieldsAlwaysAgree` takes `Masks` (the masks are as wide as the fields).

**The ring.** None of its properties is inductive. `IInv` adds to them what the
threads rely on without saying it: until a fault the log of reservations *is*
the state. `LogInv`: each entry of the log starts where the one before it ends,
the log is as long as the len field says and ends where the head field says.
`PushInv` and `TurnInv`: every number between finished_len and len belongs to
exactly one thread inside `push`, whose locals are that log entry. `BufInv`: what
a thread has written so far, and every record ever published, is in the buffer.
`PopInv`: the word of the removals is at the first entry that was not given
back, and the remover's locals agree with it. A step then only has to be checked
against the entries it touches: two regions are apart because the log entries
are consecutive, a guard shows a record because nobody but its holder writes
into the entries below finished_len. `MarkerProofs` gives what `Plus` does when
nothing carries over.

`RingIsQueue` follows from the same invariant: `View` works out the two variables
of `ByteQueue` (what is held is the entry after those given back, the queue is
the published entries behind it), and there is one lemma for each step that
shows (`PublishAdds`, `ReadTakes`, `OverwriteChangesHeld`, `DropGivesBack`); all
others leave both variables alone.

**Many removers.** A remover that finds nothing takes its number back whatever
numbers were given out since, so that two may hold the same one. `TicketInv`
says that they still spread far enough: in every nonempty set S of removers
inside `pop_front` one has a number of at least finished_len + |S| - 1, and there
are as many as len says. Two removers whose turn it is would be a set of two
without such a member.

For a nested call `CallInv` adds that the call under way has the last ticket,
given out when the removals' word had the finished_len it still has, and that it
waits only if that is not its turn. No guard of the thread is dropped while the
call runs, so the turn does not come.

**ConcVec.** The invariant is the conjunction of the properties with what the
race settles: once metadata is installed its owner is past the exchange, and
only the owner is between its two stores; the claimed bits are set and stay so;
and the drop comes after all calls.

**What is reached.** `Reach`, the nodes below a link, is a recursive function of
the number of links followed, and no theorem on natural induction can be
instantiated. `TreeHeapProofs` goes around that: a set of numbers that is not
empty has a least element, and from there one step at a time it shows that
`Reach` is the least set that holds the target and is closed under `Children`.
All later proofs use those facts only (`ReachRoot`, `ReachClosed`, `ReachLeast`).
From them follow the laws of trees: below different children there are different
nodes, no node is below its own child (`Acyclic`), and `remove_node` takes one
node out of a tree and shifts pairs along one path (`Spine`).

**The plain tree.** `TreeInv` is `Inv` (types, whole pairs), `Owned` (every node
reached has one link to it, and a call is at a node that is reached), `Path`
(each node above an insert sent it to the side where its key belongs) and `Found`
(in a sorted tree, the key of an insert is nowhere but below where it is). The
last two are what lets a leaf be hung without breaking the order or adding a key
twice. Counting the pairs before and after a removal (`Stock`) is a bijection
between the nodes that stay and their sources, which `RemoveNode` shifts.

**The red-black tree.** Links in both directions are not inductive by
themselves: that a rotation keeps them needs the nodes it turns to be different
ones. `Linked` adds that no node is on both sides of another, and that parent
links do not go round in a circle: every nonempty set of nodes has one whose
parent is outside of it. `TreeInv` then has, until a fault:

* `Where`, `Rooting`: a descent is at a node below the root; one node has no
  parent, and it is the root or, before the loop ends, the node the loop is at,
  which has been turned above the root.
* `Sorting`, `Sought`, `Found`: the order, said of every node and both subtrees,
  and where the key of the insert belongs. A rotation keeps the first because
  the subtree it hands over lies between the two keys.
* `Colored`: a node without parent is black, a red node below a red one is the
  node the loop of `recolor_2` is at, and no assert has failed. A double rotation
  for a black node breaks it, which is why that is a fault ("not_red").
* `Levelled`: there is a function that gives every node the number of black nodes
  below it, the same on both sides. A leaf, a repaint and each rotation come
  with the function for the next state (`RepaintHeights` and its likes), so that
  nothing needs to be counted; `Balanced`, which does count, follows from it.

After a fault `Owned` takes over: until a rotation is stale, the heap below the
root, and below the node the loop is at if that has no parent, is a tree with one
owner to a node. `Driven` says of ascending inserts that nothing has gone wrong,
and that the loop is at the last node or above it: such a node is never a left
child (`MaxIsRight`), so that only `rot_left_par` is ever called. It holds for any
number of keys, where the run has 20.

**Only model-checked:** liveness, that is `PushReturns` and `PopReturns` of the
ring, `CallReturns` of the red-black tree and `PushReturns` of ConcVec, for
liveness under fairness is out of the prover's reach. Of the trees the safety
half is proved: an iteration of the loop goes on with a node above more nodes
than the last one (`LoopAlwaysClimbs`), a recursive call with less below it
(`DescentsShrink`), so that neither has more steps than there are nodes. What
remains to TLC is the loop after a fault and the descents after a stale rotation.
That red-black calls end beyond a fault is checked with 5 allocations only, and
the shape in which a node has two owners needs 8. `GuardShowsRecord` is a theorem
for a lone remover; that it also holds for several, until a fault, is shown by
`bbring_removers` alone. Every other property of a passing run is a theorem.

## 6. Not modelled

The drop of the ring, a single `dealloc` that the borrow of every guard keeps
away from; memory orders weaker than sequential consistency; the four billionth
byte of a ring (`NoCarry`); `new(0)` (the model takes a capacity above 0);
`is_empty` of both trees, which calls itself; `index` and `BucketMeta` of
`conc_vec_2.rs`, which nothing calls; Debug output. `LinkedList` is safe Rust
with one owner for each box: every operation is one assignment or a walk that
changes nothing, and a property of it would restate that assignment. That its
`insert` drops what came behind is listed among the hazards. For the other parts
see the inventory.

## 7. Plan

What is left:

1. How far the ring's guarantees reach beyond an overtaken rollback, and the
   rank of the spinning threads, the safety half of `PushReturns` and
   `PopReturns`, as theorems.
2. Weak memory: which of the orderings of the atomics in `bbring.rs` and
   `conc_vec_2.rs` the properties need.
3. Should the code move on: ConcVec beyond bucket 0, `remove` of RbTree with
   colours and parent links, LinkedList if its owner functions get loops.
