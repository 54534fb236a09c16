------------------------------ MODULE MCRbTree ------------------------------
(***************************************************************************)
(* Instances of the red-black tree for TLC: all orders of a few inserts    *)
(* up to the first fault, and many inserts in the one order the driver and *)
(* the test use.                                                           *)
(***************************************************************************)
EXTENDS RbTree

CONSTANT AnyOrder  \* this many keys are inserted in any order

\* The guarantees hold until a fault: what follows one is left to other runs.
\* Beyond AnyOrder keys only the ascending order is followed.
Orders ==
  /\ faults = {}
  /\ \/ Ascending
     \/ call.key <= AnyOrder /\ \A n \in 1..used : heap[n].key <= AnyOrder
=============================================================================
