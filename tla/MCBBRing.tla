------------------------------ MODULE MCBBRing ------------------------------
(***************************************************************************)
(* Instances of the byte ring for TLC: payloads of length 0 and 1 after a  *)
(* header of one byte, so that records of two sizes meet in a small buffer.*)
(***************************************************************************)
EXTENDS BBRingNested, TLC

CONSTANTS empty, one, other, big

MCPayloadLen == [d \in Payloads |-> CASE d = empty -> 0 [] d \in {one, other} -> 1 [] d = big -> Cap]

\* The guarantees hold until a fault: what follows one is left to other runs.
NoFault == faults = {}

\* Once the drop of a guard carries, nothing is promised of the removers either.
NotCarried == "carried" \notin faults

Symmetry == Permutations(Pushers) \cup Permutations({one, other})
ThreadSymmetry == Permutations(Pushers) \cup Permutations(Removers)
=============================================================================
