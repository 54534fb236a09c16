---------------------------- MODULE BBRingNested ----------------------------
(***************************************************************************)
(* The ring with one thread that removes, as it is documented, and that    *)
(* holds on to what it removed: pop_front takes &self, so the thread may   *)
(* call it again while a guard of an earlier call is alive.  Here Removers *)
(* are the guards the thread has room for.  Only one of its calls runs at  *)
(* a time, and while it runs no guard is used or dropped.                  *)
(***************************************************************************)
EXTENDS BBRing

Running(r) == pop[r].pc \in {"load", "none", "wait", "read"}
MayRun(r) == \A s \in Removers \ {r} : ~Running(s)

Removing(r) == /\ MayRun(r)
               /\ PopReserve(r) \/ Popping(r) \/ \E d \in Payloads : Overwrite(r, d)

NestedNext == \/ \E p \in Pushers : Pushing(p) \/ \E d \in Payloads : Reserve(p, d)
              \/ \E r \in Removers : Removing(r)

\* The thread runs on inside pop_front.  It need not drop a guard: it may look
\* for more records, or wait for them, before it does.
NestedSpec == /\ Init /\ [][NestedNext]_vars
              /\ \A p \in Pushers : WF_vars(Pushing(p))
              /\ \A r \in Removers : WF_vars(Running(r) /\ Removing(r))
-----------------------------------------------------------------------------
\* The drop that the call waits for can only be made by the thread it blocks.
WaitsForItself(r) == pop[r].pc = "wait" /\ \E s \in Removers \ {r} : pop[s].pc = "guard"

\* Until a fault, every call of pop_front returns, unless it finds a record
\* while its thread holds a guard (bbring.rs:104-118, 160).
PopReturns ==
  \A r \in Removers : Running(r) ~> ~Running(r) \/ WaitsForItself(r) \/ faults # {}

\* Unless the drop of a guard carried before, a nested call that finds a record
\* never returns, whatever the pushers do and whatever went wrong with them
\* (bbring.rs:113-116).
NestedCallHangs ==
  [][\A r \in Removers :
       "carried" \notin faults /\ pop[r].pc = "wait"
         => WaitsForItself(r) /\ pop'[r].pc = "wait"]_vars
=============================================================================
