------------------------------ MODULE ByteQueue ------------------------------
(***************************************************************************)
(* What the byte ring promises its callers: "a bunch of bytes ... stored   *)
(* in a ring buffer that allows for atomic addition and removal of said    *)
(* bytes" (bbring.rs:52-53).  Records are added whole at one end, taken    *)
(* whole and one at a time from the other, may be overwritten by others of *)
(* the same length meanwhile, and are given back after use.                *)
(***************************************************************************)
EXTENDS Sequences

CONSTANT Values     \* the records that can be added

VARIABLES queue,    \* the records added and not yet taken, oldest first
          held      \* the records taken and not yet given back

qvars == <<queue, held>>

QInit == queue = <<>> /\ held = {}

Add(v) == queue' = Append(queue, v) /\ UNCHANGED held

Take == /\ queue # <<>> /\ held = {}
        /\ held' = {Head(queue)}
        /\ queue' = Tail(queue)

Overwrite(v) == /\ \E w \in held : DOMAIN v = DOMAIN w
                /\ held' = {v}
                /\ UNCHANGED queue

GiveBack == held # {} /\ held' = {} /\ UNCHANGED queue

QNext == (\E v \in Values : Add(v) \/ Overwrite(v)) \/ Take \/ GiveBack

QSpec == QInit /\ [][QNext]_qvars
=============================================================================
