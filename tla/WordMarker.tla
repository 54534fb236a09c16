----------------------------- MODULE WordMarker -----------------------------
(***************************************************************************)
(* The counter word as bbring.rs has it: one number that every call adds   *)
(* to or subtracts from as a whole, and that is taken apart with masks and *)
(* shifts.  The module runs it beside the record of Marker, which the ring *)
(* is modelled with, in whatever order the calls may change the word.      *)
(*                                                                         *)
(* The positions of the fields follow usize::BITS, and the masks do not:   *)
(* head() keeps 32 bits and len() and finished_len() 16 on every target.   *)
(* HeadMask and LenMask are what the masks let through.                    *)
(***************************************************************************)
EXTENDS Marker

CONSTANTS HeadMask,  \* u32::MAX + 1, the values that head() can return
          LenMask,   \* u16::MAX + 1, the same for len() and finished_len()
          Sizes      \* the record sizes that are reserved and given back

ASSUME WordAssumption == /\ HeadMask \in Nat \ {0}
                         /\ LenMask \in Nat \ {0}
                         /\ Sizes \subseteq 0..(HeadMod - 1)

VARIABLES raw,      \* the word
          fields    \* the record that stands for it

wvars == <<raw, fields>>

Word == HeadMod * (LenMod * LenMod)

\* Marker::new: a value that fits its field is put there by the shift and |.
New(h, l, f) == h + HeadMod * (l + LenMod * f)

RawHead(w) == w % HeadMask
RawLen(w) == (w \div HeadMod) % LenMask
RawFin(w) == ((w \div HeadMod) \div LenMod) % LenMask

FromRaw(w) == [head |-> RawHead(w), len |-> RawLen(w), fin |-> RawFin(w)]

WInit == raw = 0 /\ fields = Zero

FetchAdd(h, l, f) == /\ raw' = (raw + New(h, l, f)) % Word
                     /\ fields' = Plus(fields, h, l, f)

FetchSub(h, l, f) == /\ raw' = (raw - New(h, l, f)) % Word
                     /\ fields' = Plus(fields, -h, -l, -f)

\* The changes that the calls make: a reservation, its rollback, a publication,
\* a removal, its rollback, and the drop of a guard.
WNext == \/ \E n \in Sizes : FetchAdd(n, 1, 0) \/ FetchSub(n, 1, 0) \/ FetchAdd(n, 0, 1)
         \/ FetchAdd(0, 0, 1)
         \/ FetchAdd(0, 1, 0)
         \/ FetchSub(0, 1, 0)

WSpec == WInit /\ [][WNext]_wvars

\* What the threads read out of the word with head(), len() and finished_len()
\* is what the record holds, carries and borrows included (bbring.rs:170-194).
FieldsAgree == FromRaw(raw) = fields
=============================================================================
