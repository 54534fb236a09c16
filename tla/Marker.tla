------------------------------- MODULE Marker -------------------------------
(***************************************************************************)
(* The packed counter word of the byte ring (struct Marker of bbring.rs).  *)
(* One usize holds three fields, from the least significant bits up: head, *)
(* len and finished_len.  All threads change it with fetch_add and         *)
(* fetch_sub of a whole word, so a field that overflows carries into the   *)
(* next one and a field that underflows borrows from it.                   *)
(*                                                                         *)
(* The modules that use the word keep it as a record of its fields, and    *)
(* Plus is the word addition on that record, carries included.  WordMarker *)
(* checks that form against the raw word.                                  *)
(***************************************************************************)
EXTENDS Integers

CONSTANTS HeadMod,  \* the values the head field can take (2^32 on 64 bit)
          LenMod    \* the values of len, and of finished_len (2^16)

ASSUME MarkerAssumption == /\ HeadMod \in Nat \ {0}
                           /\ LenMod \in Nat \ {0}

Marker == [head : 0..(HeadMod - 1), len : 0..(LenMod - 1), fin : 0..(LenMod - 1)]

\* Marker::default(), the value of both words of a fresh ring.
Zero == [head |-> 0, len |-> 0, fin |-> 0]

\* Faulty: the fields are added one by one, as if nothing carried over.
PlusFieldwise(m, dh, dl, df) == [head |-> (m.head + dh) % HeadMod,
                                 len |-> (m.len + dl) % LenMod,
                                 fin |-> (m.fin + df) % LenMod]

\* fetch_add of Marker::new(dh, dl, df), or fetch_sub when they are negative.
\* \div rounds down and % is never negative, so both carry and borrow are here.
Plus(m, dh, dl, df) ==
  LET h == m.head + dh
      l == m.len + dl + (h \div HeadMod)
      f == m.fin + df + (l \div LenMod)
  IN  [head |-> h % HeadMod, len |-> l % LenMod, fin |-> f % LenMod]
=============================================================================
