---------------------------- MODULE MarkerProofs ----------------------------
(***************************************************************************)
(* Lemmas about the packed counter word.                                   *)
(***************************************************************************)
EXTENDS Marker, TLAPS

\* A value that fits a field is left as it is, with nothing to carry.
LEMMA FitsField ==
  ASSUME NEW x \in Nat, NEW n \in Nat, x < n
  PROVE  x \div n = 0 /\ x % n = x
  BY SMT

\* Whatever is added, a field keeps its range.
LEMMA FieldRange ==
  ASSUME NEW x \in Int, NEW n \in Nat \ {0}
  PROVE  x % n \in 0..(n - 1) /\ x \div n \in Int
  BY SMT

\* Adding to the word and subtracting from it always gives a word.
LEMMA PlusType ==
  ASSUME NEW m \in Marker, NEW dh \in Int, NEW dl \in Int, NEW df \in Int
  PROVE  Plus(m, dh, dl, df) \in Marker
<1> DEFINE h == m.head + dh
           l == m.len + dl + (h \div HeadMod)
           f == m.fin + df + (l \div LenMod)
<1>1. m.head \in Int /\ m.len \in Int /\ m.fin \in Int
  BY DEF Marker
<1>2. HeadMod \in Nat \ {0} /\ LenMod \in Nat \ {0}
  BY MarkerAssumption
<1>3. h \in Int
  BY <1>1
<1>4. h % HeadMod \in 0..(HeadMod - 1) /\ h \div HeadMod \in Int
  <2> HIDE DEF h
  <2> QED BY <1>2, <1>3, FieldRange
<1>5. l \in Int
  <2> HIDE DEF h
  <2> QED BY <1>1, <1>4
<1>6. l % LenMod \in 0..(LenMod - 1) /\ l \div LenMod \in Int
  <2> HIDE DEF l
  <2> QED BY <1>2, <1>5, FieldRange
<1>7. f \in Int
  <2> HIDE DEF l
  <2> QED BY <1>1, <1>6
<1>8. f % LenMod \in 0..(LenMod - 1)
  <2> HIDE DEF f
  <2> QED BY <1>2, <1>7, FieldRange
<1>9. [head |-> h % HeadMod, len |-> l % LenMod, fin |-> f % LenMod] \in Marker
  <2> HIDE DEF h, l, f
  <2> QED BY <1>4, <1>6, <1>8 DEF Marker
<1>10. QED
  BY <1>9 DEF Plus

\* As long as every field has room for its sum, the addition of the word is
\* the addition of each field: nothing carries into another counter.
LEMMA PlusNoCarry ==
  ASSUME NEW m \in Marker, NEW dh \in Int, NEW dl \in Int, NEW df \in Int,
         m.head + dh \in 0..(HeadMod - 1),
         m.len + dl \in 0..(LenMod - 1),
         m.fin + df \in 0..(LenMod - 1)
  PROVE  Plus(m, dh, dl, df) = [head |-> m.head + dh, len |-> m.len + dl, fin |-> m.fin + df]
<1>1. (m.head + dh) \div HeadMod = 0 /\ (m.head + dh) % HeadMod = m.head + dh
  BY FitsField, MarkerAssumption DEF Marker
<1>2. (m.len + dl + 0) \div LenMod = 0 /\ (m.len + dl + 0) % LenMod = m.len + dl
  BY FitsField, MarkerAssumption DEF Marker
<1>3. (m.fin + df + 0) % LenMod = m.fin + df
  BY FitsField, MarkerAssumption DEF Marker
<1>4. QED
  BY <1>1, <1>2, <1>3 DEF Plus
=============================================================================
