-------------------------- MODULE WordMarkerProofs --------------------------
(***************************************************************************)
(* The record of Marker is the word, for every width of the fields, when   *)
(* the masks are as wide as the fields (a 64-bit target).                  *)
(***************************************************************************)
EXTENDS WordMarker, MarkerProofs

Masks == HeadMask = HeadMod /\ LenMask = LenMod

\* The word is the fields put side by side.
Packed == fields \in Marker /\ raw = New(fields.head, fields.len, fields.fin)

\* Dividing by the width of a field splits a number at that field.
LEMMA Split ==
  ASSUME NEW n \in Nat \ {0}, NEW q \in Int, NEW r \in 0..(n - 1)
  PROVE  (r + n * q) \div n = q /\ (r + n * q) % n = r
  BY SMT

LEMMA Division ==
  ASSUME NEW x \in Int, NEW n \in Nat \ {0}
  PROVE  x = (x % n) + n * (x \div n) /\ x % n \in 0..(n - 1) /\ x \div n \in Int
  BY SMT

LEMMA Monotone ==
  ASSUME NEW n \in Nat, NEW i \in Int, NEW j \in Int, i <= j
  PROVE  n * i <= n * j
  BY SMT

\* Reading the fields of a packed word gives the fields back.
LEMMA Unpack ==
  ASSUME Masks, NEW m \in Marker
  PROVE  FromRaw(New(m.head, m.len, m.fin)) = m
<1> DEFINE w == New(m.head, m.len, m.fin)
           u == m.len + LenMod * m.fin
<1>1. /\ m.head \in 0..(HeadMod - 1) /\ m.len \in 0..(LenMod - 1) /\ m.fin \in 0..(LenMod - 1)
      /\ HeadMod \in Nat \ {0} /\ LenMod \in Nat \ {0}
  BY MarkerAssumption DEF Marker
<1>2. u \in Int /\ w = m.head + HeadMod * u
  BY <1>1 DEF New
<1>3. w \div HeadMod = u /\ w % HeadMod = m.head
  <2> HIDE DEF w, u
  <2> QED BY <1>1, <1>2, Split
<1>4. u \div LenMod = m.fin /\ u % LenMod = m.len
  <2> DEFINE r == m.len
             q == m.fin
  <2>1. r \in 0..(LenMod - 1) /\ q \in Int /\ u = r + LenMod * q
    BY <1>1
  <2> HIDE DEF u, r, q
  <2>2. u \div LenMod = q /\ u % LenMod = r
    BY <1>1, <2>1, Split
  <2>3. QED
    BY <2>2 DEF r, q
<1>5. m.fin % LenMod = m.fin
  BY <1>1, FitsField
<1>6. FromRaw(w) = [head |-> m.head, len |-> m.len, fin |-> m.fin]
  <2> HIDE DEF w, u
  <2> QED BY <1>3, <1>4, <1>5 DEF Masks, FromRaw, RawHead, RawLen, RawFin
<1>7. QED
  BY <1>6 DEF Marker

\* Adding to the word as a whole is adding to the fields with Plus.
LEMMA WordPlus ==
  ASSUME NEW m \in Marker, NEW dh \in Int, NEW dl \in Int, NEW df \in Int
  PROVE  LET s == Plus(m, dh, dl, df)
         IN  New(m.head + dh, m.len + dl, m.fin + df) % Word = New(s.head, s.len, s.fin)
<1> DEFINE h == m.head + dh
           l == m.len + dl + (h \div HeadMod)
           f == m.fin + df + (l \div LenMod)
           q == f \div LenMod
           s == Plus(m, dh, dl, df)
           x == New(m.head + dh, m.len + dl, m.fin + df)
           y == New(s.head, s.len, s.fin)
<1>1. /\ m.head \in Int /\ m.len \in Int /\ m.fin \in Int
      /\ HeadMod \in Nat \ {0} /\ LenMod \in Nat \ {0}
  BY MarkerAssumption DEF Marker
<1>2. s.head = h % HeadMod /\ s.len = l % LenMod /\ s.fin = f % LenMod
  BY DEF Plus
<1>3. h \in Int /\ h = s.head + HeadMod * (h \div HeadMod) /\ s.head \in 0..(HeadMod - 1) /\ h \div HeadMod \in Int
  <2>1. h \in Int
    BY <1>1
  <2>2. QED
    <3> HIDE DEF h, s
    <3> QED BY <1>1, <1>2, <2>1, Division
<1>4. l \in Int /\ l = s.len + LenMod * (l \div LenMod) /\ s.len \in 0..(LenMod - 1) /\ l \div LenMod \in Int
  <2>1. l \in Int
    <3> HIDE DEF h
    <3> QED BY <1>1, <1>3
  <2>2. QED
    <3> HIDE DEF l, s
    <3> QED BY <1>1, <1>2, <2>1, Division
<1>5. f \in Int /\ f = s.fin + LenMod * q /\ s.fin \in 0..(LenMod - 1) /\ q \in Int
  <2>1. f \in Int
    <3> HIDE DEF l
    <3> QED BY <1>1, <1>4
  <2>2. QED
    <3> HIDE DEF f, s
    <3> QED BY <1>1, <1>2, <2>1, Division
<1>6. x = y + Word * q
  <2> DEFINE a == h \div HeadMod
             b == l \div LenMod
  <2>1. m.head + dh = s.head + HeadMod * a
    BY <1>3
  <2>2. m.len + dl = s.len + LenMod * b - a
    <3>1. l = m.len + dl + a
      OBVIOUS
    <3>2. a \in Int /\ b \in Int /\ l = s.len + LenMod * b /\ s.len \in Int
      BY <1>3, <1>4
    <3> HIDE DEF l, a, b, s
    <3>3. m.len + dl = l - a
      BY <1>1, <1>4, <3>1, <3>2
    <3> DEFINE c == LenMod * b
    <3>4. l = s.len + c /\ c \in Int
      BY <1>1, <3>2
    <3> HIDE DEF c
    <3>5. m.len + dl = s.len + c - a
      BY <3>2, <3>3, <3>4
    <3>6. QED
      BY <3>5 DEF c
  <2>3. m.fin + df = s.fin + LenMod * q - b
    <3>1. f = m.fin + df + b
      OBVIOUS
    <3> HIDE DEF f, b, q
    <3>2. b \in Int
      BY <1>4 DEF b
    <3>3. QED
      BY <1>1, <1>5, <3>1, <3>2
  <2>4. a \in Int /\ b \in Int /\ q \in Int /\ s.head \in Int /\ s.len \in Int /\ s.fin \in Int
    BY <1>3, <1>4, <1>5
  <2>5. x = (s.head + HeadMod * a) + HeadMod * ((s.len + LenMod * b - a) + LenMod * (s.fin + LenMod * q - b))
    <3> HIDE DEF a, b, q, s
    <3> QED BY <2>1, <2>2, <2>3 DEF New
  <2> HIDE DEF a, b, q, s, x
  <2>6. (s.len + LenMod * b - a) + LenMod * (s.fin + LenMod * q - b)
          = s.len + LenMod * s.fin + LenMod * (LenMod * q) - a
    BY <1>1, <2>4
  <2>7. x = (s.head + HeadMod * a) + HeadMod * (s.len + LenMod * s.fin + LenMod * (LenMod * q) - a)
    BY <2>5, <2>6
  <2>8. x = s.head + HeadMod * (s.len + LenMod * s.fin) + HeadMod * (LenMod * (LenMod * q))
    BY <1>1, <2>4, <2>7
  <2>9. HeadMod * (LenMod * (LenMod * q)) = Word * q
    BY <1>1, <2>4 DEF Word
  <2>10. QED
    BY <2>8, <2>9 DEF New
<1>7. Word \in Nat \ {0} /\ y \in 0..(Word - 1)
  <2> DEFINE u == s.len + LenMod * s.fin
  <2> HIDE DEF s
  <2>1. u \in 0..(LenMod * LenMod - 1)
    <3>1. LenMod * s.fin <= LenMod * (LenMod - 1)
      <4>1. s.fin \in Int /\ LenMod - 1 \in Int /\ s.fin <= LenMod - 1 /\ LenMod \in Nat
        BY <1>1, <1>5
      <4>2. QED
        BY <4>1, Monotone
    <3>2. LenMod * (LenMod - 1) = LenMod * LenMod - LenMod /\ LenMod * s.fin \in Nat
      BY <1>1, <1>5
    <3>3. QED
      BY <1>1, <1>4, <3>1, <3>2
  <2>2. LenMod * LenMod \in Nat \ {0}
    BY <1>1
  <2>3. y = s.head + HeadMod * u
    BY DEF New
  <2> HIDE DEF u, y
  <2> DEFINE n == LenMod * LenMod
  <2>4. Word = HeadMod * n
    BY DEF Word
  <2> HIDE DEF n
  <2>5. n \in Nat \ {0} /\ u \in 0..(n - 1)
    BY <2>1, <2>2 DEF n
  <2>6. HeadMod * u <= HeadMod * (n - 1) /\ HeadMod * u \in Nat
    BY <1>1, <2>5
  <2>7. HeadMod * (n - 1) = HeadMod * n - HeadMod /\ HeadMod * n \in Nat \ {0}
    BY <1>1, <2>5
  <2>8. QED
    BY <1>1, <1>3, <2>3, <2>4, <2>6, <2>7
<1>8. x % Word = y
  <2> HIDE DEF x, y, q
  <2> QED BY <1>5, <1>6, <1>7, Split
<1>9. QED
  BY <1>8

\* One change of the word keeps it packed.
LEMMA PackedStep ==
  ASSUME Packed, NEW dh \in Int, NEW dl \in Int, NEW df \in Int,
         raw' = (raw + New(dh, dl, df)) % Word, fields' = Plus(fields, dh, dl, df)
  PROVE  Packed'
<1>1. fields' \in Marker
  BY PlusType DEF Packed
<1>2. /\ fields.head \in Int /\ fields.len \in Int /\ fields.fin \in Int
      /\ HeadMod \in Int /\ LenMod \in Int
  BY MarkerAssumption DEF Packed, Marker
<1>3. raw + New(dh, dl, df) = New(fields.head + dh, fields.len + dl, fields.fin + df)
  BY <1>2 DEF Packed, New
<1>4. raw' = New(fields'.head, fields'.len, fields'.fin)
  BY <1>3, WordPlus DEF Packed
<1>5. QED
  BY <1>1, <1>4 DEF Packed

\* The word stays packed whatever the calls do to it.
LEMMA PackedAlways == WSpec => []Packed
<1>1. WInit => Packed
  BY MarkerAssumption DEF WInit, Zero, Packed, New, Marker
<1>2. Packed /\ [WNext]_wvars => Packed'
  <2> SUFFICES ASSUME Packed, [WNext]_wvars PROVE Packed'
    OBVIOUS
  <2>1. ASSUME NEW h \in Int, NEW l \in Int, NEW f \in Int, FetchAdd(h, l, f) PROVE Packed'
    BY <2>1, PackedStep DEF FetchAdd
  <2>2. ASSUME NEW h \in Int, NEW l \in Int, NEW f \in Int, FetchSub(h, l, f) PROVE Packed'
    <3>1. -h \in Int /\ -l \in Int /\ -f \in Int
      OBVIOUS
    <3>2. New(-h, -l, -f) = -New(h, l, f) /\ New(h, l, f) \in Int
      BY MarkerAssumption DEF New
    <3>3. raw \in Int
      BY MarkerAssumption DEF Packed, Marker, New
    <3>4. raw - New(h, l, f) = raw + New(-h, -l, -f)
      BY <3>2, <3>3
    <3>5. QED
      BY <2>2, <3>1, <3>4, PackedStep DEF FetchSub
  <2>3. Sizes \subseteq Int
    BY WordAssumption, MarkerAssumption
  <2>4. CASE UNCHANGED wvars
    BY <2>4 DEF wvars, Packed
  <2>5. QED
    BY <2>1, <2>2, <2>3, <2>4 DEF WNext
<1>3. QED
  BY <1>1, <1>2, PTL DEF WSpec

\* On a target where the masks are as wide as the fields, the threads read out
\* of the word what the record holds, for every width (bbring.rs:170-194).
THEOREM FieldsAlwaysAgree ==
  ASSUME Masks
  PROVE  WSpec => []FieldsAgree
<1>1. Packed => FieldsAgree
  BY Unpack DEF Packed, FieldsAgree
<1>2. QED
  BY <1>1, PackedAlways, PTL
=============================================================================
