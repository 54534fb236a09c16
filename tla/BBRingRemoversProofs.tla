------------------------- MODULE BBRingRemoversProofs -------------------------
(***************************************************************************)
(* The byte ring with any number of removers, more than it is meant for,   *)
(* and whatever went wrong with the pushes, until the drop of a guard      *)
(* carries out of the head field.                                          *)
(*                                                                         *)
(* Each remover inside pop_front, or with a guard, holds a ticket: the     *)
(* count of removals it found when it added its own.  A remover that finds *)
(* nothing takes its addition back whatever tickets were given out since,  *)
(* so that two removers may hold the same one.  The invariant is that the  *)
(* tickets still spread far enough: among n removers there is always one   *)
(* with a ticket of at least finished_len + n - 1, hence no two whose turn *)
(* it is.                                                                  *)
(***************************************************************************)
EXTENDS BBRingProofs, BBRingNested, FiniteSetTheorems

\* The drop of a guard has not carried out of the head field of the removals.
HeadHolds == "carried" \notin faults

\* Until then no addition of one to len or finished_len does so either.
RemovalsFit == HeadHolds => remove_marker.len + 1 < LenMod /\ remove_marker.fin + 1 < LenMod

\* No addition to the pushers' word, and no rollback, does so either.
ReservationsFit ==
  /\ marker.len + 1 < LenMod /\ marker.fin + 1 < LenMod
  /\ \A d \in Payloads : marker.head + Size(d) < HeadMod
  /\ \A p \in Pushers : push[p].pc = "rollback" =>
       Size(push[p].data) <= marker.head /\ 1 <= marker.len

Outstanding == {r \in Removers : pop[r].pc # "idle"}

\* The load that ends the wait replaces the ticket: it was finished_len then.
Ticket == [r \in Removers |-> IF r \in Reading THEN remove_marker.fin ELSE pop[r].rem.len]

\* Among any of the threads O one has a ticket t from f on that leaves room for
\* the tickets of all the others.
Spread(O, t, f) ==
  \A S \in SUBSET O : S # {} => \E r \in S : t[r] >= f + Cardinality(S) - 1

TicketInv ==
  /\ IsFiniteSet(Outstanding)
  /\ remove_marker.len = remove_marker.fin + Cardinality(Outstanding)
  /\ Spread(Outstanding, Ticket, remove_marker.fin)
  /\ \A r \in Outstanding : pop[r].rem.fin <= remove_marker.fin
-----------------------------------------------------------------------------
\* The next ticket keeps them spread.
LEMMA SpreadAdd ==
  ASSUME NEW O, IsFiniteSet(O), NEW x, x \notin O, NEW f \in Nat, NEW t, NEW t2,
         Spread(O, t, f), \A r \in O : t2[r] = t[r], t2[x] = f + Cardinality(O)
  PROVE  Spread(O \cup {x}, t2, f)
<1> SUFFICES ASSUME NEW S \in SUBSET (O \cup {x}), S # {}
             PROVE  \E r \in S : t2[r] >= f + Cardinality(S) - 1
  BY DEF Spread
<1>1. CASE x \in S
  <2>1. IsFiniteSet(O \cup {x}) /\ Cardinality(O \cup {x}) = Cardinality(O) + 1
    BY FS_AddElement
  <2>2. Cardinality(S) <= Cardinality(O) + 1 /\ IsFiniteSet(S)
    BY <2>1, FS_Subset
  <2>3. Cardinality(S) \in Nat /\ Cardinality(O) \in Nat
    BY <2>2, FS_CardinalityType
  <2> QED
    BY <1>1, <2>2, <2>3
<1>2. CASE x \notin S
  <2>1. S \in SUBSET O
    BY <1>2
  <2>2. PICK r \in S : t[r] >= f + Cardinality(S) - 1
    BY <2>1 DEF Spread
  <2> QED
    BY <2>1, <2>2
<1> QED
  BY <1>1, <1>2

\* So does a thread that goes away.
LEMMA SpreadLess ==
  ASSUME NEW O, NEW x, NEW f, NEW t, NEW t2, Spread(O, t, f), \A r \in O \ {x} : t2[r] = t[r]
  PROVE  Spread(O \ {x}, t2, f)
<1> SUFFICES ASSUME NEW S \in SUBSET (O \ {x}), S # {}
             PROVE  \E r \in S : t2[r] >= f + Cardinality(S) - 1
  BY DEF Spread
<1>1. PICK r \in S : t[r] >= f + Cardinality(S) - 1
  BY DEF Spread
<1> QED
  BY <1>1

\* When the thread with the lowest ticket is done, the others are spread from
\* the next one on.
LEMMA SpreadNext ==
  ASSUME NEW O, IsFiniteSet(O), NEW x \in O, NEW f \in Nat, NEW t, NEW t2,
         Spread(O, t, f), t[x] = f, \A r \in O \ {x} : t2[r] = t[r]
  PROVE  Spread(O \ {x}, t2, f + 1)
<1> SUFFICES ASSUME NEW S \in SUBSET (O \ {x}), S # {}
             PROVE  \E r \in S : t2[r] >= f + 1 + Cardinality(S) - 1
  BY DEF Spread
<1>1. IsFiniteSet(S) /\ Cardinality(S) \in Nat /\ Cardinality(S) # 0
  <2>1. IsFiniteSet(S)
    BY FS_Subset
  <2> QED
    BY <2>1, FS_CardinalityType, FS_EmptySet
<1>2. Cardinality(S \cup {x}) = Cardinality(S) + 1
  BY <1>1, FS_AddElement
<1>3. S \cup {x} \in SUBSET O /\ S \cup {x} # {}
  OBVIOUS
<1>4. PICK r \in S \cup {x} : t[r] >= f + (Cardinality(S) + 1) - 1
  BY <1>2, <1>3 DEF Spread
<1>5. r # x
  BY <1>1, <1>4
<1> QED
  BY <1>1, <1>4, <1>5

\* Nobody is left behind, and it is the turn of one thread at most.
LEMMA SpreadTurn ==
  ASSUME NEW O, NEW f \in Nat, NEW t, Spread(O, t, f), NEW x \in O
  PROVE  /\ t[x] >= f
         /\ \A y \in O : t[x] = f /\ t[y] = f => x = y
<1>1. t[x] >= f
  <2>1. {x} \in SUBSET O /\ {x} # {} /\ Cardinality({x}) = 1
    BY FS_Singleton
  <2> QED
    BY <2>1 DEF Spread
<1>2. ASSUME NEW y \in O, t[x] = f, t[y] = f, x # y PROVE FALSE
  <2>1. {x} \cup {y} \in SUBSET O /\ {x} \cup {y} # {}
    OBVIOUS
  <2>2. Cardinality({x} \cup {y}) = 2
    <3>1. IsFiniteSet({x}) /\ Cardinality({x}) = 1
      BY FS_Singleton
    <3>2. Cardinality({x} \cup {y}) = IF y \in {x} THEN Cardinality({x}) ELSE Cardinality({x}) + 1
      BY <3>1, FS_AddElement
    <3> QED
      BY <1>2, <3>1, <3>2
  <2>3. PICK r \in {x} \cup {y} : t[r] >= f + 2 - 1
    BY <2>1, <2>2 DEF Spread
  <2> QED
    BY <1>2, <2>3
<1> QED
  BY <1>1, <1>2
-----------------------------------------------------------------------------
\* In every state the tickets of the readers are the lowest, so there is one.
LEMMA OneReader ==
  ASSUME TypeOK, TicketInv
  PROVE  /\ SingleGuard
         /\ Reading \subseteq Outstanding
         /\ \A r \in Reading : Ticket[r] = remove_marker.fin
         /\ \A r \in Outstanding : Ticket[r] >= remove_marker.fin
<1>1. Reading \subseteq Outstanding /\ \A r \in Reading : Ticket[r] = remove_marker.fin
  BY DEF Reading, Outstanding, Ticket
<1>2. remove_marker.fin \in Nat
  BY Numbers
<1>3. \A r \in Outstanding : Ticket[r] >= remove_marker.fin
  BY <1>2, SpreadTurn DEF TicketInv
<1>4. \A r, s \in Reading : r = s
  BY <1>1, <1>2, SpreadTurn DEF TicketInv
<1> QED
  BY <1>1, <1>3, <1>4 DEF SingleGuard

\* A step that gives out no ticket, takes none back and starts no reading.
LEMMA SameTickets ==
  ASSUME TicketInv, remove_marker' = remove_marker, Outstanding' = Outstanding,
         Ticket' = Ticket, \A r \in Outstanding : pop'[r].rem.fin <= remove_marker.fin
  PROVE  TicketInv'
  BY DEF TicketInv

\* Until a drop carries, the drop of a guard adds to the head field only.
LEMMA DropFits ==
  ASSUME HeadHolds', NEW r \in Removers, DropGuard(r), TypeOK
  PROVE  remove_marker.head + pop[r].len + Hdr < HeadMod
<1>1. ~Carries(r)
  BY DEF HeadHolds, DropGuard
<1>2. remove_marker.head \in Nat /\ pop[r].len \in Nat /\ Hdr \in Nat /\ HeadMod \in Nat
  BY Numbers, BBRingAssumption, MarkerAssumption DEF TypeOK, Lens
<1> QED
  BY <1>1, <1>2 DEF Carries

\* Every step of a remover.
LEMMA RemoverStep ==
  ASSUME TypeOK, TicketInv, RemovalsFit, HeadHolds, HeadHolds', NEW r \in Removers,
         Popping(r) \/ PopReserve(r) \/ \E d \in Payloads : Overwrite(r, d)
  PROVE  TicketInv'
<1>0. /\ pop \in [Removers -> [pc : PopPC, rem : Marker, len : Lens \cup 0..(HeadMod - 1)]]
      /\ remove_marker \in Marker /\ Zero \in Marker
      /\ remove_marker.len \in Nat /\ remove_marker.fin \in Nat /\ remove_marker.head \in Nat
      /\ IsFiniteSet(Outstanding) /\ Cardinality(Outstanding) \in Nat
      /\ \A s \in Removers : pop[s].len \in Nat
      /\ Hdr \in Nat /\ HeadMod \in Nat /\ LenMod \in Nat
      /\ remove_marker.head < HeadMod /\ remove_marker.len < LenMod /\ remove_marker.fin < LenMod
  <2>1. pop \in [Removers -> [pc : PopPC, rem : Marker, len : Lens \cup 0..(HeadMod - 1)]]
    BY DEF TypeOK
  <2>2. \A l \in Lens : l \in Nat
    BY BBRingAssumption DEF Lens
  <2>3. \A s \in Removers : pop[s].len \in Nat
    BY <2>1, <2>2, MarkerAssumption
  <2>4. IsFiniteSet(Outstanding) /\ Cardinality(Outstanding) \in Nat
    BY FS_CardinalityType DEF TicketInv
  <2>5. Zero \in Marker /\ Hdr \in Nat /\ HeadMod \in Nat /\ LenMod \in Nat
    BY BBRingAssumption, MarkerAssumption DEF Zero, Marker
  <2>6. remove_marker \in Marker
    BY DEF TypeOK
  <2>7. remove_marker.head < HeadMod /\ remove_marker.len < LenMod /\ remove_marker.fin < LenMod
    BY <2>5, <2>6 DEF Marker
  <2>8. remove_marker.len \in Nat /\ remove_marker.fin \in Nat /\ remove_marker.head \in Nat
    BY Numbers
  <2> QED
    BY <2>1, <2>3, <2>4, <2>5, <2>6, <2>7, <2>8
<1> DEFINE Local == [pc : PopPC, rem : Marker, len : Lens \cup 0..(HeadMod - 1)]
<1>10. pop[r] \in Local
  BY <1>0
<1>1. CASE PopReserve(r)
  <2>1. remove_marker' = [head |-> remove_marker.head, len |-> remove_marker.len + 1, fin |-> remove_marker.fin]
    <3>1. /\ remove_marker.head + 0 \in 0..(HeadMod - 1) /\ remove_marker.len + 1 \in 0..(LenMod - 1)
          /\ remove_marker.fin + 0 \in 0..(LenMod - 1)
      BY <1>0 DEF RemovalsFit
    <3> QED
      BY <1>0, <1>1, <3>1, PlusNoCarry DEF PopReserve
  <2>2. pop' = [pop EXCEPT ![r] = [pc |-> "load", rem |-> remove_marker, len |-> 0]] /\ pop[r].pc = "idle"
    BY <1>1 DEF PopReserve
  <2>3. Outstanding' = Outstanding \cup {r} /\ r \notin Outstanding
    BY <1>0, <2>2 DEF Outstanding
  <2>4. /\ \A s \in Outstanding : Ticket'[s] = Ticket[s]
        /\ Ticket'[r] = remove_marker.fin + Cardinality(Outstanding)
    <3>1. Reading' = Reading /\ r \notin Reading
      BY <1>0, <2>2 DEF Reading
    <3>2. \A s \in Removers : pop'[s].rem.len = IF s = r THEN remove_marker.len ELSE pop[s].rem.len
      BY <1>0, <2>2
    <3> QED
      BY <2>1, <2>3, <3>1, <3>2 DEF Ticket, TicketInv, Outstanding
  <2>5. Spread(Outstanding', Ticket', remove_marker'.fin)
    BY <1>0, <2>1, <2>3, <2>4, SpreadAdd DEF TicketInv
  <2>6. /\ IsFiniteSet(Outstanding')
        /\ Cardinality(Outstanding') = Cardinality(Outstanding) + 1
    BY <1>0, <2>3, FS_AddElement
  <2>7. \A s \in Outstanding' : pop'[s].rem.fin <= remove_marker'.fin
    BY <1>0, <2>1, <2>2, <2>3 DEF TicketInv
  <2> QED
    BY <1>0, <2>1, <2>5, <2>6, <2>7 DEF TicketInv
<1>2. CASE PopRollback(r)
  <2>1. pop' = [pop EXCEPT ![r] = IdlePop] /\ pop[r].pc = "none"
    BY <1>2 DEF PopRollback, PopReturn
  <2>2. r \in Outstanding /\ Outstanding' = Outstanding \ {r}
    BY <1>0, <2>1 DEF Outstanding, IdlePop
  <2>3. /\ IsFiniteSet(Outstanding')
        /\ Cardinality(Outstanding') = Cardinality(Outstanding) - 1 /\ Cardinality(Outstanding') \in Nat
    BY <1>0, <2>2, FS_RemoveElement, FS_CardinalityType
  <2>4. remove_marker' = [head |-> remove_marker.head, len |-> remove_marker.len - 1, fin |-> remove_marker.fin]
    <3>1. remove_marker.len >= 1
      BY <1>0, <2>3 DEF TicketInv
    <3>2. /\ remove_marker.head + 0 \in 0..(HeadMod - 1) /\ remove_marker.len + (-1) \in 0..(LenMod - 1)
          /\ remove_marker.fin + 0 \in 0..(LenMod - 1)
      BY <1>0, <3>1, MarkerAssumption DEF Marker
    <3> QED
      BY <1>0, <1>2, <3>2, PlusNoCarry DEF PopRollback
  <2>5. \A s \in Outstanding \ {r} : Ticket'[s] = Ticket[s]
    <3>1. Reading' = Reading
      BY <1>0, <2>1 DEF Reading, IdlePop
    <3> QED
      BY <1>0, <2>1, <2>4, <3>1 DEF Ticket, Outstanding
  <2>6. Spread(Outstanding', Ticket', remove_marker'.fin)
    BY <2>2, <2>4, <2>5, SpreadLess DEF TicketInv
  <2>7. \A s \in Outstanding' : pop'[s].rem.fin <= remove_marker'.fin
    BY <1>0, <2>1, <2>2, <2>4 DEF TicketInv, Outstanding
  <2> QED
    BY <1>0, <2>3, <2>4, <2>6, <2>7 DEF TicketInv
<1>3. CASE DropGuard(r)
  <2>1. pop' = [pop EXCEPT ![r] = IdlePop] /\ pop[r].pc = "guard"
    BY <1>3 DEF DropGuard, PopReturn
  <2>2. r \in Reading /\ r \in Outstanding /\ Outstanding' = Outstanding \ {r}
    BY <1>0, <2>1 DEF Outstanding, IdlePop, Reading
  <2>3. /\ IsFiniteSet(Outstanding')
        /\ Cardinality(Outstanding') = Cardinality(Outstanding) - 1
    BY <1>0, <2>2, FS_RemoveElement
  <2>4. /\ remove_marker'.len = remove_marker.len /\ remove_marker'.fin = remove_marker.fin + 1
    <3>1. /\ remove_marker.head + (pop[r].len + Hdr) \in 0..(HeadMod - 1)
          /\ remove_marker.len + 0 \in 0..(LenMod - 1)
          /\ remove_marker.fin + 1 \in 0..(LenMod - 1)
          /\ pop[r].len + Hdr \in Nat
      <4>1. pop[r].len \in Nat /\ remove_marker.head + pop[r].len + Hdr < HeadMod /\ remove_marker.fin + 1 < LenMod
        BY <1>0, <1>3, DropFits DEF RemovalsFit
      <4> QED
        BY <1>0, <4>1
    <3>2. remove_marker' = [head |-> remove_marker.head + (pop[r].len + Hdr),
                            len |-> remove_marker.len + 0, fin |-> remove_marker.fin + 1]
      BY <1>0, <1>3, <3>1, PlusNoCarry DEF DropGuard
    <3> QED
      BY <1>0, <3>2
  <2>5. \A s \in Outstanding \ {r} : s \notin Reading /\ Ticket'[s] = Ticket[s]
    <3>1. \A s \in Outstanding \ {r} : s \notin Reading
      BY <2>2, OneReader DEF SingleGuard, HeadHolds
    <3>2. \A s \in Outstanding \ {r} : s \notin Reading' /\ pop'[s] = pop[s]
      BY <1>0, <2>1, <3>1 DEF Reading, Outstanding
    <3> QED
      BY <3>1, <3>2 DEF Ticket, Outstanding
  <2>6. Spread(Outstanding', Ticket', remove_marker'.fin)
    <3>1. Ticket[r] = remove_marker.fin
      BY <2>2, OneReader
    <3>2. Spread(Outstanding \ {r}, Ticket', remove_marker.fin + 1)
      BY <1>0, <2>2, <2>5, <3>1, SpreadNext DEF TicketInv
    <3> QED
      BY <2>2, <2>4, <3>2
  <2>7. \A s \in Outstanding' : pop'[s].rem.fin <= remove_marker'.fin
    BY <1>0, <2>1, <2>2, <2>4 DEF TicketInv, Outstanding, Marker
  <2> QED
    BY <1>0, <2>3, <2>4, <2>6, <2>7 DEF TicketInv
<1>4. ASSUME remove_marker' = remove_marker, NEW n \in Local,
             pop' = [pop EXCEPT ![r] = n], pop[r].pc # "idle", n.pc # "idle",
             n.rem.fin <= remove_marker.fin,
             (IF n.pc \in {"read", "guard"} THEN remove_marker.fin ELSE n.rem.len) = Ticket[r]
      PROVE  TicketInv'
  <2>1. Outstanding' = Outstanding
    BY <1>0, <1>4 DEF Outstanding
  <2>2. Ticket' = Ticket
    <3>1. ASSUME NEW s \in Removers
          PROVE  (IF s \in Reading' THEN remove_marker'.fin ELSE pop'[s].rem.len) = Ticket[s]
      <4>1. CASE s = r BY <1>0, <1>4, <4>1 DEF Reading
      <4>2. CASE s # r BY <1>0, <1>4, <4>2 DEF Reading, Ticket
      <4> QED BY <4>1, <4>2
    <3> QED
      BY <3>1 DEF Ticket
  <2>3. \A s \in Outstanding : pop'[s].rem.fin <= remove_marker.fin
    BY <1>0, <1>4 DEF TicketInv, Outstanding
  <2> QED
    BY <1>4, <2>1, <2>2, <2>3, SameTickets
<1>5. CASE PopEmpty(r)
  <2>1. pop' = [pop EXCEPT ![r] = [pop[r] EXCEPT !.pc = "none"]] /\ pop[r].pc = "load" /\ remove_marker' = remove_marker
    BY <1>5 DEF PopEmpty, PopStep
  <2>2. r \in Outstanding /\ Ticket[r] = pop[r].rem.len
    BY <2>1 DEF Outstanding, Ticket, Reading
  <2> DEFINE n == [pop[r] EXCEPT !.pc = "none"]
  <2>3. n \in Local /\ n.pc = "none" /\ n.rem = pop[r].rem
    BY <1>10 DEF PopPC
  <2>4. pop[r].rem.fin <= remove_marker.fin
    BY <2>2 DEF TicketInv
  <2> HIDE DEF n
  <2> QED
    BY <1>4, <2>1, <2>2, <2>3, <2>4 DEF n
<1>6. CASE PopClaim(r)
  <2>1. /\ pop' = [pop EXCEPT ![r] = [pop[r] EXCEPT !.pc = IF pop[r].rem.fin = pop[r].rem.len THEN "read" ELSE "wait"]]
        /\ pop[r].pc = "load" /\ remove_marker' = remove_marker
    BY <1>6 DEF PopClaim, PopStep
  <2>2. r \in Outstanding /\ Ticket[r] = pop[r].rem.len /\ pop[r].rem.fin <= remove_marker.fin
    BY <2>1 DEF Outstanding, Ticket, Reading, TicketInv
  <2>3. Ticket[r] >= remove_marker.fin
    BY <2>2, OneReader
  <2>4. pop[r].rem.fin = pop[r].rem.len => Ticket[r] = remove_marker.fin
    BY <1>0, <2>2, <2>3 DEF Marker
  <2> DEFINE pc == IF pop[r].rem.fin = pop[r].rem.len THEN "read" ELSE "wait"
             n == [pop[r] EXCEPT !.pc = pc]
  <2>5. n \in Local /\ n.pc = pc /\ n.rem = pop[r].rem /\ n.pc # "idle"
    BY <1>10 DEF PopPC
  <2>6. (IF n.pc \in {"read", "guard"} THEN remove_marker.fin ELSE n.rem.len) = Ticket[r]
    BY <2>2, <2>4, <2>5
  <2>7. pop' = [pop EXCEPT ![r] = n]
    BY <2>1
  <2> HIDE DEF n, pc
  <2> QED
    BY <1>4, <2>1, <2>2, <2>5, <2>6, <2>7
<1>7. CASE PopAwaitTurn(r)
  <2>1. /\ pop' = [pop EXCEPT ![r] = [pop[r] EXCEPT !.pc = "read", !.rem = remove_marker]]
        /\ pop[r].pc = "wait" /\ remove_marker' = remove_marker /\ pop[r].rem.len = remove_marker.fin
    BY <1>0, <1>7 DEF PopAwaitTurn
  <2>2. Ticket[r] = remove_marker.fin
    BY <2>1 DEF Ticket, Reading
  <2> DEFINE n == [pop[r] EXCEPT !.pc = "read", !.rem = remove_marker]
  <2>3. n \in Local /\ n.pc = "read" /\ n.rem = remove_marker
    BY <1>0, <1>10 DEF PopPC
  <2>4. pop' = [pop EXCEPT ![r] = n] /\ pop[r].pc # "idle" /\ remove_marker' = remove_marker
    BY <2>1
  <2> HIDE DEF n
  <2>5. n.pc # "idle" /\ n.rem.fin <= remove_marker.fin
    BY <1>0, <2>3
  <2>6. (IF n.pc \in {"read", "guard"} THEN remove_marker.fin ELSE n.rem.len) = Ticket[r]
    BY <2>2, <2>3
  <2> HIDE DEF Local
  <2> QED
    BY <1>4, <2>3, <2>4, <2>5, <2>6
<1>8. CASE PopRead(r)
  <2>1. PICK l \in HeaderAt(Start(r)) : pop' = [pop EXCEPT ![r].pc = "guard", ![r].len = l]
    BY <1>8 DEF PopRead
  <2>2. /\ pop' = [pop EXCEPT ![r] = [pop[r] EXCEPT !.pc = "guard", !.len = l]]
        /\ pop[r].pc = "read" /\ remove_marker' = remove_marker /\ l \in Lens \cup 0..(HeadMod - 1)
    BY <1>0, <1>8, <2>1 DEF PopRead, HeaderAt
  <2>3. Ticket[r] = remove_marker.fin /\ r \in Outstanding
    BY <2>2 DEF Ticket, Reading, Outstanding
  <2> DEFINE n == [pop[r] EXCEPT !.pc = "guard", !.len = l]
  <2>4. n \in Local /\ n.pc = "guard" /\ n.rem = pop[r].rem
    BY <1>10, <2>2 DEF PopPC
  <2>5. pop' = [pop EXCEPT ![r] = n] /\ pop[r].rem.fin <= remove_marker.fin
    BY <2>2, <2>3 DEF TicketInv
  <2> HIDE DEF n
  <2> QED
    BY <1>4, <2>2, <2>3, <2>4, <2>5
<1>9. ASSUME NEW d \in Payloads, Overwrite(r, d) PROVE TicketInv'
  BY <1>9 DEF Overwrite, TicketInv, Outstanding, Ticket, Reading
<1> QED
  BY <1>1, <1>2, <1>3, <1>5, <1>6, <1>7, <1>8, <1>9 DEF Popping

\* Every step, the pushers' included.
LEMMA TicketStep ==
  TypeOK /\ (HeadHolds => TicketInv) /\ RemovalsFit /\ [Next]_vars => (HeadHolds => TicketInv)'
<1> SUFFICES ASSUME TypeOK, HeadHolds => TicketInv, RemovalsFit, [Next]_vars, HeadHolds'
             PROVE  TicketInv'
  OBVIOUS
<1>0. HeadHolds /\ TicketInv
  BY FaultsStay DEF HeadHolds
<1>1. ASSUME UNCHANGED <<remove_marker, pop>> PROVE TicketInv'
  BY <1>0, <1>1 DEF TicketInv, Outstanding, Ticket, Reading
<1>2. ASSUME NEW p \in Pushers, Pushing(p) \/ \E d \in Payloads : Reserve(p, d) PROVE TicketInv'
  BY <1>1, <1>2 DEF Pushing, Reserve, Accept, Refuse, Underflow, Rollback, WriteHeader, WritePayload,
     AwaitTurn, Publish
<1> QED
  BY <1>0, <1>1, <1>2, RemoverStep DEF Next, vars

\* No tickets are given out at first.
LEMMA TicketInit == Init => TicketInv
<1> SUFFICES ASSUME Init PROVE TicketInv
  OBVIOUS
<1>1. Outstanding = {}
  BY DEF Init, Outstanding, IdlePop
<1>2. IsFiniteSet({}) /\ Cardinality({}) = 0
  BY FS_EmptySet
<1> QED
  BY <1>1, <1>2 DEF Init, TicketInv, Zero, Spread
-----------------------------------------------------------------------------
\* At most one guard is alive until a drop carries, whatever the number of
\* removers and whatever went wrong with the pushes, as long as the counters of
\* the removals stay within their fields (bbring.rs:110-118, 160).
THEOREM AlwaysSingleGuard == Spec /\ []RemovalsFit => []SingleGuard
<1>1. TypeOK /\ (HeadHolds => TicketInv) => SingleGuard
  BY OneReader DEF SingleGuard, HeadHolds
<1> QED
  BY <1>1, TicketInit, TicketStep, TypeCorrect, PTL DEF Spec
-----------------------------------------------------------------------------
\* Published records are not taken back.
LEMMA PublishedGrows ==
  ASSUME TypeOK, ReservationsFit, NEW p \in Pushers, Pushing(p) \/ \E d \in Payloads : Reserve(p, d)
  PROVE  marker'.fin >= marker.fin /\ UNCHANGED <<remove_marker, pop>>
<1>0. /\ marker \in Marker /\ marker.head \in Nat /\ marker.len \in Nat /\ marker.fin \in Nat
      /\ HeadMod \in Nat /\ LenMod \in Nat
      /\ marker.len + 1 < LenMod /\ marker.fin + 1 < LenMod
  BY Numbers, MarkerAssumption DEF TypeOK, ReservationsFit
<1>1. marker.head < HeadMod
  BY <1>0 DEF Marker
<1>2. ASSUME NEW d \in Payloads, Reserve(p, d) PROVE marker'.fin = marker.fin
  <2>1. Size(d) \in Nat /\ marker.head + Size(d) < HeadMod
    BY SizeType DEF ReservationsFit
  <2>2. /\ marker.head + Size(d) \in 0..(HeadMod - 1) /\ marker.len + 1 \in 0..(LenMod - 1)
        /\ marker.fin + 0 \in 0..(LenMod - 1) /\ Size(d) \in Int
    BY <1>0, <2>1
  <2>3. marker' = Plus(marker, Size(d), 1, 0)
    BY <1>2 DEF Reserve
  <2>4. marker' = [head |-> marker.head + Size(d), len |-> marker.len + 1, fin |-> marker.fin + 0]
    BY <1>0, <2>2, <2>3, PlusNoCarry
  <2> QED
    BY <1>0, <2>4
<1>3. ASSUME Rollback(p) PROVE marker'.fin = marker.fin
  <2>1. push[p].pc = "rollback" /\ push[p].data \in Payloads
    BY <1>3, Numbers DEF Rollback, PushReturn
  <2>2. Size(push[p].data) \in Nat /\ Size(push[p].data) <= marker.head /\ 1 <= marker.len
    BY <2>1, SizeType DEF ReservationsFit
  <2> DEFINE n == Size(push[p].data)
  <2>3. /\ marker.head + (-n) \in 0..(HeadMod - 1) /\ marker.len + (-1) \in 0..(LenMod - 1)
        /\ marker.fin + 0 \in 0..(LenMod - 1) /\ -n \in Int
    <3> HIDE DEF n
    <3>1. n \in Nat /\ n <= marker.head
      BY <2>2 DEF n
    <3> QED BY <1>0, <1>1, <2>2, <3>1
  <2>4. marker' = Plus(marker, -n, -1, 0)
    BY <1>3 DEF Rollback
  <2> HIDE DEF n
  <2>5. marker' = [head |-> marker.head + (-n), len |-> marker.len + (-1), fin |-> marker.fin + 0]
    BY <1>0, <2>3, <2>4, PlusNoCarry
  <2> QED
    BY <1>0, <2>5
<1>4. ASSUME Publish(p) PROVE marker'.fin = marker.fin + 1
  <2>1. marker' = [head |-> marker.head + 0, len |-> marker.len + 0, fin |-> marker.fin + 1]
    BY <1>0, <1>1, <1>4, PlusNoCarry DEF Publish
  <2> QED
    BY <1>0, <2>1
<1>5. marker' = marker \/ Rollback(p) \/ Publish(p) \/ \E d \in Payloads : Reserve(p, d)
  BY DEF Pushing, Accept, Refuse, Underflow, WriteHeader, WritePayload, AwaitTurn
<1>6. UNCHANGED <<remove_marker, pop>>
  BY DEF Pushing, Reserve, Accept, Refuse, Underflow, Rollback, WriteHeader, WritePayload, AwaitTurn, Publish
<1> QED
  BY <1>0, <1>2, <1>3, <1>4, <1>5, <1>6

\* No step of a remover lets the removals overtake the published records.
LEMMA RemoverBehind ==
  ASSUME TypeOK, TicketInv, RemovalsFit, HeadHolds, HeadHolds', RemoversBehind, NEW r \in Removers,
         Popping(r) \/ PopReserve(r) \/ \E d \in Payloads : Overwrite(r, d)
  PROVE  RemoversBehind'
<1>0. /\ pop \in [Removers -> [pc : PopPC, rem : Marker, len : Lens \cup 0..(HeadMod - 1)]]
      /\ remove_marker \in Marker /\ marker \in Marker
      /\ remove_marker.len \in Nat /\ remove_marker.fin \in Nat /\ remove_marker.head \in Nat
      /\ marker.fin \in Nat /\ marker' = marker
      /\ Hdr \in Nat /\ HeadMod \in Nat /\ LenMod \in Nat
  BY Numbers, BBRingAssumption, MarkerAssumption
     DEF TypeOK, Popping, PopEmpty, PopRollback, PopClaim, PopAwaitTurn, PopRead, DropGuard, PopReserve, Overwrite
<1>1. remove_marker.head < HeadMod /\ remove_marker.len < LenMod /\ remove_marker.fin < LenMod
  BY <1>0 DEF Marker
<1>2. pop[r].len \in Nat
  BY <1>0, BBRingAssumption, MarkerAssumption DEF Lens
<1>3. CASE PopReserve(r)
  <2>1. remove_marker' = [head |-> remove_marker.head + 0, len |-> remove_marker.len + 1, fin |-> remove_marker.fin + 0]
    BY <1>0, <1>1, <1>3, PlusNoCarry DEF PopReserve, RemovalsFit
  <2>2. remove_marker'.fin = remove_marker.fin
    BY <1>0, <2>1
  <2> QED
    BY <1>0, <1>3, <2>2 DEF PopReserve, RemoversBehind, Reading, HeadHolds
<1>4. CASE PopRollback(r)
  <2>1. remove_marker.len >= 1
    <3>1. r \in Outstanding /\ IsFiniteSet(Outstanding) /\ Outstanding # {}
      BY <1>4 DEF PopRollback, PopReturn, Outstanding, TicketInv
    <3>2. Cardinality(Outstanding) \in Nat /\ Cardinality(Outstanding) # 0
      BY <3>1, FS_CardinalityType, FS_EmptySet
    <3> QED
      BY <1>0, <3>2 DEF TicketInv
  <2>2. remove_marker' = [head |-> remove_marker.head + 0, len |-> remove_marker.len + (-1), fin |-> remove_marker.fin + 0]
    BY <1>0, <1>1, <1>4, <2>1, PlusNoCarry DEF PopRollback
  <2>3. remove_marker'.fin = remove_marker.fin
    BY <1>0, <2>2
  <2> QED
    BY <1>0, <1>4, <2>3 DEF PopRollback, PopReturn, IdlePop, RemoversBehind, Reading, HeadHolds
<1>5. CASE DropGuard(r)
  <2>1. /\ remove_marker.head + (pop[r].len + Hdr) \in 0..(HeadMod - 1)
        /\ remove_marker.len + 0 \in 0..(LenMod - 1) /\ remove_marker.fin + 1 \in 0..(LenMod - 1)
        /\ pop[r].len + Hdr \in Int
    <3>1. remove_marker.head + pop[r].len + Hdr < HeadMod /\ remove_marker.fin + 1 < LenMod
      BY <1>5, DropFits DEF RemovalsFit
    <3> QED
      BY <1>0, <1>1, <1>2, <3>1
  <2>2. remove_marker' = [head |-> remove_marker.head + (pop[r].len + Hdr), len |-> remove_marker.len + 0,
                          fin |-> remove_marker.fin + 1]
    BY <1>0, <1>5, <2>1, PlusNoCarry DEF DropGuard
  <2>3. remove_marker'.fin = remove_marker.fin + 1
    BY <2>2
  <2>4. r \in Reading /\ pop' = [pop EXCEPT ![r] = IdlePop]
    BY <1>5 DEF DropGuard, PopReturn, Reading
  <2>5. \A s \in Reading : s = r
    BY <2>4, OneReader DEF SingleGuard, HeadHolds
  <2>6. Reading' = {}
    BY <1>0, <2>4, <2>5 DEF Reading, IdlePop
  <2> QED
    BY <1>0, <2>3, <2>4, <2>6 DEF RemoversBehind, IdlePop, HeadHolds
<1>6. CASE PopClaim(r)
  <2>1. /\ pop' = [pop EXCEPT ![r] = [pop[r] EXCEPT !.pc = IF pop[r].rem.fin = pop[r].rem.len THEN "read" ELSE "wait"]]
        /\ pop[r].pc = "load" /\ remove_marker' = remove_marker /\ pop[r].rem.len < marker.fin
    BY <1>6 DEF PopClaim, PopStep
  <2>2. r \in Outstanding /\ Ticket[r] = pop[r].rem.len
    BY <2>1 DEF Outstanding, Ticket, Reading
  <2>3. pop[r].rem.len >= remove_marker.fin /\ pop[r].rem.len \in Nat
    BY <1>0, <2>2, OneReader DEF Marker
  <2>4. remove_marker.fin < marker.fin
    BY <1>0, <2>1, <2>3
  <2> QED
    BY <1>0, <2>1, <2>4 DEF RemoversBehind, Reading, HeadHolds
<1>7. CASE PopAwaitTurn(r)
  <2>1. /\ pop' = [pop EXCEPT ![r].pc = "read", ![r].rem = remove_marker]
        /\ pop[r].pc = "wait" /\ pop[r].rem.len = remove_marker.fin /\ remove_marker' = remove_marker
    BY <1>7 DEF PopAwaitTurn
  <2>2. remove_marker.fin < marker.fin
    BY <2>1 DEF RemoversBehind, HeadHolds
  <2> QED
    BY <1>0, <2>1, <2>2 DEF RemoversBehind, Reading, HeadHolds
<1>8. CASE PopRead(r)
  <2>1. PICK l \in HeaderAt(Start(r)) : pop' = [pop EXCEPT ![r].pc = "guard", ![r].len = l]
    BY <1>8 DEF PopRead
  <2> QED
    BY <1>0, <1>8, <2>1 DEF PopRead, RemoversBehind, Reading, HeadHolds
<1>9. CASE PopEmpty(r)
  BY <1>0, <1>9 DEF PopEmpty, PopStep, RemoversBehind, Reading, HeadHolds
<1>10. ASSUME NEW d \in Payloads, Overwrite(r, d) PROVE RemoversBehind'
  BY <1>0, <1>10 DEF Overwrite, RemoversBehind, Reading, HeadHolds
<1> QED
  BY <1>3, <1>4, <1>5, <1>6, <1>7, <1>8, <1>9, <1>10 DEF Popping

\* Neither does any other step.
LEMMA BehindStep ==
  TypeOK /\ (HeadHolds => TicketInv) /\ RemovalsFit /\ ReservationsFit /\ RemoversBehind /\ [Next]_vars
    => RemoversBehind'
<1> SUFFICES ASSUME TypeOK, HeadHolds => TicketInv, RemovalsFit, ReservationsFit, RemoversBehind,
                    [Next]_vars, HeadHolds'
             PROVE  RemoversBehind'
  BY DEF RemoversBehind, HeadHolds
<1>0. HeadHolds /\ TicketInv
  BY FaultsStay DEF HeadHolds
<1>1. CASE UNCHANGED vars
  BY <1>0, <1>1 DEF vars, RemoversBehind, Reading, HeadHolds
<1>2. ASSUME NEW p \in Pushers, Pushing(p) \/ \E d \in Payloads : Reserve(p, d) PROVE RemoversBehind'
  <2>1. marker'.fin >= marker.fin /\ remove_marker' = remove_marker /\ pop' = pop
    BY <1>2, PublishedGrows
  <2>2. marker.fin \in Nat /\ remove_marker.fin \in Nat /\ \A r \in Removers : pop[r].rem.len \in Nat
    BY Numbers DEF TypeOK, Marker
  <2>3. marker'.fin \in Nat
    <3>1. TypeOK'
      BY TypeStep
    <3> QED
      BY <3>1 DEF TypeOK, Marker
  <2> QED
    BY <1>0, <2>1, <2>2, <2>3 DEF RemoversBehind, Reading, HeadHolds
<1> QED
  BY <1>0, <1>1, <1>2, RemoverBehind DEF Next

\* The removers never claim a record that was not published, until a drop
\* carries, whatever their number and whatever went wrong with the pushes, as
\* long as the counters stay within their fields (bbring.rs:103-110).
THEOREM RemoversAlwaysBehind == Spec /\ [](RemovalsFit /\ ReservationsFit) => []RemoversBehind
<1>1. Init => RemoversBehind
  BY DEF Init, RemoversBehind, Reading, Zero, IdlePop
<1> QED
  BY <1>1, TicketInit, TicketStep, BehindStep, TypeCorrect, PTL DEF Spec
-----------------------------------------------------------------------------
(***************************************************************************)
(* One thread that calls pop_front again while it holds guards: here the   *)
(* removers are its calls and its guards, and one call runs at a time.     *)
(***************************************************************************)
\* The call under way has the last ticket, given out when the removers' word had
\* the finished_len it still has.
CallInv ==
  /\ \A r, s \in Removers : Running(r) /\ Running(s) => r = s
  /\ \A r \in Removers : pop[r].pc \in {"load", "wait"} =>
       pop[r].rem.fin = remove_marker.fin /\ pop[r].rem.len = remove_marker.len - 1
  /\ \A r \in Removers : pop[r].pc = "wait" => pop[r].rem.len # pop[r].rem.fin

\* A step of the one thread that removes is one of a remover.
LEMMA NestedIsNext == [NestedNext]_vars => [Next]_vars
  BY DEF NestedNext, Removing, Next

\* What a reservation adds to the word.
LEMMA TicketGivenOut ==
  ASSUME TypeOK, RemovalsFit, HeadHolds, NEW r \in Removers, PopReserve(r)
  PROVE  remove_marker'.len = remove_marker.len + 1 /\ remove_marker'.fin = remove_marker.fin
<1>1. /\ remove_marker.head \in Nat /\ remove_marker.len \in Nat /\ remove_marker.fin \in Nat
      /\ remove_marker \in Marker /\ LenMod \in Nat /\ HeadMod \in Nat
  BY Numbers, MarkerAssumption DEF TypeOK
<1>2. /\ remove_marker.head + 0 \in 0..(HeadMod - 1) /\ remove_marker.len + 1 \in 0..(LenMod - 1)
      /\ remove_marker.fin + 0 \in 0..(LenMod - 1)
  BY <1>1 DEF RemovalsFit, Marker
<1>3. remove_marker' = [head |-> remove_marker.head + 0, len |-> remove_marker.len + 1,
                        fin |-> remove_marker.fin + 0]
  BY <1>1, <1>2, PlusNoCarry DEF PopReserve
<1> QED
  BY <1>1, <1>3

\* No call to begin with.
LEMMA CallInit == Init => CallInv
  BY DEF Init, CallInv, Running, IdlePop

\* While a call is under way only it takes steps, and none that changes the word
\* but the last.
LEMMA CallStep ==
  ASSUME TypeOK, RemovalsFit, HeadHolds, CallInv, [NestedNext]_vars
  PROVE  CallInv'
<1>0. pop \in [Removers -> [pc : PopPC, rem : Marker, len : Lens \cup 0..(HeadMod - 1)]]
  BY DEF TypeOK
<1>1. CASE pop' = pop /\ remove_marker' = remove_marker
  BY <1>1 DEF CallInv, Running
<1>2. ASSUME NEW r \in Removers, Removing(r) PROVE CallInv'
  <2>1. \A s \in Removers \ {r} : ~Running(s)
    BY <1>2 DEF Removing, MayRun
  <2>2. /\ \A s \in Removers \ {r} : pop'[s] = pop[s]
        /\ pop'[r].pc \in {"load", "wait"} =>
             /\ pop'[r].rem.fin = remove_marker'.fin
             /\ pop'[r].rem.len = remove_marker'.len - 1
             /\ pop'[r].pc = "wait" => pop'[r].rem.len # pop'[r].rem.fin
    <3>1. CASE PopReserve(r)
      <4>1. pop'[r].pc = "load" /\ pop'[r].rem = remove_marker
        BY <1>0, <3>1 DEF PopReserve
      <4>2. remove_marker.len \in Nat
        BY Numbers
      <4>3. pop'[r].rem.fin = remove_marker'.fin /\ pop'[r].rem.len = remove_marker'.len - 1
        BY <3>1, <4>1, <4>2, TicketGivenOut
      <4>4. \A s \in Removers \ {r} : pop'[s] = pop[s]
        BY <1>0, <3>1 DEF PopReserve
      <4> QED
        BY <4>1, <4>3, <4>4
    <3>2. CASE PopClaim(r)
      <4>1. pop'[r].rem = pop[r].rem /\ remove_marker' = remove_marker /\ pop[r].pc = "load"
        BY <1>0, <3>2 DEF PopClaim, PopStep
      <4>2. pop'[r].pc = "wait" => pop[r].rem.fin # pop[r].rem.len
        BY <1>0, <3>2 DEF PopClaim, PopStep
      <4> QED
        BY <1>0, <3>2, <4>1, <4>2 DEF CallInv, PopClaim, PopStep
    <3>3. CASE PopEmpty(r) \/ PopAwaitTurn(r) \/ PopRead(r)
      BY <1>0, <3>3 DEF PopEmpty, PopAwaitTurn, PopRead, PopStep
    <3>4. CASE PopRollback(r) \/ DropGuard(r)
      BY <1>0, <3>4 DEF PopRollback, DropGuard, PopReturn, IdlePop
    <3>5. CASE \E d \in Payloads : Overwrite(r, d)
      BY <1>0, <3>5 DEF Overwrite
    <3> QED
      BY <1>2, <3>1, <3>2, <3>3, <3>4, <3>5 DEF Removing, Popping
  <2>3. \A s \in Removers \ {r} : pop'[s].pc \notin {"load", "none", "wait", "read"}
    BY <2>1, <2>2 DEF Running
  <2> QED
    BY <2>2, <2>3 DEF CallInv, Running
<1>3. ASSUME NEW p \in Pushers, Pushing(p) \/ \E d \in Payloads : Reserve(p, d) PROVE CallInv'
  <2>1. pop' = pop /\ remove_marker' = remove_marker
    BY <1>3 DEF Pushing, Accept, Refuse, Underflow, Rollback, WriteHeader, WritePayload, AwaitTurn, Publish,
                Reserve
  <2> QED
    BY <1>1, <2>1
<1> QED
  BY <1>1, <1>2, <1>3 DEF NestedNext, vars

\* A call that waits has not got the first ticket, so a guard is alive, which its
\* own thread holds; and it does not go on.
LEMMA HangStep ==
  ASSUME TypeOK, TicketInv, CallInv, [NestedNext]_vars, NEW r \in Removers, pop[r].pc = "wait"
  PROVE  WaitsForItself(r) /\ pop'[r].pc = "wait"
<1>0. /\ pop \in [Removers -> [pc : PopPC, rem : Marker, len : Lens \cup 0..(HeadMod - 1)]]
      /\ remove_marker.len \in Nat /\ remove_marker.fin \in Nat
  BY Numbers DEF TypeOK
<1>1. pop[r].rem.len = remove_marker.len - 1 /\ pop[r].rem.len # remove_marker.fin
  BY DEF CallInv
<1>2. r \in Outstanding /\ Cardinality(Outstanding) # 1
  BY <1>0, <1>1 DEF TicketInv, Outstanding
<1>3. PICK s \in Outstanding : s # r
  <2>1. Outstanding # {r}
    BY <1>2, FS_Singleton
  <2> QED
    BY <1>2, <2>1
<1>4. pop[s].pc = "guard"
  <2>1. ~Running(s) /\ s \in Removers
    BY <1>3 DEF CallInv, Running, Outstanding
  <2> QED
    BY <1>0, <1>3, <2>1 DEF Running, Outstanding, PopPC
<1>5. WaitsForItself(r)
  BY <1>3, <1>4 DEF WaitsForItself, Outstanding
<1>6. pop'[r].pc = "wait"
  <2>1. ASSUME NEW x \in Removers, Removing(x) PROVE pop'[r].pc = "wait"
    <3>1. x = r
      BY <2>1 DEF Removing, MayRun, Running
    <3>2. FALSE
      BY <1>1, <2>1, <3>1 DEF Removing, Popping, PopReserve, Overwrite, PopEmpty, PopRollback, PopClaim,
                              PopAwaitTurn, PopRead, DropGuard, PopStep, PopReturn
    <3> QED
      BY <3>2
  <2>2. ASSUME NEW p \in Pushers, Pushing(p) \/ \E d \in Payloads : Reserve(p, d) PROVE pop'[r].pc = "wait"
    BY <2>2 DEF Pushing, Accept, Refuse, Underflow, Rollback, WriteHeader, WritePayload, AwaitTurn, Publish,
                Reserve
  <2> QED
    BY <2>1, <2>2 DEF NestedNext, vars
<1> QED
  BY <1>5, <1>6

\* Unless the drop of a guard carried before, a call of pop_front that finds a
\* record while its own thread holds a guard never returns, whatever the pushers
\* do and whatever went wrong with them (bbring.rs:113-116).
THEOREM NestedCallAlwaysHangs == NestedSpec /\ []RemovalsFit => NestedCallHangs
<1> DEFINE NInv == TypeOK /\ (HeadHolds => TicketInv) /\ (HeadHolds => CallInv)
<1>1. Init => NInv
  BY TypeInit, TicketInit, CallInit
<1>2. ASSUME NInv, RemovalsFit, [NestedNext]_vars PROVE NInv'
  <2>1. [Next]_vars
    BY <1>2, NestedIsNext
  <2>2. TypeOK' /\ (HeadHolds => TicketInv)'
    BY <1>2, <2>1, TypeStep, TicketStep
  <2>3. HeadHolds' => HeadHolds
    BY <2>1, FaultsStay DEF HeadHolds
  <2> QED
    BY <1>2, <2>2, <2>3, CallStep
<1>3. ASSUME NInv, [NestedNext]_vars
      PROVE  \A r \in Removers :
               "carried" \notin faults /\ pop[r].pc = "wait" => WaitsForItself(r) /\ pop'[r].pc = "wait"
  BY <1>3, HangStep DEF HeadHolds
<1> QED
  BY <1>1, <1>2, <1>3, PTL DEF NestedSpec, NestedCallHangs
=============================================================================
