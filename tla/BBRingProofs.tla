---------------------------- MODULE BBRingProofs ----------------------------
(***************************************************************************)
(* Theorems about the byte ring, for any number of pushers, any payloads   *)
(* and any capacity.  They suppose what the ring is documented for: a      *)
(* single remover thread (bbring.rs:51), and counters that stay within     *)
(* their fields (NoCarry).                                                 *)
(*                                                                         *)
(* The inductive invariant follows the reservations: as long as no fault   *)
(* has happened, the log lists them back to back from byte 0, the words    *)
(* are its summary, and every reservation not yet published is owned by    *)
(* one thread inside push.                                                 *)
(***************************************************************************)
EXTENDS BBRing, MarkerProofs, SequenceTheorems, FiniteSetTheorems

LoneRemover == \A r, s \in Removers : r = s

NoCarry == MaxHead < HeadMod /\ MaxReserved + 1 < LenMod

\* The first byte of reservation i + 1, or of the next one to be made.
Mark(i) == IF i < Len(log) THEN log[i + 1].at ELSE marker.head

Active == {p \in Pushers : push[p].pc \notin {"idle", "panicked"}}

\* The reservations lie back to back from the first byte on.
LogInv ==
  /\ marker.len = Len(log) /\ marker.len <= MaxReserved
  /\ marker.head <= MaxHead
  /\ marker.fin <= marker.len
  /\ Mark(0) = 0
  /\ \A i \in 0..(Len(log) - 1) : Mark(i + 1) = Mark(i) + Size(log[i + 1].data)
  /\ \A i, j \in 0..Len(log) : i <= j => Mark(i) <= Mark(j)

\* A thread inside push owns one reservation that is not published.
PushInv ==
  /\ \A p \in Pushers : push[p].pc # "panicked"
  /\ \A p \in Active :
       /\ marker.fin <= push[p].at.len /\ push[p].at.len < Len(log)
       /\ log[push[p].at.len + 1] = [data |-> push[p].data, at |-> push[p].at.head]
       /\ push[p].pc = "publish" => push[p].at.len = marker.fin
       /\ p \in Accepted => ~Overruns(p)
  /\ \A p, q \in Active : push[p].at.len = push[q].at.len => p = q

\* Every reservation that is not published is owned.
TurnInv == \A i \in marker.fin..(marker.len - 1) : \E p \in Active : push[p].at.len = i

HeaderStored(at, d) == \A k \in 0..(Hdr - 1) : buf[at + k] = LenByte(PayloadLen[d], k)
DataStored(at, d) == \A k \in 0..(PayloadLen[d] - 1) : buf[at + Hdr + k] = DataByte(d, k)

\* What has been written is there, and stays there once published.
BufInv ==
  /\ \A i \in 0..(marker.fin - 1) :
       /\ Mark(i + 1) <= Cap
       /\ HeaderStored(Mark(i), log[i + 1].data) /\ DataStored(Mark(i), log[i + 1].data)
  /\ \A p \in Accepted :
       /\ push[p].pc # "header" => HeaderStored(push[p].at.head, push[p].data)
       /\ push[p].pc \in {"wait", "publish"} => DataStored(push[p].at.head, push[p].data)

\* The remover is at the first record it has not given back.
PopInv ==
  /\ remove_marker.fin <= marker.fin
  /\ remove_marker.head = Mark(remove_marker.fin)
  /\ \A r \in Removers :
       /\ pop[r].pc = "idle" => remove_marker.len = remove_marker.fin
       /\ pop[r].pc # "idle" =>
            /\ remove_marker.len = remove_marker.fin + 1
            /\ pop[r].rem = [remove_marker EXCEPT !.len = remove_marker.fin]
       /\ pop[r].pc # "wait"
       /\ pop[r].pc \in {"read", "guard"} => remove_marker.fin < marker.fin
       /\ pop[r].pc = "guard" => pop[r].len = PayloadLen[log[remove_marker.fin + 1].data]

Sound == LogInv /\ PushInv /\ TurnInv /\ BufInv /\ PopInv

IInv == TypeOK /\ (faults = {} => Sound)
-----------------------------------------------------------------------------
(***************************************************************************)
(* Type correctness                                                        *)
(***************************************************************************)

\* Sizes are natural numbers, a record of the shortest payload included.
LEMMA SizeType ==
  ASSUME NEW d \in Payloads
  PROVE  PayloadLen[d] \in Nat /\ Size(d) \in Nat /\ Size(d) >= Hdr /\ Hdr >= 1
  BY BBRingAssumption DEF Size

LEMMA TypeInit == Init => TypeOK
<1> SUFFICES ASSUME Init PROVE TypeOK
  OBVIOUS
<1>1. Zero \in Marker
  BY MarkerAssumption DEF Zero, Marker
<1>2. push \in [Pushers -> [pc : PushPC, at : Marker, data : Payloads \cup {NoPayload}]]
  BY <1>1 DEF Init, IdlePush, PushPC
<1>3. pop \in [Removers -> [pc : PopPC, rem : Marker, len : Lens \cup 0..(HeadMod - 1)]]
  BY <1>1, MarkerAssumption DEF Init, IdlePop, PopPC
<1>4. buf \in [Addr -> Byte]
  BY DEF Init, Byte
<1>5. log \in Seq([data : Payloads, at : 0..(HeadMod - 1)])
  BY DEF Init
<1>6. QED
  BY <1>1, <1>2, <1>3, <1>4, <1>5 DEF Init, TypeOK, IdlePush

\* A thread's move changes its place in push and nothing else of its record.
LEMMA PushMoveType ==
  ASSUME TypeOK, NEW p \in Pushers, NEW from \in PushPC, NEW to \in PushPC,
         from # "idle", PushStep(p, from, to) \/ PushReturn(p, from)
  PROVE  /\ push' \in [Pushers -> [pc : PushPC, at : Marker, data : Payloads \cup {NoPayload}]]
         /\ \A q \in Pushers : push'[q].pc # "idle" => push'[q].data \in Payloads
         /\ push[p].data \in Payloads
<1>1. Zero \in Marker
  BY MarkerAssumption DEF Zero, Marker
<1>2. push[p].data \in Payloads
  BY DEF TypeOK, PushStep, PushReturn
<1>3. CASE PushStep(p, from, to)
  BY <1>2, <1>3 DEF TypeOK, PushStep
<1>4. CASE PushReturn(p, from)
  BY <1>1, <1>2, <1>4 DEF TypeOK, PushReturn, IdlePush, PushPC
<1>5. QED
  BY <1>2, <1>3, <1>4

\* The same for a thread in pop_front.
LEMMA PopMoveType ==
  ASSUME TypeOK, NEW r \in Removers, NEW from \in PopPC, NEW to \in PopPC,
         PopStep(r, from, to) \/ PopReturn(r, from)
  PROVE  pop' \in [Removers -> [pc : PopPC, rem : Marker, len : Lens \cup 0..(HeadMod - 1)]]
<1>1. Zero \in Marker
  BY MarkerAssumption DEF Zero, Marker
<1>2. CASE PopStep(r, from, to)
  BY <1>2 DEF TypeOK, PopStep
<1>3. CASE PopReturn(r, from)
  BY <1>1, <1>3, MarkerAssumption DEF TypeOK, PopReturn, IdlePop, PopPC
<1>4. QED
  BY <1>2, <1>3

\* Rewriting a record keeps the log a list of reservations of as many bytes.
LEMMA RewrittenLog ==
  ASSUME TypeOK, NEW d \in Payloads
  PROVE  /\ Rewritten(d) \in Seq([data : Payloads, at : 0..(HeadMod - 1)])
         /\ Len(Rewritten(d)) = Len(log)
         /\ \A i \in 1..Len(log) :
              /\ i # remove_marker.fin + 1 => Rewritten(d)[i] = log[i]
              /\ i = remove_marker.fin + 1 => Rewritten(d)[i] = [data |-> d, at |-> log[i].at]
<1> DEFINE Entry == [data : Payloads, at : 0..(HeadMod - 1)]
           Put(i) == IF i = remove_marker.fin + 1 THEN [log[i] EXCEPT !.data = d] ELSE log[i]
<1>1. log \in Seq(Entry) /\ Len(log) \in Nat
  BY LenProperties DEF TypeOK
<1>2. \A i \in 1..Len(log) : log[i] \in Entry
  <2> HIDE DEF Entry
  <2>1. QED
    BY <1>1, ElementOfSeq
<1>3. \A i \in 1..Len(log) : [log[i] EXCEPT !.data = d] = [data |-> d, at |-> log[i].at]
  BY <1>2
<1>4. \A i \in 1..Len(log) : Put(i) \in Entry
  BY <1>2, <1>3
<1>5. Rewritten(d) = [i \in 1..Len(log) |-> Put(i)]
  BY DEF Rewritten
<1> HIDE DEF Entry, Put
<1>6. Rewritten(d) \in Seq(Entry)
  BY <1>1, <1>4, <1>5, IsASeq
<1>7. Len(Rewritten(d)) = Len(log)
  BY <1>1, <1>5, <1>6, LenProperties
<1>8. QED
  BY <1>3, <1>5, <1>6, <1>7 DEF Entry, Put

\* Every action keeps the types.
LEMMA TypeStep == TypeOK /\ [Next]_vars => TypeOK'
<1> SUFFICES ASSUME TypeOK, [Next]_vars PROVE TypeOK'
  OBVIOUS
<1>1. ASSUME NEW p \in Pushers, NEW d \in Payloads, Reserve(p, d) PROVE TypeOK'
  <2>1. marker' \in Marker
    BY <1>1, PlusType, SizeType DEF Reserve, TypeOK
  <2>2. push' \in [Pushers -> [pc : PushPC, at : Marker, data : Payloads \cup {NoPayload}]]
    BY <1>1 DEF Reserve, TypeOK, PushPC
  <2>3. \A q \in Pushers : push'[q].pc # "idle" => push'[q].data \in Payloads
    BY <1>1 DEF Reserve, TypeOK, PushPC
  <2>4. [data |-> d, at |-> marker.head] \in [data : Payloads, at : 0..(HeadMod - 1)]
    BY DEF TypeOK, Marker
  <2>5. log' \in Seq([data : Payloads, at : 0..(HeadMod - 1)])
    BY <1>1, <2>4, AppendProperties DEF Reserve, TypeOK
  <2>6. QED
    BY <1>1, <2>1, <2>2, <2>3, <2>5 DEF Reserve, TypeOK
<1>2. ASSUME NEW p \in Pushers, Accept(p) PROVE TypeOK'
  BY <1>2, PushMoveType DEF Accept, TypeOK, PushPC
<1>3. ASSUME NEW p \in Pushers, Refuse(p) PROVE TypeOK'
  BY <1>3, PushMoveType DEF Refuse, TypeOK, PushPC
<1>4. ASSUME NEW p \in Pushers, Underflow(p) PROVE TypeOK'
  BY <1>4, PushMoveType DEF Underflow, TypeOK, PushPC
<1>5. ASSUME NEW p \in Pushers, Rollback(p) PROVE TypeOK'
  <2>1. /\ push' \in [Pushers -> [pc : PushPC, at : Marker, data : Payloads \cup {NoPayload}]]
        /\ \A q \in Pushers : push'[q].pc # "idle" => push'[q].data \in Payloads
        /\ push[p].data \in Payloads
    BY <1>5, PushMoveType DEF Rollback, PushPC
  <2>2. marker' \in Marker
    BY <1>5, <2>1, PlusType, SizeType DEF Rollback, TypeOK
  <2>3. SubSeq(log, 1, Len(log) - 1) \in Seq([data : Payloads, at : 0..(HeadMod - 1)])
    <3> DEFINE Entry == [data : Payloads, at : 0..(HeadMod - 1)]
    <3>1. log \in Seq(Entry)
      BY DEF TypeOK
    <3> HIDE DEF Entry
    <3>2. Len(log) \in Nat
      BY <3>1, LenProperties
    <3>3. \A i \in 1..(Len(log) - 1) : log[i] \in Entry
      BY <3>1, <3>2, ElementOfSeq
    <3>4. SubSeq(log, 1, Len(log) - 1) \in Seq(Entry)
      BY <3>2, <3>3, SubSeqProperties
    <3>5. QED
      BY <3>4 DEF Entry
  <2>4. log' \in Seq([data : Payloads, at : 0..(HeadMod - 1)])
    BY <1>5, <2>3 DEF Rollback, TypeOK
  <2>5. faults' \subseteq {"overrun", "overtaken", "carried"}
    BY <1>5 DEF Rollback, TypeOK
  <2>6. QED
    BY <1>5, <2>1, <2>2, <2>4, <2>5 DEF Rollback, TypeOK
<1>6. ASSUME NEW p \in Pushers, WriteHeader(p) PROVE TypeOK'
  <2>1. /\ push' \in [Pushers -> [pc : PushPC, at : Marker, data : Payloads \cup {NoPayload}]]
        /\ \A q \in Pushers : push'[q].pc # "idle" => push'[q].data \in Payloads
        /\ push[p].data \in Payloads
    BY <1>6, PushMoveType DEF WriteHeader, PushPC
  <2>2. \A i \in 0..(Hdr - 1) : LenByte(PayloadLen[push[p].data], i) \in Byte
    BY <2>1 DEF Byte, Lens
  <2>3. push[p].at.head \in Nat
    BY DEF TypeOK, Marker
  <2>4. buf' \in [Addr -> Byte]
    BY <1>6, <2>2, <2>3, BBRingAssumption DEF WriteHeader, Stored, TypeOK, Addr
  <2>5. QED
    BY <1>6, <2>1, <2>4 DEF WriteHeader, TypeOK
<1>7. ASSUME NEW p \in Pushers, WritePayload(p) PROVE TypeOK'
  <2>1. /\ push' \in [Pushers -> [pc : PushPC, at : Marker, data : Payloads \cup {NoPayload}]]
        /\ \A q \in Pushers : push'[q].pc # "idle" => push'[q].data \in Payloads
        /\ push[p].data \in Payloads
    BY <1>7, PushMoveType DEF WritePayload, PushPC
  <2>2. \A i \in 0..(PayloadLen[push[p].data] - 1) : DataByte(push[p].data, i) \in Byte
    BY <2>1 DEF Byte
  <2>3. push[p].at.head \in Nat
    BY DEF TypeOK, Marker
  <2>4. buf' \in [Addr -> Byte]
    <3> DEFINE a == push[p].at.head + Hdr
               l == PayloadLen[push[p].data]
    <3>1. a \in Nat /\ l \in Nat /\ Cap \in Nat
      BY <2>1, <2>3, BBRingAssumption
    <3>2. buf' = [x \in Addr |-> IF x \in a..(a + l - 1) THEN DataByte(push[p].data, x - a) ELSE buf[x]]
      BY <1>7 DEF WritePayload, Stored
    <3> HIDE DEF a
    <3>3. \A x \in Addr : x \in a..(a + l - 1) => x - a \in 0..(l - 1)
      BY <3>1 DEF Addr
    <3>4. \A x \in Addr : x \in a..(a + l - 1) => DataByte(push[p].data, x - a) \in Byte
      BY <2>2, <3>3
    <3>5. QED
      BY <3>2, <3>4 DEF TypeOK
  <2>5. QED
    BY <1>7, <2>1, <2>4 DEF WritePayload, TypeOK
<1>8. ASSUME NEW p \in Pushers, AwaitTurn(p) PROVE TypeOK'
  BY <1>8, PushMoveType DEF AwaitTurn, TypeOK, PushPC
<1>9. ASSUME NEW p \in Pushers, Publish(p) PROVE TypeOK'
  BY <1>9, PushMoveType, PlusType DEF Publish, TypeOK, PushPC
<1>10. ASSUME NEW r \in Removers, PopReserve(r) PROVE TypeOK'
  <2> DEFINE n == [pc |-> "load", rem |-> remove_marker, len |-> 0]
  <2>1. n \in [pc : PopPC, rem : Marker, len : Lens \cup 0..(HeadMod - 1)]
    BY MarkerAssumption DEF TypeOK, PopPC
  <2>2. pop' = [pop EXCEPT ![r] = n]
    BY <1>10 DEF PopReserve
  <2> HIDE DEF n
  <2>3. QED
    BY <1>10, <2>1, <2>2, PlusType DEF PopReserve, TypeOK
<1>11. ASSUME NEW r \in Removers, PopEmpty(r) PROVE TypeOK'
  BY <1>11, PopMoveType DEF PopEmpty, TypeOK, PopPC
<1>12. ASSUME NEW r \in Removers, PopRollback(r) PROVE TypeOK'
  BY <1>12, PopMoveType, PlusType DEF PopRollback, TypeOK, PopPC
<1>13. ASSUME NEW r \in Removers, PopClaim(r) PROVE TypeOK'
  BY <1>13, PopMoveType DEF PopClaim, TypeOK, PopPC
<1>14. ASSUME NEW r \in Removers, PopAwaitTurn(r) PROVE TypeOK'
  <2>1. pop' = [pop EXCEPT ![r] = [pop[r] EXCEPT !.pc = "read", !.rem = remove_marker]]
    BY <1>14 DEF PopAwaitTurn, TypeOK
  <2>2. [pop[r] EXCEPT !.pc = "read", !.rem = remove_marker] \in [pc : PopPC, rem : Marker, len : Lens \cup 0..(HeadMod - 1)]
    BY DEF TypeOK, PopPC
  <2>3. QED
    BY <1>14, <2>1, <2>2 DEF PopAwaitTurn, TypeOK
<1>15. ASSUME NEW r \in Removers, PopRead(r) PROVE TypeOK'
  <2>1. HeaderAt(Start(r)) \subseteq Lens \cup 0..(HeadMod - 1)
    BY DEF HeaderAt
  <2>2. PICK l \in HeaderAt(Start(r)) : pop' = [pop EXCEPT ![r].pc = "guard", ![r].len = l]
    BY <1>15 DEF PopRead
  <2>3. pop' = [pop EXCEPT ![r] = [pop[r] EXCEPT !.pc = "guard", !.len = l]]
    BY <2>2 DEF TypeOK
  <2>4. [pop[r] EXCEPT !.pc = "guard", !.len = l] \in [pc : PopPC, rem : Marker, len : Lens \cup 0..(HeadMod - 1)]
    BY <2>1, <2>2 DEF TypeOK, PopPC
  <2>5. QED
    BY <1>15, <2>3, <2>4 DEF PopRead, TypeOK
<1>16. ASSUME NEW r \in Removers, DropGuard(r) PROVE TypeOK'
  <2>1. pop[r].len + Hdr \in Nat
    BY BBRingAssumption, MarkerAssumption DEF TypeOK, Lens
  <2>2. QED
    BY <1>16, <2>1, PopMoveType, PlusType DEF DropGuard, TypeOK, PopPC
<1>17. ASSUME NEW r \in Removers, NEW d \in Payloads, Overwrite(r, d) PROVE TypeOK'
  <2>1. log' \in Seq([data : Payloads, at : 0..(HeadMod - 1)])
    BY <1>17, RewrittenLog DEF Overwrite
  <2>2. buf' \in [Addr -> Byte]
    <3> DEFINE a == Start(r) + Hdr
               l == PayloadLen[d]
    <3>1. a \in Int /\ l \in Nat
      <4>1. pop[r].rem.head \in Nat
        BY DEF TypeOK, Marker
      <4>2. QED
        BY <4>1, BBRingAssumption DEF Start
    <3>2. buf' = [x \in Addr |-> IF x \in a..(a + l - 1) THEN DataByte(d, x - a) ELSE buf[x]]
      BY <1>17 DEF Overwrite, Stored
    <3>3. \A i \in 0..(l - 1) : DataByte(d, i) \in Byte
      BY DEF Byte
    <3> HIDE DEF a, l
    <3>4. \A x \in Addr : x \in a..(a + l - 1) => x - a \in 0..(l - 1)
      BY <3>1 DEF Addr
    <3>5. QED
      BY <3>2, <3>3, <3>4 DEF TypeOK
  <2>3. QED
    BY <1>17, <2>1, <2>2 DEF Overwrite, TypeOK
<1>18. CASE UNCHANGED vars
  BY <1>18 DEF vars, TypeOK
<1>19. QED
  BY <1>1, <1>2, <1>3, <1>4, <1>5, <1>6, <1>7, <1>8, <1>9, <1>10, <1>11, <1>12,
     <1>13, <1>14, <1>15, <1>16, <1>17, <1>18 DEF Next, Pushing, Popping

\* The words, the buffer and the threads keep their types, for any number of
\* threads, payloads, capacity and field widths (bbring.rs:57-62).
THEOREM TypeCorrect == Spec => []TypeOK
  BY TypeInit, TypeStep, PTL DEF Spec
-----------------------------------------------------------------------------
(***************************************************************************)
(* Facts about a state                                                     *)
(***************************************************************************)

\* The parts of a state that the arithmetic is about are natural numbers.
LEMMA Numbers ==
  ASSUME TypeOK
  PROVE  /\ marker.head \in Nat /\ marker.len \in Nat /\ marker.fin \in Nat
         /\ remove_marker.head \in Nat /\ remove_marker.len \in Nat /\ remove_marker.fin \in Nat
         /\ \A p \in Pushers : push[p].at.head \in Nat /\ push[p].at.len \in Nat
         /\ \A p \in Pushers : push[p].pc # "idle" => push[p].data \in Payloads
         /\ Len(log) \in Nat
         /\ \A i \in 1..Len(log) : log[i].data \in Payloads /\ log[i].at \in Nat
<1>1. \A m \in Marker : m.head \in Nat /\ m.len \in Nat /\ m.fin \in Nat
  BY DEF Marker
<1>2. \A p \in Pushers : push[p].at \in Marker
  BY DEF TypeOK
<1>3. Len(log) \in Nat /\ \A i \in 1..Len(log) : log[i] \in [data : Payloads, at : 0..(HeadMod - 1)]
  BY ElementOfSeq, LenProperties DEF TypeOK
<1>4. QED
  BY <1>1, <1>2, <1>3 DEF TypeOK

LEMMA Bounds ==
  ASSUME NoCarry
  PROVE  /\ HeadMod \in Nat /\ LenMod \in Nat /\ MaxHead \in Nat /\ MaxReserved \in Nat
         /\ MaxHead < HeadMod /\ MaxReserved + 1 < LenMod
         /\ Cap \in Nat /\ Cap >= 1 /\ Hdr \in Nat /\ Hdr >= 1
  BY MarkerAssumption, BBRingAssumption DEF NoCarry

LEMMA MarkNat ==
  ASSUME TypeOK, NEW i \in 0..Len(log)
  PROVE  Mark(i) \in Nat
  BY Numbers DEF Mark

\* The bytes of an active push are those of its reservation in the log.
LEMMA OwnRegion ==
  ASSUME TypeOK, LogInv, PushInv, NEW p \in Active
  PROVE  /\ push[p].data \in Payloads
         /\ push[p].at.len \in marker.fin..(Len(log) - 1)
         /\ push[p].at.head = Mark(push[p].at.len)
         /\ push[p].at.head + Size(push[p].data) = Mark(push[p].at.len + 1)
<1>1. p \in Pushers /\ push[p].at.len \in Nat /\ push[p].data \in Payloads
  BY Numbers DEF Active
<1>2. /\ marker.fin <= push[p].at.len /\ push[p].at.len < Len(log)
      /\ log[push[p].at.len + 1] = [data |-> push[p].data, at |-> push[p].at.head]
  BY DEF PushInv
<1>3. push[p].at.len \in marker.fin..(Len(log) - 1) /\ push[p].at.len \in 0..(Len(log) - 1)
  BY <1>1, <1>2, Numbers
<1>4. push[p].at.head = Mark(push[p].at.len)
  BY <1>2 DEF Mark
<1>5. Mark(push[p].at.len + 1) = Mark(push[p].at.len) + Size(log[push[p].at.len + 1].data)
  BY <1>3 DEF LogInv
<1>6. QED
  BY <1>1, <1>2, <1>3, <1>4, <1>5

\* Two active pushes own regions that do not meet.
LEMMA OwnRegionsApart ==
  ASSUME TypeOK, LogInv, PushInv, NEW p \in Active, NEW q \in Active, p # q
  PROVE  \/ push[p].at.head + Size(push[p].data) <= push[q].at.head
         \/ push[q].at.head + Size(push[q].data) <= push[p].at.head
<1>1. push[p].at.len # push[q].at.len
  BY DEF PushInv
<1>2. push[p].at.len \in 0..(Len(log) - 1) /\ push[q].at.len \in 0..(Len(log) - 1)
      /\ Len(log) \in Nat
  <2>1. push[p].at.len \in marker.fin..(Len(log) - 1) /\ push[q].at.len \in marker.fin..(Len(log) - 1)
    BY OwnRegion
  <2>2. marker.fin \in Nat /\ Len(log) \in Nat
    BY Numbers
  <2>3. QED
    BY <2>1, <2>2
<1>3. /\ push[p].at.head = Mark(push[p].at.len) /\ push[q].at.head = Mark(push[q].at.len)
      /\ push[p].at.head + Size(push[p].data) = Mark(push[p].at.len + 1)
      /\ push[q].at.head + Size(push[q].data) = Mark(push[q].at.len + 1)
  BY OwnRegion
<1>4. CASE push[p].at.len < push[q].at.len
  <2>1. push[p].at.len + 1 \in 0..Len(log) /\ push[q].at.len \in 0..Len(log)
    BY <1>2
  <2>2. push[p].at.len + 1 <= push[q].at.len
    BY <1>2, <1>4
  <2>3. Mark(push[p].at.len + 1) <= Mark(push[q].at.len)
    BY <2>1, <2>2 DEF LogInv
  <2>4. QED
    BY <1>3, <2>3
<1>5. CASE push[q].at.len < push[p].at.len
  <2>1. push[q].at.len + 1 \in 0..Len(log) /\ push[p].at.len \in 0..Len(log)
    BY <1>2
  <2>2. push[q].at.len + 1 <= push[p].at.len
    BY <1>2, <1>5
  <2>3. Mark(push[q].at.len + 1) <= Mark(push[p].at.len)
    BY <2>1, <2>2 DEF LogInv
  <2>4. QED
    BY <1>3, <2>3
<1>6. QED
  BY <1>1, <1>2, <1>4, <1>5

\* A published record ends before the region of an active push begins, and
\* starts at the end of the record before it.
LEMMA PublishedRegion ==
  ASSUME TypeOK, LogInv, NEW i \in 0..(marker.fin - 1)
  PROVE  /\ i + 1 \in 1..Len(log) /\ log[i + 1].data \in Payloads
         /\ log[i + 1].at = Mark(i)
         /\ Mark(i + 1) = Mark(i) + Size(log[i + 1].data)
         /\ Mark(i) \in Nat /\ Mark(i + 1) \in Nat
         /\ \A j \in marker.fin..Len(log) : Mark(i + 1) <= Mark(j)
<1>1. i \in 0..(Len(log) - 1) /\ i + 1 \in 1..Len(log) /\ i < Len(log)
  BY Numbers DEF LogInv
<1>2. log[i + 1].data \in Payloads
  BY <1>1, Numbers
<1>3. log[i + 1].at = Mark(i)
  BY <1>1 DEF Mark
<1>4. Mark(i + 1) = Mark(i) + Size(log[i + 1].data)
  BY <1>1 DEF LogInv
<1>5. Mark(i) \in Nat /\ Mark(i + 1) \in Nat
  BY <1>1, MarkNat, Numbers
<1>6. ASSUME NEW j \in marker.fin..Len(log)
      PROVE  Mark(i + 1) <= Mark(j)
  BY <1>1, Numbers DEF LogInv
<1>7. QED
  BY <1>1, <1>2, <1>3, <1>4, <1>5, <1>6
-----------------------------------------------------------------------------
(***************************************************************************)
(* What a step leaves alone                                                *)
(***************************************************************************)

\* A step that makes and takes back no reservation keeps the log in order.
LEMMA LogKept ==
  ASSUME LogInv, UNCHANGED log, marker'.head = marker.head, marker'.len = marker.len,
         marker'.fin <= marker.len
  PROVE  LogInv' /\ \A i : Mark(i)' = Mark(i)
<1>1. \A i : Mark(i)' = Mark(i)
  BY DEF Mark
<1>2. QED
  BY <1>1 DEF LogInv

\* A step of a pusher keeps the remover in place when it changes no published
\* reservation.
LEMMA PopKept ==
  ASSUME TypeOK, LogInv, PopInv, UNCHANGED <<remove_marker, pop>>,
         marker'.fin \in Nat, marker.fin <= marker'.fin,
         \A i \in 0..marker.fin : Mark(i)' = Mark(i),
         \A i \in 1..marker.fin : log'[i] = log[i]
  PROVE  PopInv'
<1>1. remove_marker.fin \in 0..marker.fin
  BY Numbers DEF PopInv
<1>2. remove_marker'.fin <= marker'.fin /\ remove_marker'.head = Mark(remove_marker.fin)'
  <2> DEFINE i == remove_marker.fin
  <2>1. i' = i
    OBVIOUS
  <2>2. Mark(i)' = Mark(i)
    BY <1>1, <2>1 DEF Mark
  <2>3. QED
    BY <1>1, <2>2, Numbers DEF PopInv
<1>3. ASSUME NEW r \in Removers
      PROVE  /\ pop'[r].pc = "idle" => remove_marker'.len = remove_marker'.fin
             /\ pop'[r].pc # "idle" =>
                  /\ remove_marker'.len = remove_marker'.fin + 1
                  /\ pop'[r].rem = [remove_marker' EXCEPT !.len = remove_marker'.fin]
             /\ pop'[r].pc # "wait"
             /\ pop'[r].pc \in {"read", "guard"} => remove_marker'.fin < marker'.fin
             /\ pop'[r].pc = "guard" =>
                  pop'[r].len = PayloadLen[log'[remove_marker'.fin + 1].data]
  <2>1. pop[r].pc \in {"read", "guard"} =>
          /\ remove_marker.fin < marker'.fin
          /\ log'[remove_marker.fin + 1] = log[remove_marker.fin + 1]
    <3>1. marker.fin \in Nat
      BY Numbers
    <3>2. pop[r].pc \in {"read", "guard"} => remove_marker.fin + 1 \in 1..marker.fin
      BY <1>1, <3>1 DEF PopInv
    <3>3. QED
      BY <1>1, <3>1, <3>2 DEF PopInv
  <2>2. QED
    BY <2>1 DEF PopInv
<1>4. QED
  BY <1>2, <1>3 DEF PopInv

\* A step of the remover keeps everything about the pushers.
LEMMA PushKept ==
  ASSUME LogInv, PushInv, TurnInv, BufInv, UNCHANGED <<marker, buf, push, log>>
  PROVE  LogInv' /\ PushInv' /\ TurnInv' /\ BufInv'
<1>1. \A i : Mark(i)' = Mark(i)
  BY DEF Mark
<1>2. Active' = Active /\ Accepted' = Accepted /\ \A p : Overruns(p)' = Overruns(p)
  BY DEF Active, Accepted, Overruns
<1>3. \A a, d : HeaderStored(a, d)' = HeaderStored(a, d) /\ DataStored(a, d)' = DataStored(a, d)
  BY DEF HeaderStored, DataStored
<1>4. LogInv'
  BY <1>1 DEF LogInv
<1>5. PushInv'
  BY <1>2 DEF PushInv
<1>6. TurnInv'
  BY <1>2 DEF TurnInv
<1>7. BufInv'
  BY <1>1, <1>2, <1>3 DEF BufInv
<1>8. QED
  BY <1>4, <1>5, <1>6, <1>7

\* A pusher that moves on inside of push keeps its reservation.
LEMMA MoveKeeps ==
  ASSUME TypeOK, NEW p \in Pushers, NEW from, NEW to, PushStep(p, from, to),
         from \notin {"idle", "panicked"}, to \notin {"idle", "panicked"}
  PROVE  /\ p \in Active /\ Active' = Active
         /\ push'[p].pc = to
         /\ \A q \in Pushers : push'[q].at = push[q].at /\ push'[q].data = push[q].data
         /\ \A q \in Pushers \ {p} : push'[q] = push[q]
  BY DEF PushStep, Active, TypeOK
-----------------------------------------------------------------------------
(***************************************************************************)
(* The inductive invariant, one lemma for each action that does more than  *)
(* move a thread on                                                        *)
(***************************************************************************)

LEMMA SoundInit == Init => Sound
<1> SUFFICES ASSUME Init PROVE Sound
  OBVIOUS
<1>1. Active = {} /\ Accepted = {}
  BY DEF Init, IdlePush, Active, Accepted
<1>2. log = <<>> /\ Len(log) = 0 /\ Mark(0) = 0
  BY DEF Init, Mark, Zero
<1>3. LogInv
  BY <1>2, BBRingAssumption DEF Init, Zero, LogInv
<1>4. PushInv
  BY <1>1 DEF Init, IdlePush, PushInv
<1>5. TurnInv
  BY DEF Init, Zero, TurnInv
<1>6. BufInv
  BY <1>1 DEF Init, Zero, BufInv
<1>7. PopInv
  BY <1>2 DEF Init, IdlePop, Zero, PopInv
<1>8. QED
  BY <1>3, <1>4, <1>5, <1>6, <1>7 DEF Sound

\* A reservation goes to the end of the log.
\* A reservation is added at the end of the log.
LEMMA ReserveEffect ==
  ASSUME TypeOK, Sound, NoCarry, NEW p \in Pushers, NEW d \in Payloads, Reserve(p, d)
  PROVE  /\ marker'.head = marker.head + Size(d) /\ marker'.len = Len(log) + 1
         /\ marker'.fin = marker.fin /\ marker.len = Len(log)
         /\ Len(log)' = Len(log) + 1
         /\ \A i \in 1..Len(log) : log'[i] = log[i]
         /\ log'[Len(log) + 1] = [data |-> d, at |-> marker.head]
<1>1. PICK n \in Nat : n = Len(log)
  BY Numbers
<1>2. /\ marker'.head = marker.head + Size(d) /\ marker'.len = n + 1 /\ marker'.fin = marker.fin
      /\ marker.len = n
  <2>1. marker.len = n /\ marker.len < MaxReserved /\ marker.head + Size(d) <= MaxHead
    BY <1>1 DEF Reserve, Sound, LogInv
  <2>2. marker.head + Size(d) \in 0..(HeadMod - 1)
    <3>1. marker.head \in Nat /\ Size(d) \in Nat
      BY Numbers, SizeType
    <3>2. MaxHead \in Nat /\ HeadMod \in Nat /\ MaxHead < HeadMod
      BY Bounds
    <3>3. QED
      BY <2>1, <3>1, <3>2
  <2>3. marker.len + 1 \in 0..(LenMod - 1)
    <3>1. marker.len \in Nat
      BY Numbers
    <3>2. MaxReserved \in Nat /\ LenMod \in Nat /\ MaxReserved + 1 < LenMod
      BY Bounds
    <3>3. QED
      BY <2>1, <3>1, <3>2
  <2>4. marker.fin + 0 \in 0..(LenMod - 1) /\ marker.fin + 0 = marker.fin
    BY MarkerAssumption DEF TypeOK, Marker
  <2>5. marker' = [head |-> marker.head + Size(d), len |-> marker.len + 1, fin |-> marker.fin + 0]
    BY <2>2, <2>3, <2>4, PlusNoCarry, SizeType DEF Reserve, TypeOK
  <2>6. QED
    BY <2>1, <2>4, <2>5
<1>3. /\ Len(log)' = n + 1
      /\ \A i \in 1..n : log'[i] = log[i]
      /\ log'[n + 1] = [data |-> d, at |-> marker.head]
  <2> DEFINE e == [data |-> d, at |-> marker.head]
  <2>1. e \in [data : Payloads, at : 0..(HeadMod - 1)]
    BY DEF TypeOK, Marker
  <2>2. log' = Append(log, e)
    BY DEF Reserve
  <2> HIDE DEF e
  <2>3. Len(log') = n + 1 /\ (\A i \in 1..n : log'[i] = log[i]) /\ log'[n + 1] = e
    BY <1>1, <2>1, <2>2, AppendProperties DEF TypeOK
  <2>4. QED
    BY <2>3 DEF e
<1>4. QED
  BY <1>1, <1>2, <1>3

LEMMA SoundReserve ==
  ASSUME TypeOK, Sound, NoCarry, NEW p \in Pushers, NEW d \in Payloads, Reserve(p, d)
  PROVE  Sound'
<1>1. PICK n \in Nat : n = Len(log)
  BY Numbers
<1>2. /\ marker'.head = marker.head + Size(d) /\ marker'.len = n + 1 /\ marker'.fin = marker.fin
      /\ marker.len = n
  BY <1>1, ReserveEffect
<1>3. /\ Len(log)' = n + 1
      /\ \A i \in 1..n : log'[i] = log[i]
      /\ log'[n + 1] = [data |-> d, at |-> marker.head]
  BY <1>1, ReserveEffect
<1>4. /\ \A i \in 0..n : Mark(i)' = Mark(i)
      /\ Mark(n + 1)' = Mark(n) + Size(d)
  BY <1>1, <1>2, <1>3 DEF Mark
<1>5. LogInv'
  <2>1. marker'.len <= MaxReserved /\ marker'.head <= MaxHead
    BY <1>1, <1>2, BBRingAssumption DEF Reserve
  <2>2. ASSUME NEW i \in 0..n
        PROVE  Mark(i + 1)' = Mark(i)' + Size(log'[i + 1].data)
    <3>1. CASE i = n
      BY <1>3, <1>4, <3>1
    <3>2. CASE i \in 0..(n - 1)
      <4>1. i + 1 \in 0..n /\ i + 1 \in 1..n
        BY <3>2
      <4>2. Mark(i + 1) = Mark(i) + Size(log[i + 1].data)
        BY <1>1, <3>2 DEF Sound, LogInv
      <4>3. QED
        BY <1>3, <1>4, <4>1, <4>2
    <3>3. QED
      BY <3>1, <3>2
  <2>3. ASSUME NEW i \in 0..(n + 1), NEW j \in 0..(n + 1), i <= j
        PROVE  Mark(i)' <= Mark(j)'
    <3>1. Mark(n) \in Nat /\ Mark(n + 1)' \in Nat /\ Mark(n) <= Mark(n + 1)'
      BY <1>1, <1>4, MarkNat, SizeType
    <3>2. CASE j \in 0..n
      BY <1>1, <1>4, <2>3, <3>2 DEF Sound, LogInv
    <3>3. CASE j = n + 1 /\ i \in 0..n
      <4>1. Mark(i) <= Mark(n) /\ Mark(i) \in Nat
        BY <1>1, <3>3, MarkNat DEF Sound, LogInv
      <4>2. Mark(i) <= Mark(n + 1)'
        BY <3>1, <4>1
      <4>3. QED
        BY <1>4, <3>3, <4>2
    <3>4. CASE i = n + 1 /\ j = n + 1
      BY <3>1, <3>4
    <3>5. QED
      BY <1>1, <2>3, <3>2, <3>3, <3>4
  <2>4. marker'.fin <= marker'.len
    BY <1>2, Numbers DEF Sound, LogInv
  <2>5. Mark(0)' = 0
    BY <1>4 DEF Sound, LogInv
  <2>6. QED
    BY <1>2, <1>3, <2>1, <2>2, <2>3, <2>4, <2>5 DEF LogInv
<1>6. /\ push'[p] = [pc |-> "check", at |-> marker, data |-> d]
      /\ \A q \in Pushers \ {p} : push'[q] = push[q]
      /\ p \notin Active /\ Active' = Active \cup {p} /\ Accepted' = Accepted /\ p \notin Accepted
  BY DEF Reserve, TypeOK, Active, Accepted
<1>7. \A q \in Active : push[q].at.len \in marker.fin..(n - 1) /\ push'[q] = push[q]
  BY <1>1, <1>6, OwnRegion DEF Sound, Active
<1>8. PushInv'
  <2>1. \A q \in Pushers : push'[q].pc # "panicked"
    BY <1>6 DEF Sound, PushInv
  <2>2. ASSUME NEW q \in Active'
        PROVE  (/\ marker.fin <= push[q].at.len /\ push[q].at.len < Len(log)
                /\ log[push[q].at.len + 1] = [data |-> push[q].data, at |-> push[q].at.head]
                /\ push[q].pc = "publish" => push[q].at.len = marker.fin
                /\ q \in Accepted => ~Overruns(q))'
    <3>1. CASE q = p
      BY <1>2, <1>3, <1>6, <3>1, Numbers DEF Sound, LogInv
    <3>2. CASE q \in Active
      <4>1. push'[q] = push[q] /\ push[q].at.len + 1 \in 1..n /\ push[q].at.len < n + 1
        BY <1>7, <3>2, Numbers
      <4>2. log'[push[q].at.len + 1] = log[push[q].at.len + 1]
        BY <1>3, <4>1
      <4>3. QED
        BY <1>2, <1>3, <1>6, <3>2, <4>1, <4>2 DEF Sound, PushInv, Overruns
    <3>3. QED
      BY <1>6, <3>1, <3>2
  <2>3. \A q, s \in Active' : push'[q].at.len = push'[s].at.len => q = s
    <3>1. push'[p].at.len = n /\ \A q \in Active : push'[q].at.len # n
      BY <1>1, <1>2, <1>6, <1>7
    <3>2. \A q, s \in Active : push'[q].at.len = push'[s].at.len => q = s
      BY <1>7 DEF Sound, PushInv
    <3>3. QED
      BY <1>6, <3>1, <3>2
  <2>4. QED
    BY <2>1, <2>2, <2>3 DEF PushInv
<1>9. TurnInv'
  <2>1. ASSUME NEW i \in marker.fin..n
        PROVE  \E q \in Active' : push'[q].at.len = i
    <3>1. CASE i = n
      BY <1>2, <1>6, <3>1
    <3>2. CASE i # n
      <4>1. i \in marker.fin..(marker.len - 1)
        BY <1>2, <3>2, Numbers
      <4>2. PICK q \in Active : push[q].at.len = i
        BY <4>1 DEF Sound, TurnInv
      <4>3. QED
        BY <1>6, <1>7, <4>2
    <3>3. QED
      BY <3>1, <3>2
  <2>2. QED
    BY <1>2, <2>1, Numbers DEF TurnInv
<1>10. BufInv'
  <2>1. ASSUME NEW i \in 0..(marker'.fin - 1)
        PROVE  (/\ Mark(i + 1) <= Cap
                /\ HeaderStored(Mark(i), log[i + 1].data) /\ DataStored(Mark(i), log[i + 1].data))'
    <3>1. i \in 0..(marker.fin - 1) /\ i \in 0..n /\ i + 1 \in 1..n /\ i + 1 \in 0..n
      BY <1>2, PublishedRegion, Numbers DEF Sound, LogInv
    <3>2. Mark(i)' = Mark(i) /\ Mark(i + 1)' = Mark(i + 1) /\ log'[i + 1] = log[i + 1]
      BY <1>3, <1>4, <3>1
    <3>3. buf' = buf
      BY DEF Reserve
    <3>4. QED
      BY <3>1, <3>2, <3>3 DEF Sound, BufInv, HeaderStored, DataStored
  <2>2. ASSUME NEW q \in Accepted'
        PROVE  (/\ push[q].pc # "header" => HeaderStored(push[q].at.head, push[q].data)
                /\ push[q].pc \in {"wait", "publish"} => DataStored(push[q].at.head, push[q].data))'
    <3>1. q \in Accepted /\ push'[q] = push[q] /\ buf' = buf
      BY <1>6 DEF Accepted, Reserve
    <3>2. QED
      BY <3>1 DEF Sound, BufInv, HeaderStored, DataStored
  <2>3. QED
    BY <2>1, <2>2 DEF BufInv
<1>11. PopInv'
  BY <1>2, <1>3, <1>4, PopKept, Numbers DEF Reserve, Sound, LogInv
<1>12. QED
  BY <1>5, <1>8, <1>9, <1>10, <1>11 DEF Sound

\* The last reservation is taken back: the log is what it was before it.
\* A rollback that was not overtaken takes the last entry off the log.
LEMMA RollbackEffect ==
  ASSUME TypeOK, Sound, NoCarry, NEW p \in Pushers, Rollback(p), faults' = {}
  PROVE  /\ push[p].at.len = Len(log) - 1 /\ Len(log) - 1 \in Nat /\ p \in Active
         /\ marker.len = Len(log) /\ push[p].data \in Payloads
         /\ Mark(Len(log) - 1) + Size(push[p].data) = marker.head /\ Mark(Len(log) - 1) \in Nat
         /\ marker'.head = Mark(Len(log) - 1) /\ marker'.len = Len(log) - 1
         /\ marker'.fin = marker.fin /\ marker.fin <= Len(log) - 1
         /\ Len(log)' = Len(log) - 1
         /\ \A i \in 1..(Len(log) - 1) : log'[i] = log[i]
<1>1. PICK n \in Nat : n + 1 = Len(log)
  <2>1. p \in Active
    BY DEF Rollback, PushReturn, Active
  <2>2. push[p].at.len \in Nat /\ push[p].at.len < Len(log)
    BY <2>1, Numbers DEF Sound, PushInv
  <2>3. Len(log) - 1 \in Nat /\ (Len(log) - 1) + 1 = Len(log)
    BY <2>2, Numbers
  <2>4. QED
    BY <2>3
<1>2. /\ p \in Active /\ push[p].at.len = n /\ marker.len = n + 1 /\ push[p].data \in Payloads
      /\ Mark(n) + Size(push[p].data) = marker.head /\ Mark(n) \in Nat
  <2>1. p \in Active
    BY DEF Rollback, PushReturn, Active
  <2>2. marker.len = push[p].at.len + 1 /\ marker.len = n + 1
    BY <1>1 DEF Rollback, IsLast, Sound, LogInv
  <2>3. push[p].at.len = n
    <3>1. push[p].at.len \in Nat
      BY Numbers
    <3>2. QED
      BY <1>1, <2>2, <3>1
  <2>4. Mark(n + 1) = marker.head
    BY <1>1 DEF Mark
  <2>5. QED
    BY <1>1, <2>1, <2>2, <2>3, <2>4, OwnRegion, MarkNat DEF Sound
<1>3. marker'.head = Mark(n) /\ marker'.len = n /\ marker'.fin = marker.fin /\ marker.fin <= n
  <2>1. marker.fin <= n
    BY <1>2, OwnRegion, Numbers DEF Sound
  <2>2. /\ marker.head + (-Size(push[p].data)) = Mark(n)
        /\ marker.len + (-1) = n
        /\ marker.fin + 0 = marker.fin
    BY <1>2, SizeType, Numbers
  <2>3. Mark(n) \in 0..(HeadMod - 1) /\ n \in 0..(LenMod - 1) /\ marker.fin \in 0..(LenMod - 1)
    <3>1. Mark(n) <= marker.head /\ n <= marker.len
      BY <1>2, SizeType, Numbers
    <3>2. marker.head \in 0..(HeadMod - 1) /\ marker.len \in 0..(LenMod - 1) /\ marker.fin \in 0..(LenMod - 1)
      BY DEF TypeOK, Marker
    <3>3. QED
      BY <1>2, <3>1, <3>2, MarkerAssumption
  <2>4. marker' = [head |-> Mark(n), len |-> n, fin |-> marker.fin]
    <3> DEFINE dh == -Size(push[p].data)
    <3>1. dh \in Int
      BY <1>2, SizeType
    <3>2. marker' = Plus(marker, dh, -1, 0) /\ marker \in Marker /\ marker.head + dh = Mark(n)
      BY <2>2 DEF Rollback, TypeOK
    <3> HIDE DEF dh
    <3>3. QED
      BY <2>2, <2>3, <3>1, <3>2, PlusNoCarry
  <2>5. QED
    BY <2>1, <2>4
<1>4. Len(log)' = n /\ \A i \in 1..n : log'[i] = log[i]
  <2>1. log' = SubSeq(log, 1, n)
    BY <1>1, <1>2 DEF Rollback, IsLast
  <2>2. \A i \in 1..n : log[i] \in [data : Payloads, at : 0..(HeadMod - 1)]
    <3> DEFINE Entry == [data : Payloads, at : 0..(HeadMod - 1)]
    <3>1. log \in Seq(Entry) /\ \A i \in 1..n : i \in 1..Len(log)
      BY <1>1 DEF TypeOK
    <3> HIDE DEF Entry
    <3>2. \A i \in 1..n : log[i] \in Entry
      BY <3>1, ElementOfSeq
    <3>3. QED
      BY <3>2 DEF Entry
  <2>3. /\ Len(SubSeq(log, 1, n)) = IF 1 <= n THEN n - 1 + 1 ELSE 0
        /\ \A i \in 1..(n - 1 + 1) : SubSeq(log, 1, n)[i] = log[1 + i - 1]
    BY <2>2, SubSeqProperties
  <2>4. QED
    BY <2>1, <2>3
<1>5. QED
  BY <1>1, <1>2, <1>3, <1>4

LEMMA SoundRollback ==
  ASSUME TypeOK, Sound, NoCarry, NEW p \in Pushers, Rollback(p), faults' = {}
  PROVE  Sound'
<1>1. PICK n \in Nat : n + 1 = Len(log)
  BY RollbackEffect, Numbers
<1>2. /\ p \in Active /\ push[p].at.len = n /\ marker.len = n + 1 /\ push[p].data \in Payloads
      /\ Mark(n) + Size(push[p].data) = marker.head /\ Mark(n) \in Nat
  BY <1>1, RollbackEffect
<1>3. marker'.head = Mark(n) /\ marker'.len = n /\ marker'.fin = marker.fin /\ marker.fin <= n
  BY <1>1, RollbackEffect
<1>4. Len(log)' = n /\ \A i \in 1..n : log'[i] = log[i]
  BY <1>1, RollbackEffect
<1>5. \A i \in 0..n : Mark(i)' = Mark(i)
  BY <1>1, <1>3, <1>4 DEF Mark
<1>6. LogInv'
  <2>1. marker'.len <= MaxReserved /\ marker'.head <= MaxHead
    BY <1>2, <1>3, SizeType, Numbers, Bounds DEF Sound, LogInv
  <2>2. ASSUME NEW i \in 0..(n - 1)
        PROVE  Mark(i + 1)' = Mark(i)' + Size(log'[i + 1].data)
    BY <1>1, <1>4, <1>5 DEF Sound, LogInv
  <2>3. \A i, j \in 0..n : i <= j => Mark(i)' <= Mark(j)'
    BY <1>1, <1>5 DEF Sound, LogInv
  <2>4. Mark(0)' = 0
    BY <1>5 DEF Sound, LogInv
  <2>5. QED
    BY <1>3, <1>4, <2>1, <2>2, <2>3, <2>4 DEF LogInv
<1>7. /\ push'[p].pc = "idle" /\ \A q \in Pushers \ {p} : push'[q] = push[q]
      /\ Active' = Active \ {p} /\ Accepted' = Accepted /\ p \notin Accepted
  BY DEF Rollback, PushReturn, IdlePush, TypeOK, Active, Accepted
<1>8. \A q \in Active \ {p} : push[q].at.len \in marker.fin..(n - 1) /\ push'[q] = push[q]
  <2>1. ASSUME NEW q \in Active \ {p}
        PROVE  push[q].at.len \in marker.fin..(n - 1) /\ push'[q] = push[q]
    <3>1. push[q].at.len \in marker.fin..n
      BY <1>1, OwnRegion DEF Sound
    <3>2. push[q].at.len # n
      BY <1>2 DEF Sound, PushInv
    <3>3. QED
      BY <1>7, <3>1, <3>2, Numbers DEF Active
  <2>2. QED
    BY <2>1
<1>9. PushInv'
  <2>1. \A q \in Pushers : push'[q].pc # "panicked"
    BY <1>7 DEF Sound, PushInv
  <2>2. ASSUME NEW q \in Active'
        PROVE  (/\ marker.fin <= push[q].at.len /\ push[q].at.len < Len(log)
                /\ log[push[q].at.len + 1] = [data |-> push[q].data, at |-> push[q].at.head]
                /\ push[q].pc = "publish" => push[q].at.len = marker.fin
                /\ q \in Accepted => ~Overruns(q))'
    <3>1. q \in Active \ {p}
      BY <1>7
    <3>2. push'[q] = push[q] /\ push[q].at.len + 1 \in 1..n /\ push[q].at.len < n
      <4>1. marker.fin \in Nat
        BY Numbers
      <4>2. QED
        BY <1>8, <3>1, <4>1
    <3>3. log'[push[q].at.len + 1] = log[push[q].at.len + 1]
      BY <1>4, <3>2
    <3>4. QED
      BY <1>3, <1>4, <1>7, <3>1, <3>2, <3>3 DEF Sound, PushInv, Overruns
  <2>3. \A q, s \in Active' : push'[q].at.len = push'[s].at.len => q = s
    BY <1>7, <1>8 DEF Sound, PushInv
  <2>4. QED
    BY <2>1, <2>2, <2>3 DEF PushInv
<1>10. TurnInv'
  <2>1. ASSUME NEW i \in marker.fin..(n - 1)
        PROVE  \E q \in Active' : push'[q].at.len = i
    <3>1. i \in marker.fin..(marker.len - 1) /\ i # n
      BY <1>2, Numbers
    <3>2. PICK q \in Active : push[q].at.len = i
      BY <3>1 DEF Sound, TurnInv
    <3>3. q \in Active \ {p}
      BY <1>2, <3>1, <3>2
    <3>4. QED
      BY <1>7, <1>8, <3>2, <3>3
  <2>2. QED
    BY <1>3, <2>1 DEF TurnInv
<1>11. BufInv'
  <2>1. ASSUME NEW i \in 0..(marker'.fin - 1)
        PROVE  (/\ Mark(i + 1) <= Cap
                /\ HeaderStored(Mark(i), log[i + 1].data) /\ DataStored(Mark(i), log[i + 1].data))'
    <3>1. i \in 0..(marker.fin - 1) /\ i \in 0..n /\ i + 1 \in 1..n /\ i + 1 \in 0..n
      BY <1>3, Numbers
    <3>2. Mark(i)' = Mark(i) /\ Mark(i + 1)' = Mark(i + 1) /\ log'[i + 1] = log[i + 1]
      BY <1>4, <1>5, <3>1
    <3>3. buf' = buf
      BY DEF Rollback
    <3>4. QED
      BY <3>1, <3>2, <3>3 DEF Sound, BufInv, HeaderStored, DataStored
  <2>2. ASSUME NEW q \in Accepted'
        PROVE  (/\ push[q].pc # "header" => HeaderStored(push[q].at.head, push[q].data)
                /\ push[q].pc \in {"wait", "publish"} => DataStored(push[q].at.head, push[q].data))'
    <3>1. q \in Accepted /\ push'[q] = push[q] /\ buf' = buf
      BY <1>7 DEF Accepted, Rollback
    <3>2. QED
      BY <3>1 DEF Sound, BufInv, HeaderStored, DataStored
  <2>3. QED
    BY <2>1, <2>2 DEF BufInv
<1>12. PopInv'
  <2>1. /\ \A i \in 0..marker.fin : Mark(i)' = Mark(i)
        /\ \A i \in 1..marker.fin : log'[i] = log[i]
    BY <1>3, <1>4, <1>5, Numbers
  <2>2. UNCHANGED <<remove_marker, pop>> /\ LogInv /\ PopInv
    BY DEF Rollback, Sound
  <2>3. marker'.fin \in Nat /\ marker.fin <= marker'.fin
    BY <1>3, Numbers
  <2>4. QED
    BY <2>1, <2>2, <2>3, PopKept
<1>13. QED
  BY <1>6, <1>9, <1>10, <1>11, <1>12 DEF Sound

\* A pusher that moves on and neither makes nor publishes a reservation keeps
\* all but the buffer in order: it has to show what it knows where it arrives.
LEMMA SoundMove ==
  ASSUME TypeOK, Sound, NEW p \in Pushers, NEW from, NEW to, PushStep(p, from, to),
         from \notin {"idle", "panicked"}, to \notin {"idle", "panicked"},
         UNCHANGED <<marker, remove_marker, pop, log>>,
         to = "publish" => push[p].at.len = marker.fin,
         p \in Accepted' => ~Overruns(p)
  PROVE  LogInv' /\ PushInv' /\ TurnInv' /\ PopInv'
<1>1. LogInv' /\ \A i : Mark(i)' = Mark(i)
  BY LogKept DEF Sound, LogInv
<1>2. /\ p \in Active /\ Active' = Active
      /\ push'[p].pc = to
      /\ \A q \in Pushers : push'[q].at = push[q].at /\ push'[q].data = push[q].data
      /\ \A q \in Pushers \ {p} : push'[q] = push[q]
  BY MoveKeeps
<1>3. PushInv'
  <2>1. \A q \in Pushers : push'[q].pc # "panicked"
    BY <1>2 DEF Sound, PushInv
  <2>2. ASSUME NEW q \in Active
        PROVE  (/\ marker.fin <= push[q].at.len /\ push[q].at.len < Len(log)
                /\ log[push[q].at.len + 1] = [data |-> push[q].data, at |-> push[q].at.head]
                /\ push[q].pc = "publish" => push[q].at.len = marker.fin
                /\ q \in Accepted => ~Overruns(q))'
    <3>1. q \in Pushers /\ (Overruns(q)' <=> Overruns(q))
      BY <1>2 DEF Active, Overruns
    <3>2. CASE q = p
      BY <1>2, <3>1, <3>2 DEF Sound, PushInv
    <3>3. CASE q # p
      <4>1. push'[q] = push[q] /\ (q \in Accepted' <=> q \in Accepted)
        BY <1>2, <3>1, <3>3 DEF Accepted
      <4>2. QED
        BY <3>1, <4>1 DEF Sound, PushInv
    <3>4. QED
      BY <3>2, <3>3
  <2>3. \A q, s \in Active : push'[q].at.len = push'[s].at.len => q = s
    BY <1>2 DEF Sound, PushInv, Active
  <2>4. QED
    BY <1>2, <2>1, <2>2, <2>3 DEF PushInv
<1>4. TurnInv'
  BY <1>2 DEF Sound, TurnInv, Active
<1>5. PopInv'
  <2>1. marker'.fin \in Nat /\ marker.fin <= marker'.fin /\ LogInv /\ PopInv
    BY Numbers DEF Sound
  <2>2. QED
    BY <1>1, <2>1, PopKept
<1>6. QED
  BY <1>1, <1>3, <1>4, <1>5

\* The buffer invariant is kept by a step that writes nothing and does not
\* claim to have written.
LEMMA BufKept ==
  ASSUME TypeOK, Sound, NEW p \in Pushers, NEW from, NEW to, PushStep(p, from, to),
         from \notin {"idle", "panicked"}, to \notin {"idle", "panicked"},
         UNCHANGED <<marker, buf, log>>,
         to \in {"rollback", "header"} \/ (from = "wait" /\ to = "publish")
  PROVE  BufInv'
<1>1. \A i : Mark(i)' = Mark(i)
  BY DEF Mark
<1>2. /\ push[p].pc = from /\ push'[p].pc = to
      /\ \A q \in Pushers : push'[q].at = push[q].at /\ push'[q].data = push[q].data
      /\ \A q \in Pushers \ {p} : push'[q] = push[q]
  BY MoveKeeps DEF PushStep
<1>3. \A a, d : HeaderStored(a, d)' = HeaderStored(a, d) /\ DataStored(a, d)' = DataStored(a, d)
  BY DEF HeaderStored, DataStored
<1>4. ASSUME NEW q \in Accepted'
      PROVE  (/\ push[q].pc # "header" => HeaderStored(push[q].at.head, push[q].data)
              /\ push[q].pc \in {"wait", "publish"} => DataStored(push[q].at.head, push[q].data))'
  <2>1. q \in Pushers /\ push'[q].pc \in {"header", "payload", "wait", "publish"}
    BY DEF Accepted
  <2>2. CASE q = p /\ to = "header"
    BY <1>2, <2>2
  <2>3. CASE q = p /\ from = "wait" /\ to = "publish"
    <3>1. q \in Accepted /\ push[q].pc = "wait"
      BY <1>2, <2>1, <2>3 DEF Accepted
    <3>2. HeaderStored(push[q].at.head, push[q].data) /\ DataStored(push[q].at.head, push[q].data)
      BY <3>1 DEF Sound, BufInv
    <3>3. QED
      BY <1>2, <2>1, <3>2 DEF HeaderStored, DataStored
  <2>4. CASE q # p
    <3>1. q \in Accepted /\ push'[q] = push[q]
      BY <1>2, <2>1, <2>4 DEF Accepted
    <3>2. QED
      BY <3>1 DEF Sound, BufInv, HeaderStored, DataStored
  <2>5. QED
    BY <1>2, <2>1, <2>2, <2>3, <2>4
<1>5. ASSUME NEW i \in 0..(marker'.fin - 1)
      PROVE  (/\ Mark(i + 1) <= Cap
              /\ HeaderStored(Mark(i), log[i + 1].data) /\ DataStored(Mark(i), log[i + 1].data))'
  BY <1>1 DEF Sound, BufInv, HeaderStored, DataStored
<1>6. QED
  BY <1>4, <1>5 DEF BufInv

LEMMA SoundAccept ==
  ASSUME TypeOK, Sound, NEW p \in Pushers, Accept(p), faults' = {}
  PROVE  Sound'
<1>1. ~Overruns(p)
  BY DEF Accept
<1>2. PushStep(p, "check", "header") /\ UNCHANGED <<marker, remove_marker, buf, pop, log>>
  BY DEF Accept
<1>3. LogInv' /\ PushInv' /\ TurnInv' /\ PopInv'
  BY <1>1, <1>2, SoundMove
<1>4. BufInv'
  BY <1>2, BufKept
<1>5. QED
  BY <1>3, <1>4 DEF Sound

LEMMA SoundRefuse ==
  ASSUME TypeOK, Sound, NEW p \in Pushers, Refuse(p)
  PROVE  Sound'
<1>1. PushStep(p, "check", "rollback") /\ UNCHANGED <<marker, remove_marker, buf, pop, log>>
  BY DEF Refuse
<1>2. p \notin Accepted'
  BY <1>1, MoveKeeps DEF Accepted
<1>3. LogInv' /\ PushInv' /\ TurnInv' /\ PopInv'
  BY <1>1, <1>2, SoundMove
<1>4. BufInv'
  BY <1>1, BufKept
<1>5. QED
  BY <1>3, <1>4 DEF Sound

\* The remover never passes a reservation that is not published, so the
\* subtraction of the heads does not underflow.
LEMMA NoUnderflow ==
  ASSUME TypeOK, Sound, NEW p \in Pushers, Underflow(p)
  PROVE  FALSE
<1>1. p \in Active
  BY DEF Underflow, PushStep, Active
<1>2. push[p].at.len \in marker.fin..(Len(log) - 1) /\ push[p].at.head = Mark(push[p].at.len)
  BY <1>1, OwnRegion DEF Sound
<1>3. remove_marker.fin <= marker.fin /\ remove_marker.head = Mark(remove_marker.fin)
  BY DEF Sound, PopInv
<1>4. /\ remove_marker.fin \in 0..Len(log) /\ push[p].at.len \in 0..Len(log)
      /\ remove_marker.fin <= push[p].at.len
  BY <1>2, <1>3, Numbers
<1>5. Mark(remove_marker.fin) <= Mark(push[p].at.len)
  BY <1>4 DEF Sound, LogInv
<1>6. QED
  BY <1>2, <1>3, <1>5, Numbers DEF Underflow

LEMMA SoundAwaitTurn ==
  ASSUME TypeOK, Sound, NEW p \in Pushers, AwaitTurn(p)
  PROVE  Sound'
<1>1. PushStep(p, "wait", "publish") /\ UNCHANGED <<marker, remove_marker, buf, pop, log>>
  BY DEF AwaitTurn
<1>2. p \in Accepted /\ p \in Active
  BY <1>1 DEF PushStep, Accepted, Active
<1>3. ~Overruns(p) /\ push[p].at.len = marker.fin
  BY <1>2 DEF AwaitTurn, Sound, PushInv
<1>4. LogInv' /\ PushInv' /\ TurnInv' /\ PopInv'
  BY <1>1, <1>3, SoundMove
<1>5. BufInv'
  BY <1>1, BufKept
<1>6. QED
  BY <1>4, <1>5 DEF Sound

\* The region of an accepted push lies inside of the buffer.
LEMMA FitsBuffer ==
  ASSUME TypeOK, PushInv, NEW p \in Accepted
  PROVE  /\ push[p].at.head \in Nat /\ push[p].data \in Payloads
         /\ push[p].at.head + Size(push[p].data) <= Cap
<1>1. p \in Pushers /\ p \in Active /\ push[p].pc # "idle"
  BY DEF Accepted, Active
<1>2. push[p].at.head \in Nat /\ push[p].data \in Payloads
  BY <1>1, Numbers
<1>3. ~(push[p].at.head + Size(push[p].data) > Cap)
  BY <1>1 DEF PushInv, Overruns
<1>4. Size(push[p].data) \in Nat /\ Cap \in Nat
  BY <1>2, SizeType, BBRingAssumption
<1>5. QED
  BY <1>2, <1>3, <1>4

\* Bytes of a record apart from the region s..(e - 1) outlast a write to it.
LEMMA ApartStays ==
  ASSUME NEW s \in Nat, NEW e \in Nat, NEW a \in Nat, NEW d \in Payloads, TypeOK,
         \A x \in Addr : x < s \/ x >= e => buf'[x] = buf[x],
         a + Size(d) <= Cap, a + Size(d) <= s \/ e <= a
  PROVE  /\ \A k \in 0..(Hdr - 1) : buf'[a + k] = buf[a + k]
         /\ \A k \in 0..(PayloadLen[d] - 1) : buf'[a + Hdr + k] = buf[a + Hdr + k]
<1>1. PayloadLen[d] \in Nat /\ Hdr \in Nat /\ Cap \in Nat /\ Size(d) = Hdr + PayloadLen[d]
  BY BBRingAssumption DEF Size
<1>2. ASSUME NEW k \in 0..(Hdr - 1)
      PROVE  buf'[a + k] = buf[a + k]
  <2>1. a + k \in Addr /\ (a + k < s \/ a + k >= e)
    BY <1>1 DEF Addr
  <2>2. QED
    BY <2>1
<1>3. ASSUME NEW k \in 0..(PayloadLen[d] - 1)
      PROVE  buf'[a + Hdr + k] = buf[a + Hdr + k]
  <2>1. a + Hdr + k \in Addr /\ (a + Hdr + k < s \/ a + Hdr + k >= e)
    BY <1>1 DEF Addr
  <2>2. QED
    BY <2>1
<1>4. QED
  BY <1>2, <1>3

\* A pusher that writes inside of its region leaves all that the others wrote.
LEMMA BufWritten ==
  ASSUME TypeOK, Sound, NEW p \in Accepted, NEW from, NEW to, PushStep(p, from, to),
         from \in {"header", "payload"}, to \in {"payload", "wait"},
         UNCHANGED <<marker, log>>,
         \A x \in Addr : x < push[p].at.head \/ x >= push[p].at.head + Size(push[p].data)
                            => buf'[x] = buf[x],
         \A k \in 0..(Hdr - 1) :
           buf'[push[p].at.head + k] = LenByte(PayloadLen[push[p].data], k),
         to = "wait" =>
           \A k \in 0..(PayloadLen[push[p].data] - 1) :
             buf'[push[p].at.head + Hdr + k] = DataByte(push[p].data, k)
  PROVE  BufInv'
<1> DEFINE s == push[p].at.head
           e == push[p].at.head + Size(push[p].data)
<1>1. p \in Active /\ p \in Pushers
  BY DEF Accepted, Active
<1>2. s \in Nat /\ e \in Nat /\ s = Mark(push[p].at.len) /\ push[p].at.len \in marker.fin..(Len(log) - 1)
  <2>1. push[p].data \in Payloads /\ s = Mark(push[p].at.len) /\ push[p].at.len \in marker.fin..(Len(log) - 1)
    BY <1>1, OwnRegion DEF Sound
  <2>2. s \in Nat /\ Size(push[p].data) \in Nat
    BY <1>1, <2>1, Numbers, SizeType
  <2>3. QED
    BY <2>1, <2>2
<1>3. /\ push'[p].pc = to
      /\ \A q \in Pushers : push'[q].at = push[q].at /\ push'[q].data = push[q].data
      /\ \A q \in Pushers \ {p} : push'[q] = push[q]
  BY <1>1, MoveKeeps
<1>4. ASSUME NEW q \in Accepted'
      PROVE  (/\ push[q].pc # "header" => HeaderStored(push[q].at.head, push[q].data)
              /\ push[q].pc \in {"wait", "publish"} => DataStored(push[q].at.head, push[q].data))'
  <2>1. q \in Pushers
    BY DEF Accepted
  <2>2. CASE q = p
    BY <1>3, <2>1, <2>2 DEF HeaderStored, DataStored
  <2>3. CASE q # p
    <3>1. q \in Accepted /\ q \in Active /\ push'[q] = push[q]
      BY <1>3, <2>1, <2>3 DEF Accepted, Active
    <3>2. push[q].at.head \in Nat /\ push[q].data \in Payloads
      BY <2>1, <3>1, Numbers DEF Accepted
    <3>3. push[q].at.head + Size(push[q].data) <= Cap
      BY <3>1, <3>2, FitsBuffer DEF Sound
    <3>4. push[q].at.head + Size(push[q].data) <= s \/ e <= push[q].at.head
      BY <1>1, <2>3, <3>1, OwnRegionsApart DEF Sound
    <3>5. /\ \A k \in 0..(Hdr - 1) : buf'[push[q].at.head + k] = buf[push[q].at.head + k]
          /\ \A k \in 0..(PayloadLen[push[q].data] - 1) :
               buf'[push[q].at.head + Hdr + k] = buf[push[q].at.head + Hdr + k]
      <4> HIDE DEF s, e
      <4>1. \A x \in Addr : x < s \/ x >= e => buf'[x] = buf[x]
        BY DEF s, e
      <4> DEFINE a == push[q].at.head
                 d == push[q].data
      <4>2. a \in Nat /\ d \in Payloads /\ a + Size(d) <= Cap /\ (a + Size(d) <= s \/ e <= a)
        BY <3>2, <3>3, <3>4
      <4>3. s \in Nat /\ e \in Nat
        BY <1>2
      <4> HIDE DEF a, d
      <4>4. /\ \A k \in 0..(Hdr - 1) : buf'[a + k] = buf[a + k]
            /\ \A k \in 0..(PayloadLen[d] - 1) : buf'[a + Hdr + k] = buf[a + Hdr + k]
        BY <4>1, <4>2, <4>3, ApartStays
      <4>5. QED
        BY <4>4 DEF a, d
    <3>6. QED
      BY <3>1, <3>5 DEF Sound, BufInv, HeaderStored, DataStored
  <2>4. QED
    BY <2>2, <2>3
<1>5. ASSUME NEW i \in 0..(marker.fin - 1)
      PROVE  (/\ Mark(i + 1) <= Cap
              /\ HeaderStored(Mark(i), log[i + 1].data) /\ DataStored(Mark(i), log[i + 1].data))'
  <2>1. Mark(i)' = Mark(i) /\ Mark(i + 1)' = Mark(i + 1) /\ log' = log
    BY DEF Mark
  <2>2. Mark(i) \in Nat /\ log[i + 1].data \in Payloads /\ Mark(i + 1) = Mark(i) + Size(log[i + 1].data)
    BY PublishedRegion DEF Sound
  <2>3. Mark(i + 1) <= Cap
    BY DEF Sound, BufInv
  <2>4. Mark(i + 1) <= s
    <3>1. \A j \in marker.fin..Len(log) : Mark(i + 1) <= Mark(j)
      BY PublishedRegion DEF Sound
    <3>2. push[p].at.len \in marker.fin..Len(log)
      BY <1>2, Numbers
    <3>3. QED
      BY <1>2, <3>1, <3>2
  <2>5. /\ \A k \in 0..(Hdr - 1) : buf'[Mark(i) + k] = buf[Mark(i) + k]
        /\ \A k \in 0..(PayloadLen[log[i + 1].data] - 1) :
             buf'[Mark(i) + Hdr + k] = buf[Mark(i) + Hdr + k]
    <3> HIDE DEF s, e
    <3>1. \A x \in Addr : x < s \/ x >= e => buf'[x] = buf[x]
      BY DEF s, e
    <3> DEFINE a == Mark(i)
               d == log[i + 1].data
    <3>2. a \in Nat /\ d \in Payloads /\ a + Size(d) <= Cap /\ a + Size(d) <= s
      BY <2>2, <2>3, <2>4
    <3>3. s \in Nat /\ e \in Nat
      BY <1>2
    <3> HIDE DEF a, d
    <3>4. /\ \A k \in 0..(Hdr - 1) : buf'[a + k] = buf[a + k]
          /\ \A k \in 0..(PayloadLen[d] - 1) : buf'[a + Hdr + k] = buf[a + Hdr + k]
      BY <3>1, <3>2, <3>3, ApartStays
    <3>5. QED
      BY <3>4 DEF a, d
  <2>6. QED
    BY <2>1, <2>3, <2>5 DEF Sound, BufInv, HeaderStored, DataStored
<1>6. QED
  BY <1>4, <1>5 DEF BufInv

LEMMA SoundWriteHeader ==
  ASSUME TypeOK, Sound, NEW p \in Pushers, WriteHeader(p)
  PROVE  Sound'
<1>1. PushStep(p, "header", "payload") /\ UNCHANGED <<marker, remove_marker, pop, log>>
  BY DEF WriteHeader
<1>2. p \in Accepted /\ p \in Active
  BY <1>1 DEF PushStep, Accepted, Active
<1>3. ~Overruns(p)
  BY <1>2 DEF Sound, PushInv
<1>4. LogInv' /\ PushInv' /\ TurnInv' /\ PopInv'
  BY <1>1, <1>3, SoundMove
<1>5. BufInv'
  <2> DEFINE s == push[p].at.head
             d == push[p].data
  <2>1. /\ s \in Nat /\ d \in Payloads /\ s + Size(d) <= Cap
        /\ PayloadLen[d] \in Nat /\ Hdr \in Nat /\ Cap \in Nat /\ Size(d) = Hdr + PayloadLen[d]
    BY <1>2, FitsBuffer, BBRingAssumption DEF Sound, Size
  <2>2. buf' = [x \in Addr |-> IF x \in s..(s + Hdr - 1) THEN LenByte(PayloadLen[d], x - s) ELSE buf[x]]
    BY DEF WriteHeader, Stored
  <2> HIDE DEF s, d
  <2>3. \A x \in Addr : x < s \/ x >= s + Size(d) => buf'[x] = buf[x]
    BY <2>1, <2>2 DEF Addr
  <2>4. ASSUME NEW k \in 0..(Hdr - 1)
        PROVE  buf'[s + k] = LenByte(PayloadLen[d], k)
    <3>1. s + k \in Addr /\ s + k \in s..(s + Hdr - 1) /\ (s + k) - s = k
      BY <2>1 DEF Addr
    <3>2. QED
      BY <2>2, <3>1
  <2>5. QED
    BY <1>1, <1>2, <2>3, <2>4, BufWritten DEF s, d
<1>6. QED
  BY <1>4, <1>5 DEF Sound

LEMMA SoundWritePayload ==
  ASSUME TypeOK, Sound, NEW p \in Pushers, WritePayload(p)
  PROVE  Sound'
<1>1. PushStep(p, "payload", "wait") /\ UNCHANGED <<marker, remove_marker, pop, log>>
  BY DEF WritePayload
<1>2. p \in Accepted /\ p \in Active /\ push[p].pc = "payload"
  BY <1>1 DEF PushStep, Accepted, Active
<1>3. ~Overruns(p)
  BY <1>2 DEF Sound, PushInv
<1>4. LogInv' /\ PushInv' /\ TurnInv' /\ PopInv'
  BY <1>1, <1>3, SoundMove
<1>5. BufInv'
  <2> DEFINE s == push[p].at.head
             d == push[p].data
  <2>1. /\ s \in Nat /\ d \in Payloads /\ s + Size(d) <= Cap
        /\ PayloadLen[d] \in Nat /\ Hdr \in Nat /\ Cap \in Nat /\ Size(d) = Hdr + PayloadLen[d]
    BY <1>2, FitsBuffer, BBRingAssumption DEF Sound, Size
  <2>2. buf' = [x \in Addr |-> IF x \in (s + Hdr)..(s + Hdr + PayloadLen[d] - 1)
                              THEN DataByte(d, x - (s + Hdr)) ELSE buf[x]]
    BY DEF WritePayload, Stored
  <2>3. \A k \in 0..(Hdr - 1) : buf[s + k] = LenByte(PayloadLen[d], k)
    BY <1>2 DEF Sound, BufInv, HeaderStored
  <2> HIDE DEF s, d
  <2>4. \A x \in Addr : x < s \/ x >= s + Size(d) => buf'[x] = buf[x]
    BY <2>1, <2>2 DEF Addr
  <2>5. ASSUME NEW k \in 0..(Hdr - 1)
        PROVE  buf'[s + k] = LenByte(PayloadLen[d], k)
    <3>1. s + k \in Addr /\ s + k < s + Hdr
      BY <2>1 DEF Addr
    <3>2. QED
      BY <2>1, <2>2, <2>3, <3>1
  <2>6. ASSUME NEW k \in 0..(PayloadLen[d] - 1)
        PROVE  buf'[s + Hdr + k] = DataByte(d, k)
    <3>1. /\ s + Hdr + k \in Addr /\ s + Hdr + k \in (s + Hdr)..(s + Hdr + PayloadLen[d] - 1)
          /\ (s + Hdr + k) - (s + Hdr) = k
      BY <2>1 DEF Addr
    <3>2. QED
      BY <2>2, <3>1
  <2>7. QED
    BY <1>1, <1>2, <2>4, <2>5, <2>6, BufWritten DEF s, d
<1>6. QED
  BY <1>4, <1>5 DEF Sound

\* The oldest reservation becomes a published record.
\* The pusher whose turn it is publishes one record.
LEMMA PublishEffect ==
  ASSUME TypeOK, Sound, NoCarry, NEW p \in Pushers, Publish(p)
  PROVE  /\ p \in Accepted /\ p \in Active /\ push[p].pc = "publish"
         /\ push[p].at.len = marker.fin /\ marker.fin \in 0..(Len(log) - 1) /\ marker.len = Len(log)
         /\ marker'.head = marker.head /\ marker'.len = marker.len /\ marker'.fin = marker.fin + 1
<1>1. PICK n \in Nat : n = marker.fin
  BY Numbers
<1>2. p \in Accepted /\ p \in Active /\ push[p].pc = "publish"
  BY DEF Publish, PushReturn, Accepted, Active
<1>3. push[p].at.len = n /\ n \in 0..(Len(log) - 1) /\ marker.len = Len(log)
  <2>1. push[p].at.len = n /\ marker.len = Len(log)
    BY <1>1, <1>2 DEF Sound, PushInv, LogInv
  <2>2. push[p].at.len \in marker.fin..(Len(log) - 1)
    BY <1>2, OwnRegion DEF Sound
  <2>3. QED
    BY <1>1, <2>1, <2>2, Numbers
<1>4. marker'.head = marker.head /\ marker'.len = marker.len /\ marker'.fin = n + 1
  <2>1. /\ marker.head + 0 \in 0..(HeadMod - 1) /\ marker.head + 0 = marker.head
        /\ marker.len + 0 \in 0..(LenMod - 1) /\ marker.len + 0 = marker.len
    BY MarkerAssumption DEF TypeOK, Marker
  <2>2. marker.fin + 1 \in 0..(LenMod - 1) /\ marker.len <= MaxReserved
    <3>1. marker.len <= MaxReserved /\ n + 1 <= marker.len
      BY <1>3, Numbers DEF Sound, LogInv
    <3>2. marker.fin \in Nat /\ marker.len \in Nat
      BY Numbers
    <3>3. MaxReserved \in Nat /\ LenMod \in Nat /\ MaxReserved + 1 < LenMod
      BY Bounds
    <3>4. QED
      BY <1>1, <3>1, <3>2, <3>3
  <2>3. marker' = [head |-> marker.head + 0, len |-> marker.len + 0, fin |-> marker.fin + 1]
    BY <2>1, <2>2, PlusNoCarry DEF Publish, TypeOK
  <2>4. QED
    BY <1>1, <2>1, <2>3
<1>5. QED
  BY <1>1, <1>2, <1>3, <1>4

LEMMA SoundPublish ==
  ASSUME TypeOK, Sound, NoCarry, NEW p \in Pushers, Publish(p)
  PROVE  Sound'
<1> DEFINE d == push[p].data
<1>1. PICK n \in Nat : n = marker.fin
  BY Numbers
<1>2. p \in Accepted /\ p \in Active /\ push[p].pc = "publish"
  BY PublishEffect
<1>3. push[p].at.len = n /\ n \in 0..(Len(log) - 1) /\ marker.len = Len(log)
  BY <1>1, PublishEffect
<1>4. marker'.head = marker.head /\ marker'.len = marker.len /\ marker'.fin = n + 1
  BY <1>1, PublishEffect
<1>5. LogInv' /\ \A i : Mark(i)' = Mark(i)
  BY <1>3, <1>4, LogKept, Numbers DEF Sound, Publish
<1>6. /\ push'[p].pc = "idle" /\ \A q \in Pushers \ {p} : push'[q] = push[q]
      /\ Active' = Active \ {p} /\ Accepted' = Accepted \ {p}
  BY DEF Publish, PushReturn, IdlePush, TypeOK, Active, Accepted
<1>7. \A q \in Active \ {p} : push[q].at.len \in (n + 1)..(Len(log) - 1) /\ push'[q] = push[q]
  <2>1. ASSUME NEW q \in Active \ {p}
        PROVE  push[q].at.len \in (n + 1)..(Len(log) - 1) /\ push'[q] = push[q]
    <3>1. push[q].at.len \in n..(Len(log) - 1)
      BY <1>1, OwnRegion DEF Sound
    <3>2. push[q].at.len # n
      BY <1>2, <1>3 DEF Sound, PushInv
    <3>3. QED
      BY <1>6, <3>1, <3>2 DEF Active
  <2>2. QED
    BY <2>1
<1>8. PushInv'
  <2>1. \A q \in Pushers : push'[q].pc # "panicked"
    BY <1>6 DEF Sound, PushInv
  <2>2. ASSUME NEW q \in Active \ {p}
        PROVE  (/\ marker.fin <= push[q].at.len /\ push[q].at.len < Len(log)
                /\ log[push[q].at.len + 1] = [data |-> push[q].data, at |-> push[q].at.head]
                /\ push[q].pc = "publish" => push[q].at.len = marker.fin
                /\ q \in Accepted => ~Overruns(q))'
    <3>1. push'[q] = push[q] /\ log' = log /\ (q \in Accepted' <=> q \in Accepted)
      BY <1>6, <1>7 DEF Publish
    <3>2. push[q].pc # "publish"
      <4>1. push[q].at.len # marker.fin
        BY <1>1, <1>7
      <4>2. QED
        BY <4>1 DEF Sound, PushInv
    <3>3. n + 1 <= push[q].at.len /\ push[q].at.len < Len(log)
      BY <1>7, Numbers
    <3>4. QED
      BY <1>4, <3>1, <3>2, <3>3 DEF Sound, PushInv, Overruns
  <2>3. \A q, s \in Active \ {p} : push'[q].at.len = push'[s].at.len => q = s
    BY <1>7 DEF Sound, PushInv
  <2>4. QED
    BY <1>6, <2>1, <2>2, <2>3 DEF PushInv
<1>9. TurnInv'
  <2>1. ASSUME NEW i \in (n + 1)..(marker.len - 1)
        PROVE  \E q \in Active' : push'[q].at.len = i
    <3>1. i \in marker.fin..(marker.len - 1) /\ i # n
      BY <1>1, <1>3, Numbers
    <3>2. PICK q \in Active : push[q].at.len = i
      BY <3>1 DEF Sound, TurnInv
    <3>3. q \in Active \ {p}
      BY <1>3, <3>1, <3>2
    <3>4. QED
      BY <1>6, <1>7, <3>2, <3>3
  <2>2. QED
    BY <1>4, <2>1 DEF TurnInv
<1>10. BufInv'
  <2>1. buf' = buf /\ log' = log
    BY DEF Publish
  <2>2. ASSUME NEW i \in 0..n
        PROVE  (/\ Mark(i + 1) <= Cap
                /\ HeaderStored(Mark(i), log[i + 1].data) /\ DataStored(Mark(i), log[i + 1].data))'
    <3>1. CASE i \in 0..(n - 1)
      BY <1>1, <1>5, <2>1, <3>1 DEF Sound, BufInv, HeaderStored, DataStored
    <3>2. CASE i = n
      <4>1. /\ push[p].at.head = Mark(n) /\ push[p].at.head + Size(push[p].data) = Mark(n + 1)
            /\ log[n + 1].data = push[p].data
        <5>1. log[n + 1] = [data |-> push[p].data, at |-> push[p].at.head]
          BY <1>2, <1>3 DEF Sound, PushInv
        <5>2. QED
          BY <1>2, <1>3, <5>1, OwnRegion DEF Sound
      <4>2. Mark(n + 1) <= Cap
        BY <1>2, <4>1, FitsBuffer DEF Sound
      <4>3. HeaderStored(Mark(n), log[n + 1].data) /\ DataStored(Mark(n), log[n + 1].data)
        BY <1>2, <4>1 DEF Sound, BufInv
      <4>4. QED
        BY <1>5, <2>1, <3>2, <4>2, <4>3 DEF HeaderStored, DataStored
    <3>3. QED
      BY <3>1, <3>2
  <2>3. ASSUME NEW q \in Accepted'
        PROVE  (/\ push[q].pc # "header" => HeaderStored(push[q].at.head, push[q].data)
                /\ push[q].pc \in {"wait", "publish"} => DataStored(push[q].at.head, push[q].data))'
    <3>1. q \in Accepted /\ push'[q] = push[q]
      BY <1>6 DEF Accepted
    <3>2. QED
      BY <2>1, <3>1 DEF Sound, BufInv, HeaderStored, DataStored
  <2>4. QED
    BY <1>4, <2>2, <2>3 DEF BufInv
<1>11. PopInv'
  <2>1. UNCHANGED <<remove_marker, pop, log>> /\ LogInv /\ PopInv
    BY DEF Publish, Sound
  <2>2. marker'.fin \in Nat /\ marker.fin <= marker'.fin
    BY <1>1, <1>4
  <2>3. QED
    BY <1>5, <2>1, <2>2, PopKept
<1>12. QED
  BY <1>5, <1>8, <1>9, <1>10, <1>11 DEF Sound
-----------------------------------------------------------------------------
(***************************************************************************)
(* The remover                                                             *)
(***************************************************************************)

\* What PopInv says of one remover.
RemoverInv(r) ==
  /\ pop[r].pc = "idle" => remove_marker.len = remove_marker.fin
  /\ pop[r].pc # "idle" =>
       /\ remove_marker.len = remove_marker.fin + 1
       /\ pop[r].rem = [remove_marker EXCEPT !.len = remove_marker.fin]
  /\ pop[r].pc # "wait"
  /\ pop[r].pc \in {"read", "guard"} => remove_marker.fin < marker.fin
  /\ pop[r].pc = "guard" => pop[r].len = PayloadLen[log[remove_marker.fin + 1].data]

\* With a single remover it is enough to look at the one that took the step.
LEMMA OneRemover ==
  ASSUME LoneRemover, Sound, NEW r \in Removers, UNCHANGED <<marker, buf, push, log>>,
         remove_marker'.fin <= marker.fin, remove_marker'.head = Mark(remove_marker'.fin),
         RemoverInv(r)'
  PROVE  Sound'
<1>1. LogInv' /\ PushInv' /\ TurnInv' /\ BufInv'
  BY PushKept DEF Sound
<1>2. PopInv'
  <2>1. \A s \in Removers : s = r
    BY DEF LoneRemover
  <2>2. (remove_marker.head = Mark(remove_marker.fin))'
    BY DEF Mark
  <2>3. QED
    BY <2>1, <2>2 DEF PopInv, RemoverInv
<1>3. QED
  BY <1>1, <1>2 DEF Sound

\* The remover draws the next ticket.
LEMMA PopReserveEffect ==
  ASSUME TypeOK, Sound, NoCarry, NEW r \in Removers, PopReserve(r)
  PROVE  /\ remove_marker.len = remove_marker.fin /\ remove_marker.fin <= marker.fin
         /\ remove_marker.head = Mark(remove_marker.fin)
         /\ remove_marker'.head = remove_marker.head /\ remove_marker'.fin = remove_marker.fin
         /\ remove_marker'.len = remove_marker.fin + 1
<1>1. /\ remove_marker.len = remove_marker.fin /\ remove_marker.fin <= marker.fin
      /\ remove_marker.head = Mark(remove_marker.fin)
      /\ marker.fin <= marker.len /\ marker.len <= MaxReserved
  BY DEF PopReserve, Sound, PopInv, LogInv
<1>2. /\ remove_marker'.head = remove_marker.head /\ remove_marker'.fin = remove_marker.fin
      /\ remove_marker'.len = remove_marker.fin + 1
  <2>1. /\ remove_marker.head + 0 \in 0..(HeadMod - 1) /\ remove_marker.head + 0 = remove_marker.head
        /\ remove_marker.fin + 0 \in 0..(LenMod - 1) /\ remove_marker.fin + 0 = remove_marker.fin
    BY MarkerAssumption DEF TypeOK, Marker
  <2>2. remove_marker.len + 1 \in 0..(LenMod - 1)
    <3>1. remove_marker.len <= MaxReserved
      BY <1>1, Numbers, Bounds
    <3>2. remove_marker.len \in Nat
      BY Numbers
    <3>3. MaxReserved \in Nat /\ LenMod \in Nat /\ MaxReserved + 1 < LenMod
      BY Bounds
    <3>4. QED
      BY <3>1, <3>2, <3>3
  <2>3. remove_marker' = [head |-> remove_marker.head + 0, len |-> remove_marker.len + 1,
                          fin |-> remove_marker.fin + 0]
    BY <2>1, <2>2, PlusNoCarry DEF PopReserve, TypeOK
  <2>4. QED
    BY <1>1, <2>1, <2>3
<1>3. QED
  BY <1>1, <1>2

LEMMA SoundPopReserve ==
  ASSUME TypeOK, Sound, LoneRemover, NoCarry, NEW r \in Removers, PopReserve(r)
  PROVE  Sound'
<1>1. /\ remove_marker.len = remove_marker.fin /\ remove_marker.fin <= marker.fin
      /\ remove_marker.head = Mark(remove_marker.fin)
      /\ marker.fin <= marker.len /\ marker.len <= MaxReserved
  BY DEF PopReserve, Sound, PopInv, LogInv
<1>2. /\ remove_marker'.head = remove_marker.head /\ remove_marker'.fin = remove_marker.fin
      /\ remove_marker'.len = remove_marker.fin + 1
  BY PopReserveEffect
<1>3. pop'[r] = [pc |-> "load", rem |-> remove_marker, len |-> 0]
  BY DEF PopReserve, TypeOK
<1>4. remove_marker = [remove_marker' EXCEPT !.len = remove_marker'.fin]
  BY <1>1, <1>2, TypeStep DEF TypeOK, Marker, Next, PopReserve
<1>5. RemoverInv(r)'
  BY <1>2, <1>3, <1>4 DEF RemoverInv
<1>6. QED
  BY <1>1, <1>2, <1>5, OneRemover DEF PopReserve

LEMMA SoundPopEmpty ==
  ASSUME TypeOK, Sound, LoneRemover, NEW r \in Removers, PopEmpty(r)
  PROVE  Sound'
<1>1. pop'[r] = [pop[r] EXCEPT !.pc = "none"] /\ pop[r].pc = "load"
  BY DEF PopEmpty, PopStep, TypeOK
<1>2. pop'[r].rem = pop[r].rem /\ pop'[r].pc = "none"
  BY <1>1 DEF TypeOK
<1>3. RemoverInv(r)'
  BY <1>1, <1>2 DEF PopEmpty, Sound, PopInv, RemoverInv
<1>4. QED
  BY <1>3, OneRemover DEF PopEmpty, Sound, PopInv

\* The remover gives its ticket back.
LEMMA PopRollbackEffect ==
  ASSUME TypeOK, Sound, NEW r \in Removers, PopRollback(r)
  PROVE  /\ remove_marker.len = remove_marker.fin + 1 /\ remove_marker.fin <= marker.fin
         /\ remove_marker.head = Mark(remove_marker.fin)
         /\ remove_marker'.head = remove_marker.head /\ remove_marker'.fin = remove_marker.fin
         /\ remove_marker'.len = remove_marker.fin
<1>1. /\ remove_marker.len = remove_marker.fin + 1 /\ remove_marker.fin <= marker.fin
      /\ remove_marker.head = Mark(remove_marker.fin)
  BY DEF PopRollback, PopReturn, Sound, PopInv
<1>2. /\ remove_marker'.head = remove_marker.head /\ remove_marker'.fin = remove_marker.fin
      /\ remove_marker'.len = remove_marker.fin
  <2>1. /\ remove_marker.head + 0 \in 0..(HeadMod - 1) /\ remove_marker.head + 0 = remove_marker.head
        /\ remove_marker.fin + 0 \in 0..(LenMod - 1) /\ remove_marker.fin + 0 = remove_marker.fin
    BY MarkerAssumption DEF TypeOK, Marker
  <2>2. remove_marker.len + (-1) = remove_marker.fin /\ remove_marker.fin \in 0..(LenMod - 1)
    BY <1>1, <2>1, Numbers
  <2>3. remove_marker' = [head |-> remove_marker.head + 0, len |-> remove_marker.len + (-1),
                          fin |-> remove_marker.fin + 0]
    BY <2>1, <2>2, PlusNoCarry DEF PopRollback, TypeOK
  <2>4. QED
    BY <2>1, <2>2, <2>3
<1>3. QED
  BY <1>1, <1>2

LEMMA SoundPopRollback ==
  ASSUME TypeOK, Sound, LoneRemover, NEW r \in Removers, PopRollback(r)
  PROVE  Sound'
<1>1. /\ remove_marker.len = remove_marker.fin + 1 /\ remove_marker.fin <= marker.fin
      /\ remove_marker.head = Mark(remove_marker.fin)
  BY DEF PopRollback, PopReturn, Sound, PopInv
<1>2. /\ remove_marker'.head = remove_marker.head /\ remove_marker'.fin = remove_marker.fin
      /\ remove_marker'.len = remove_marker.fin
  BY PopRollbackEffect
<1>3. pop'[r].pc = "idle"
  BY DEF PopRollback, PopReturn, IdlePop, TypeOK
<1>4. RemoverInv(r)'
  BY <1>2, <1>3 DEF RemoverInv
<1>5. QED
  BY <1>1, <1>2, <1>4, OneRemover DEF PopRollback

LEMMA SoundPopClaim ==
  ASSUME TypeOK, Sound, LoneRemover, NEW r \in Removers, PopClaim(r)
  PROVE  Sound'
<1>1. pop[r].pc = "load" /\ pop[r].rem.len < marker.fin
  BY DEF PopClaim, PopStep
<1>2. pop[r].rem = [remove_marker EXCEPT !.len = remove_marker.fin]
  BY <1>1 DEF Sound, PopInv
<1>3. pop[r].rem.fin = remove_marker.fin /\ pop[r].rem.len = remove_marker.fin
  BY <1>2 DEF TypeOK, Marker
<1>4. pop' = [pop EXCEPT ![r].pc = "read"]
  BY <1>3 DEF PopClaim, PopStep
<1>5. pop'[r].pc = "read" /\ pop'[r].rem = pop[r].rem
  BY <1>4 DEF TypeOK
<1>6. RemoverInv(r)'
  BY <1>1, <1>3, <1>5 DEF PopClaim, Sound, PopInv, RemoverInv
<1>7. QED
  BY <1>6, OneRemover DEF PopClaim, Sound, PopInv

\* The bytes at the remover's place are the header of its record.
LEMMA ReadsHeader ==
  ASSUME TypeOK, Sound, NEW r \in Removers, pop[r].pc \in {"read", "guard"}
  PROVE  /\ remove_marker.fin \in 0..(marker.fin - 1)
         /\ log[remove_marker.fin + 1].data \in Payloads
         /\ Start(r) = Mark(remove_marker.fin)
         /\ HeaderAt(Start(r)) = {PayloadLen[log[remove_marker.fin + 1].data]}
<1> DEFINE a == Mark(remove_marker.fin)
           d == log[remove_marker.fin + 1].data
<1>1. remove_marker.fin \in 0..(marker.fin - 1)
  BY Numbers DEF Sound, PopInv
<1>2. /\ d \in Payloads /\ a \in Nat /\ a + Size(d) <= Cap /\ HeaderStored(a, d)
      /\ PayloadLen[d] \in Nat /\ Hdr \in Nat /\ Hdr >= 1 /\ Cap \in Nat /\ Size(d) = Hdr + PayloadLen[d]
  <2>1. /\ d \in Payloads /\ a \in Nat
        /\ Mark(remove_marker.fin + 1) = a + Size(d)
    BY <1>1, PublishedRegion DEF Sound
  <2>2. Mark(remove_marker.fin + 1) <= Cap /\ HeaderStored(a, d)
    BY <1>1 DEF Sound, BufInv
  <2>3. QED
    BY <2>1, <2>2, BBRingAssumption DEF Size
<1>3. Start(r) = a
  <2>1. pop[r].rem.head = a
    <3>1. /\ pop[r].rem = [remove_marker EXCEPT !.len = remove_marker.fin]
          /\ remove_marker.head = a
      BY DEF Sound, PopInv
    <3>2. remove_marker \in Marker
      BY DEF TypeOK
    <3>3. QED
      BY <3>1, <3>2 DEF Marker
  <2>2. a < Cap
    <3> HIDE DEF a, d
    <3>1. QED
      BY <1>2
  <2>3. a % Cap = a
    <3> HIDE DEF a, d
    <3>1. QED
      BY <1>2, <2>2, FitsField
  <2>4. QED
    BY <2>1, <2>3 DEF Start
<1>4. HeaderAt(a) = {PayloadLen[d]}
  <2> HIDE DEF a, d
  <2>1. \A i \in 0..(Hdr - 1) : a + i \in Addr /\ buf[a + i] = LenByte(PayloadLen[d], i)
    BY <1>2 DEF Addr, HeaderStored
  <2>2. PayloadLen[d] \in Lens
    BY <1>2 DEF Lens
  <2>3. ASSUME NEW l, buf[a + 0] = LenByte(l, 0)
        PROVE  l = PayloadLen[d]
    BY <1>2, <2>1, <2>3 DEF LenByte
  <2>4. 0 \in 0..(Hdr - 1)
    BY <1>2
  <2>5. {l \in Lens : \A i \in 0..(Hdr - 1) : a + i \in Addr /\ buf[a + i] = LenByte(l, i)} = {PayloadLen[d]}
    BY <2>1, <2>2, <2>3, <2>4
  <2>6. QED
    BY <2>5 DEF HeaderAt
<1>5. QED
  BY <1>1, <1>2, <1>3, <1>4

LEMMA SoundPopRead ==
  ASSUME TypeOK, Sound, LoneRemover, NEW r \in Removers, PopRead(r)
  PROVE  Sound'
<1>1. pop[r].pc = "read"
  BY DEF PopRead
<1>2. PICK l \in HeaderAt(Start(r)) : pop' = [pop EXCEPT ![r].pc = "guard", ![r].len = l]
  BY DEF PopRead
<1>3. l = PayloadLen[log[remove_marker.fin + 1].data]
  BY <1>1, <1>2, ReadsHeader
<1>4. pop'[r].pc = "guard" /\ pop'[r].len = l /\ pop'[r].rem = pop[r].rem
  BY <1>2 DEF TypeOK
<1>5. RemoverInv(r)'
  BY <1>1, <1>3, <1>4 DEF PopRead, Sound, PopInv, RemoverInv
<1>6. QED
  BY <1>5, OneRemover DEF PopRead, Sound, PopInv

\* The record under the guard is given back.
LEMMA DropGuardEffect ==
  ASSUME TypeOK, Sound, NoCarry, NEW r \in Removers, DropGuard(r)
  PROVE  /\ pop[r].pc = "guard" /\ remove_marker.fin \in 0..(marker.fin - 1)
         /\ remove_marker'.head = Mark(remove_marker.fin + 1)
         /\ remove_marker'.len = remove_marker.fin + 1 /\ remove_marker'.fin = remove_marker.fin + 1
<1> DEFINE d == log[remove_marker.fin + 1].data
<1>1. PICK n \in Nat : n = remove_marker.fin
  BY Numbers
<1>2. pop[r].pc = "guard"
  BY DEF DropGuard, PopReturn
<1>3. /\ n \in 0..(marker.fin - 1) /\ remove_marker.len = n + 1 /\ remove_marker.head = Mark(n)
      /\ pop[r].len = PayloadLen[d] /\ Mark(n + 1) = Mark(n) + Size(d) /\ Mark(n) \in Nat
      /\ d \in Payloads
  BY <1>1, <1>2, ReadsHeader, PublishedRegion DEF Sound, PopInv
<1>4. marker.fin <= marker.len /\ marker.len <= MaxReserved /\ n + 1 <= marker.fin /\ Mark(n + 1) <= MaxHead
  <2>1. n + 1 \in 0..Len(log) /\ Len(log) \in 0..Len(log) /\ n + 1 <= Len(log) /\ n + 1 <= marker.fin
    BY <1>3, Numbers DEF Sound, LogInv
  <2>2. Mark(n + 1) <= Mark(Len(log))
    BY <2>1 DEF Sound, LogInv
  <2>3. Mark(Len(log)) = marker.head
    BY Numbers DEF Mark
  <2>4. marker.head <= MaxHead /\ marker.fin <= marker.len /\ marker.len <= MaxReserved
    BY DEF Sound, LogInv
  <2>5. Mark(n + 1) \in Nat /\ marker.head \in Nat /\ MaxHead \in Nat
    BY <2>1, MarkNat, Numbers, BBRingAssumption
  <2>6. QED
    BY <2>1, <2>2, <2>3, <2>4, <2>5
<1>5. remove_marker'.head = Mark(n + 1) /\ remove_marker'.len = n + 1 /\ remove_marker'.fin = n + 1
  <2> DEFINE dh == pop[r].len + Hdr
  <2>1. dh \in Int /\ remove_marker.head + dh = Mark(n + 1) /\ Mark(n + 1) \in Nat
    <3>1. dh = Size(d) /\ Size(d) \in Nat
      BY <1>3, BBRingAssumption DEF Size
    <3>2. QED
      BY <1>3, <3>1
  <2>2. remove_marker.head + dh \in 0..(HeadMod - 1)
    BY <1>4, <2>1, Bounds
  <2>3. remove_marker.len + 0 \in 0..(LenMod - 1) /\ remove_marker.len + 0 = n + 1
    BY <1>3, MarkerAssumption DEF TypeOK, Marker
  <2>4. remove_marker.fin + 1 \in 0..(LenMod - 1) /\ remove_marker.fin + 1 = n + 1
    BY <1>1, <2>3
  <2>5. remove_marker' = Plus(remove_marker, dh, 0, 1) /\ remove_marker \in Marker
    BY DEF DropGuard, TypeOK
  <2> HIDE DEF dh
  <2>6. remove_marker' = [head |-> remove_marker.head + dh, len |-> remove_marker.len + 0,
                          fin |-> remove_marker.fin + 1]
    BY <2>1, <2>2, <2>3, <2>4, <2>5, PlusNoCarry
  <2>7. QED
    BY <2>1, <2>3, <2>4, <2>6
<1>6. QED
  BY <1>1, <1>2, <1>3, <1>4, <1>5

LEMMA SoundDropGuard ==
  ASSUME TypeOK, Sound, LoneRemover, NoCarry, NEW r \in Removers, DropGuard(r)
  PROVE  Sound'
<1> DEFINE d == log[remove_marker.fin + 1].data
<1>1. PICK n \in Nat : n = remove_marker.fin
  BY Numbers
<1>2. pop[r].pc = "guard"
  BY DEF DropGuard, PopReturn
<1>3. /\ n \in 0..(marker.fin - 1) /\ remove_marker.len = n + 1 /\ remove_marker.head = Mark(n)
      /\ pop[r].len = PayloadLen[d] /\ Mark(n + 1) = Mark(n) + Size(d) /\ Mark(n) \in Nat
      /\ d \in Payloads
  BY <1>1, <1>2, ReadsHeader, PublishedRegion DEF Sound, PopInv
<1>4. n + 1 <= marker.fin
  BY <1>3, Numbers
<1>5. remove_marker'.head = Mark(n + 1) /\ remove_marker'.len = n + 1 /\ remove_marker'.fin = n + 1
  BY <1>1, DropGuardEffect
<1>6. pop'[r].pc = "idle"
  BY DEF DropGuard, PopReturn, IdlePop, TypeOK
<1>7. RemoverInv(r)'
  BY <1>5, <1>6 DEF RemoverInv
<1>8. remove_marker'.fin <= marker.fin /\ remove_marker'.head = Mark(remove_marker'.fin)
  BY <1>3, <1>4, <1>5
<1>9. QED
  BY <1>7, <1>8, OneRemover DEF DropGuard

\* The entry of a pusher comes after those that are published.
LEMMA LaterEntry ==
  ASSUME NEW fin \in Nat, NEW len \in Nat, NEW i \in 0..(fin - 1), NEW k \in fin..(len - 1)
  PROVE  k + 1 \in 1..len /\ k + 1 # i + 1
  OBVIOUS

\* The bytes of the record under the guard change, and no other byte does.
LEMMA SoundOverwrite ==
  ASSUME TypeOK, Sound, NEW r \in Removers, NEW d \in Payloads, Overwrite(r, d)
  PROVE  Sound'
<1> DEFINE n == remove_marker.fin
           s == Mark(n) + Hdr
           e == Mark(n + 1)
<1>1. /\ n \in 0..(marker.fin - 1) /\ n + 1 \in 1..Len(log) /\ log[n + 1].data \in Payloads
      /\ Start(r) = Mark(n) /\ Mark(n) \in Nat /\ Mark(n + 1) \in Nat
      /\ Mark(n + 1) = Mark(n) + Size(log[n + 1].data)
  <2>1. pop[r].pc = "guard"
    BY DEF Overwrite
  <2>2. n \in 0..(marker.fin - 1) /\ Start(r) = Mark(n)
    BY <2>1, ReadsHeader
  <2>3. QED
    BY <2>2, PublishedRegion DEF Sound
<1>2. PayloadLen[d] = PayloadLen[log[n + 1].data] /\ Size(d) = Size(log[n + 1].data)
  BY DEF Overwrite, Sound, PopInv, Size
<1>3. /\ UNCHANGED <<marker, remove_marker, push, pop>>
      /\ Len(log') = Len(log) /\ Len(log) \in Nat
      /\ \A i \in 1..Len(log) : i # n + 1 => log'[i] = log[i]
      /\ log'[n + 1] = [data |-> d, at |-> log[n + 1].at]
  BY <1>1, RewrittenLog, Numbers DEF Overwrite
<1>4. /\ \A i \in 1..Len(log) : /\ log'[i].at = log[i].at
                               /\ Size(log'[i].data) = Size(log[i].data)
                               /\ PayloadLen[log'[i].data] = PayloadLen[log[i].data]
      /\ \A i \in 0..Len(log) : Mark(i)' = Mark(i)
  <2>1. \A i \in 1..Len(log) : /\ log'[i].at = log[i].at
                              /\ Size(log'[i].data) = Size(log[i].data)
                              /\ PayloadLen[log'[i].data] = PayloadLen[log[i].data]
    BY <1>2, <1>3
  <2>2. \A i \in 0..Len(log) : i < Len(log) => i + 1 \in 1..Len(log)
    BY <1>3
  <2>3. QED
    BY <1>3, <2>1, <2>2 DEF Mark
<1>5. LogInv'
  <2>1. \A i \in 0..(Len(log) - 1) : Mark(i + 1)' = Mark(i)' + Size(log'[i + 1].data)
    <3>1. \A i \in 0..(Len(log) - 1) : i \in 0..Len(log) /\ i + 1 \in 0..Len(log) /\ i + 1 \in 1..Len(log)
      BY <1>3
    <3>2. QED
      BY <1>4, <3>1 DEF Sound, LogInv
  <2>2. \A i, j \in 0..Len(log) : i <= j => Mark(i)' <= Mark(j)'
    BY <1>4 DEF Sound, LogInv
  <2>3. Mark(0)' = 0
    BY <1>3, <1>4 DEF Sound, LogInv
  <2>4. QED
    BY <1>3, <2>1, <2>2, <2>3 DEF Sound, LogInv
<1>6. Active' = Active /\ Accepted' = Accepted /\ \A p : Overruns(p)' = Overruns(p)
  BY <1>3 DEF Active, Accepted, Overruns
<1>7. PushInv'
  <2>1. ASSUME NEW p \in Active
        PROVE  log'[push[p].at.len + 1] = log[push[p].at.len + 1]
    <3>1. push[p].at.len \in marker.fin..(Len(log) - 1)
      BY OwnRegion DEF Sound
    <3>2. marker.fin \in Nat /\ Len(log) \in Nat
      BY Numbers
    <3>3. push[p].at.len + 1 \in 1..Len(log) /\ push[p].at.len + 1 # n + 1
      <4>1. n \in 0..(marker.fin - 1)
        BY <1>1
      <4>2. QED
        BY <3>1, <3>2, <4>1, LaterEntry
    <3>4. QED
      BY <1>3, <3>3
  <2>2. QED
    BY <1>3, <1>6, <2>1 DEF Sound, PushInv
<1>8. TurnInv'
  BY <1>3, <1>6 DEF Sound, TurnInv
<1>9. /\ s \in Nat /\ e \in Nat /\ e = s + PayloadLen[d] /\ e <= Cap /\ Mark(n) <= s
      /\ Hdr \in Nat /\ PayloadLen[d] \in Nat /\ Cap \in Nat
  <2>1. Size(d) = Hdr + PayloadLen[d] /\ Hdr \in Nat /\ PayloadLen[d] \in Nat /\ Cap \in Nat
    BY BBRingAssumption DEF Size
  <2>2. Mark(n + 1) <= Cap
    BY <1>1 DEF Sound, BufInv
  <2> HIDE DEF n
  <2>3. QED
    BY <1>1, <1>2, <2>1, <2>2
<1>10. buf' = [x \in Addr |-> IF x \in s..(s + PayloadLen[d] - 1) THEN DataByte(d, x - s) ELSE buf[x]]
  BY <1>1 DEF Overwrite, Stored
<1>11. \A x \in Addr : x < s \/ x >= e => buf'[x] = buf[x]
  <2> HIDE DEF s, e
  <2>1. QED
    BY <1>9, <1>10 DEF Addr
<1>12. ASSUME NEW a \in Nat, NEW f \in Payloads, a + Size(f) <= Cap,
              a + Size(f) <= Mark(n) \/ e <= a,
              HeaderStored(a, f)
       PROVE  HeaderStored(a, f)' /\ (DataStored(a, f) => DataStored(a, f)')
  <2>1. a + Size(f) <= s \/ e <= a
    <3> HIDE DEF s, e, n
    <3>1. Size(f) \in Nat /\ Mark(n) \in Nat
      BY <1>1, SizeType
    <3>2. QED
      BY <1>9, <1>12, <3>1
  <2>2. s \in Nat /\ e \in Nat
    BY <1>9
  <2> HIDE DEF s, e
  <2>3. \A x \in Addr : x < s \/ x >= e => buf'[x] = buf[x]
    BY <1>11
  <2>4. a + Size(f) <= Cap
    BY <1>12
  <2>5. /\ \A k \in 0..(Hdr - 1) : buf'[a + k] = buf[a + k]
        /\ \A k \in 0..(PayloadLen[f] - 1) : buf'[a + Hdr + k] = buf[a + Hdr + k]
    BY <2>1, <2>2, <2>3, <2>4, ApartStays
  <2>6. QED
    BY <1>12, <2>5 DEF HeaderStored, DataStored
<1>13. ASSUME NEW i \in 0..(marker.fin - 1)
       PROVE  (/\ Mark(i + 1) <= Cap
               /\ HeaderStored(Mark(i), log[i + 1].data) /\ DataStored(Mark(i), log[i + 1].data))'
  <2>1. /\ i + 1 \in 1..Len(log) /\ i \in 0..Len(log) /\ i + 1 \in 0..Len(log)
        /\ log[i + 1].data \in Payloads
        /\ Mark(i) \in Nat /\ Mark(i + 1) \in Nat /\ Mark(i + 1) = Mark(i) + Size(log[i + 1].data)
    BY PublishedRegion, Numbers DEF Sound
  <2>2. /\ Mark(i + 1) <= Cap /\ HeaderStored(Mark(i), log[i + 1].data)
        /\ DataStored(Mark(i), log[i + 1].data)
    BY DEF Sound, BufInv
  <2>3. Mark(i)' = Mark(i) /\ Mark(i + 1)' = Mark(i + 1)
    BY <1>4, <2>1
  <2>4. CASE i # n
    <3>1. log'[i + 1] = log[i + 1]
      BY <1>1, <1>3, <2>1, <2>4
    <3>2. Mark(i + 1) <= Mark(n) \/ e <= Mark(i)
      <4>1. i + 1 <= n \/ n + 1 <= i
        BY <1>1, <2>4, Numbers
      <4>2. n \in 0..Len(log) /\ n + 1 \in 0..Len(log)
        BY <1>1, <1>3
      <4>3. QED
        BY <2>1, <4>1, <4>2 DEF Sound, LogInv
    <3>3. HeaderStored(Mark(i), log[i + 1].data)' /\ DataStored(Mark(i), log[i + 1].data)'
      <4> DEFINE a == Mark(i)
                 f == log[i + 1].data
      <4>1. /\ a \in Nat /\ f \in Payloads /\ a + Size(f) <= Cap
            /\ a + Size(f) <= Mark(n) \/ e <= a
            /\ HeaderStored(a, f) /\ DataStored(a, f)
        BY <2>1, <2>2, <3>2
      <4> HIDE DEF a, f
      <4>2. /\ \A k \in 0..(Hdr - 1) : buf'[a + k] = LenByte(PayloadLen[f], k)
            /\ \A k \in 0..(PayloadLen[f] - 1) : buf'[a + Hdr + k] = DataByte(f, k)
        BY <1>12, <4>1 DEF HeaderStored, DataStored
      <4>3. QED
        BY <2>3, <3>1, <4>2 DEF a, f, HeaderStored, DataStored
    <3>4. QED
      BY <2>2, <2>3, <3>3
  <2>5. CASE i = n
    <3>1. log'[i + 1].data = d
      BY <1>3, <2>5
    <3>2. ASSUME NEW k \in 0..(Hdr - 1)
          PROVE  buf'[Mark(n) + k] = LenByte(PayloadLen[d], k)
      <4>1. Mark(n) + k \in Addr /\ Mark(n) + k < s
        <5> DEFINE a == Mark(n)
        <5>1. a \in Nat /\ s = a + Hdr /\ s <= e /\ s \in Nat /\ e \in Nat /\ e <= Cap
          BY <1>1, <1>9
        <5> HIDE DEF a, s, e
        <5>2. a + k \in Addr /\ a + k < s
          BY <1>9, <5>1 DEF Addr
        <5>3. QED
          BY <5>2 DEF a
      <4>2. buf[Mark(n) + k] = LenByte(PayloadLen[d], k)
        BY <1>2, <2>2, <2>5 DEF HeaderStored
      <4>3. QED
        BY <1>11, <4>1, <4>2
    <3>3. ASSUME NEW k \in 0..(PayloadLen[d] - 1)
          PROVE  buf'[s + k] = DataByte(d, k)
      <4> HIDE DEF s, e
      <4>1. s + k \in Addr /\ s + k \in s..(s + PayloadLen[d] - 1) /\ (s + k) - s = k
        BY <1>9 DEF Addr
      <4>2. QED
        BY <1>10, <4>1
    <3>4. QED
      BY <2>2, <2>3, <2>5, <3>1, <3>2, <3>3 DEF HeaderStored, DataStored
  <2>6. QED
    BY <2>4, <2>5
<1>14. ASSUME NEW p \in Accepted
       PROVE  (/\ push[p].pc # "header" => HeaderStored(push[p].at.head, push[p].data)
               /\ push[p].pc \in {"wait", "publish"} => DataStored(push[p].at.head, push[p].data))'
  <2> DEFINE a == push[p].at.head
             f == push[p].data
  <2>1. p \in Pushers /\ p \in Active
    BY DEF Accepted, Active
  <2>2. a \in Nat /\ f \in Payloads /\ a + Size(f) <= Cap
    BY FitsBuffer DEF Sound
  <2>3. e <= a
    <3>1. /\ a = Mark(push[p].at.len) /\ push[p].at.len \in marker.fin..(Len(log) - 1)
      BY <2>1, OwnRegion DEF Sound
    <3>2. marker.fin \in Nat /\ Len(log) \in Nat
      BY Numbers
    <3>3. n + 1 \in 0..Len(log) /\ push[p].at.len \in 0..Len(log) /\ n + 1 <= push[p].at.len
      <4> HIDE DEF n
      <4>1. QED
        BY <1>1, <3>1, <3>2
    <3>4. QED
      BY <3>1, <3>3 DEF Sound, LogInv
  <2>4. push[p].pc # "header" => HeaderStored(a, f)
    BY DEF Sound, BufInv
  <2>5. push[p].pc \in {"wait", "publish"} => HeaderStored(a, f) /\ DataStored(a, f)
    BY DEF Sound, BufInv
  <2>6. push' = push
    BY <1>3
  <2> HIDE DEF e
  <2>7. /\ push[p].pc # "header" =>
             \A k \in 0..(Hdr - 1) : buf'[a + k] = LenByte(PayloadLen[f], k)
        /\ push[p].pc \in {"wait", "publish"} =>
             \A k \in 0..(PayloadLen[f] - 1) : buf'[a + Hdr + k] = DataByte(f, k)
    <3> HIDE DEF a, f
    <3>1. QED
      BY <1>12, <2>2, <2>3, <2>4, <2>5 DEF HeaderStored, DataStored
  <2>8. QED
    BY <2>6, <2>7 DEF HeaderStored, DataStored
<1>15. BufInv'
  BY <1>3, <1>6, <1>13, <1>14 DEF BufInv
<1>16. PopInv'
  <2>1. n \in 0..Len(log)
    BY <1>1, <1>3
  <2>2. remove_marker'.head = Mark(remove_marker.fin)'
    BY <1>3, <1>4, <2>1 DEF Sound, PopInv
  <2>3. PayloadLen[log'[n + 1].data] = PayloadLen[log[n + 1].data]
    BY <1>1, <1>4
  <2>4. QED
    BY <1>3, <2>2, <2>3 DEF Sound, PopInv, Mark
<1>17. QED
  BY <1>5, <1>7, <1>8, <1>15, <1>16 DEF Sound
-----------------------------------------------------------------------------
(***************************************************************************)
(* The theorems                                                            *)
(***************************************************************************)

\* A fault is never forgotten.
LEMMA FaultsStay == [Next]_vars => faults \subseteq faults'
<1> SUFFICES ASSUME [Next]_vars PROVE faults \subseteq faults'
  OBVIOUS
<1>1. ASSUME NEW p \in Pushers, Pushing(p) PROVE faults \subseteq faults'
  BY <1>1 DEF Pushing, Accept, Refuse, Underflow, Rollback, WriteHeader, WritePayload, AwaitTurn, Publish
<1>2. ASSUME NEW p \in Pushers, NEW d \in Payloads, Reserve(p, d) PROVE faults \subseteq faults'
  BY <1>2 DEF Reserve
<1>3. ASSUME NEW r \in Removers, Popping(r) \/ PopReserve(r) PROVE faults \subseteq faults'
  BY <1>3 DEF Popping, PopReserve, PopEmpty, PopRollback, PopClaim, PopAwaitTurn, PopRead, DropGuard
<1>4. ASSUME NEW r \in Removers, NEW d \in Payloads, Overwrite(r, d) PROVE faults \subseteq faults'
  BY <1>4 DEF Overwrite
<1>5. CASE UNCHANGED vars
  BY <1>5 DEF vars
<1>6. QED
  BY <1>1, <1>2, <1>3, <1>4, <1>5 DEF Next

\* Every action keeps the inductive invariant.
LEMMA IInvStep ==
  ASSUME LoneRemover, NoCarry, IInv, [Next]_vars
  PROVE  IInv'
<1>1. TypeOK /\ TypeOK'
  BY TypeStep DEF IInv
<1> SUFFICES ASSUME faults' = {} PROVE Sound'
  BY <1>1 DEF IInv
<1>2. Sound
  BY FaultsStay DEF IInv
<1>3. ASSUME NEW p \in Pushers, NEW d \in Payloads, Reserve(p, d) PROVE Sound'
  BY <1>1, <1>2, <1>3, SoundReserve
<1>4. ASSUME NEW p \in Pushers, Pushing(p) PROVE Sound'
  <2>1. CASE Accept(p)
    BY <1>1, <1>2, <2>1, SoundAccept
  <2>2. CASE Refuse(p)
    BY <1>1, <1>2, <2>2, SoundRefuse
  <2>3. CASE Underflow(p)
    BY <1>1, <1>2, <2>3, NoUnderflow
  <2>4. CASE Rollback(p)
    BY <1>1, <1>2, <2>4, SoundRollback
  <2>5. CASE WriteHeader(p)
    BY <1>1, <1>2, <2>5, SoundWriteHeader
  <2>6. CASE WritePayload(p)
    BY <1>1, <1>2, <2>6, SoundWritePayload
  <2>7. CASE AwaitTurn(p)
    BY <1>1, <1>2, <2>7, SoundAwaitTurn
  <2>8. CASE Publish(p)
    BY <1>1, <1>2, <2>8, SoundPublish
  <2>9. QED
    BY <1>4, <2>1, <2>2, <2>3, <2>4, <2>5, <2>6, <2>7, <2>8 DEF Pushing
<1>5. ASSUME NEW r \in Removers, Popping(r) PROVE Sound'
  <2>1. CASE PopEmpty(r)
    BY <1>1, <1>2, <2>1, SoundPopEmpty
  <2>2. CASE PopRollback(r)
    BY <1>1, <1>2, <2>2, SoundPopRollback
  <2>3. CASE PopClaim(r)
    BY <1>1, <1>2, <2>3, SoundPopClaim
  <2>4. CASE PopAwaitTurn(r)
    BY <1>2, <2>4 DEF PopAwaitTurn, Sound, PopInv
  <2>5. CASE PopRead(r)
    BY <1>1, <1>2, <2>5, SoundPopRead
  <2>6. CASE DropGuard(r)
    BY <1>1, <1>2, <2>6, SoundDropGuard
  <2>7. QED
    BY <1>5, <2>1, <2>2, <2>3, <2>4, <2>5, <2>6 DEF Popping
<1>6. ASSUME NEW r \in Removers, PopReserve(r) PROVE Sound'
  BY <1>1, <1>2, <1>6, SoundPopReserve
<1>7. ASSUME NEW r \in Removers, NEW d \in Payloads, Overwrite(r, d) PROVE Sound'
  BY <1>1, <1>2, <1>7, SoundOverwrite
<1>8. CASE UNCHANGED vars
  <2>1. LogInv' /\ PushInv' /\ TurnInv' /\ BufInv'
    BY <1>2, <1>8, PushKept DEF vars, Sound
  <2>2. PopInv'
    BY <1>1, <1>2, <1>8, PopKept, Numbers DEF vars, Sound, Mark
  <2>3. QED
    BY <2>1, <2>2 DEF Sound
<1>9. QED
  BY <1>3, <1>4, <1>5, <1>6, <1>7, <1>8 DEF Next

\* Until a fault, the log, the words, the threads and the buffer agree.
THEOREM Inductive ==
  ASSUME LoneRemover, NoCarry
  PROVE  Spec => []IInv
<1>1. Init => IInv
  BY TypeInit, SoundInit DEF IInv
<1>2. IInv /\ [Next]_vars => IInv'
  BY IInvStep
<1>3. QED
  BY <1>1, <1>2, PTL DEF Spec

\* With one remover and counters that fit, the pusher whose turn it is to
\* publish is always inside of push until a fault (bbring.rs:94).
THEOREM TurnIsAlwaysHeld ==
  ASSUME LoneRemover, NoCarry
  PROVE  Spec => []TurnIsHeld
<1>1. IInv => TurnIsHeld
  <2> SUFFICES ASSUME IInv, faults = {}, marker.fin < marker.len
               PROVE  \E p \in Pushers : push[p].pc # "idle" /\ push[p].at.len = marker.fin
    BY DEF TurnIsHeld
  <2>1. marker.fin \in marker.fin..(marker.len - 1)
    BY Numbers DEF IInv
  <2>2. PICK p \in Active : push[p].at.len = marker.fin
    BY <2>1 DEF IInv, Sound, TurnInv
  <2>3. QED
    BY <2>2 DEF Active
<1>2. QED
  BY <1>1, Inductive, PTL

\* Under the same conditions no two threads touch the same byte of the buffer
\* until a fault (bbring.rs:83-91).
THEOREM RegionsAlwaysApart ==
  ASSUME LoneRemover, NoCarry
  PROVE  Spec => []RegionsApart
<1>1. IInv => RegionsApart
  <2> SUFFICES ASSUME IInv, faults = {}, NEW p \in Accepted
               PROVE  /\ \A q \in Accepted \ {p} :
                           Apart(push[p].at.head, push[p].at.head + Size(push[p].data),
                                 push[q].at.head, push[q].at.head + Size(push[q].data))
                      /\ \A i \in (remove_marker.fin + 1)..marker.fin :
                           Apart(push[p].at.head, push[p].at.head + Size(push[p].data),
                                 log[i].at, End(log[i]))
    BY DEF RegionsApart
  <2>1. TypeOK /\ Sound /\ Accepted \subseteq Active
    BY DEF IInv, Accepted, Active
  <2>2. ASSUME NEW q \in Accepted \ {p}
        PROVE  Apart(push[p].at.head, push[p].at.head + Size(push[p].data),
                     push[q].at.head, push[q].at.head + Size(push[q].data))
    BY <2>1, OwnRegionsApart DEF Sound, Apart
  <2>3. ASSUME NEW i \in (remove_marker.fin + 1)..marker.fin
        PROVE  Apart(push[p].at.head, push[p].at.head + Size(push[p].data), log[i].at, End(log[i]))
    <3>1. PICK j \in 0..(marker.fin - 1) : i = j + 1
      <4>1. i - 1 \in 0..(marker.fin - 1) /\ i = (i - 1) + 1
        BY <2>1, Numbers
      <4>2. QED
        BY <4>1
    <3>2. /\ End(log[i]) = Mark(j + 1)
          /\ \A k \in marker.fin..Len(log) : Mark(j + 1) <= Mark(k)
      BY <2>1, <3>1, PublishedRegion DEF Sound, End
    <3>3. push[p].at.head = Mark(push[p].at.len) /\ push[p].at.len \in marker.fin..Len(log)
      <4>1. /\ push[p].at.head = Mark(push[p].at.len)
            /\ push[p].at.len \in marker.fin..(Len(log) - 1)
        BY <2>1, OwnRegion DEF Sound
      <4>2. marker.fin \in Nat /\ Len(log) \in Nat
        BY <2>1, Numbers
      <4>3. QED
        BY <4>1, <4>2
    <3>4. QED
      BY <3>2, <3>3 DEF Apart
  <2>4. QED
    BY <2>2, <2>3
<1>2. QED
  BY <1>1, Inductive, PTL

\* Under the same conditions a guard shows exactly the bytes of the oldest
\* record not given back (bbring.rs:120-126).
THEOREM GuardAlwaysShowsRecord ==
  ASSUME LoneRemover, NoCarry
  PROVE  Spec => []GuardShowsRecord
<1>1. IInv => GuardShowsRecord
  <2> SUFFICES ASSUME IInv, faults = {}, NEW r \in Holders
               PROVE  LET e == log[remove_marker.fin + 1]
                      IN  /\ remove_marker.fin < marker.fin
                          /\ pop[r].len = PayloadLen[e.data]
                          /\ \A i \in 0..(pop[r].len - 1) : buf[Start(r) + Hdr + i] = DataByte(e.data, i)
    BY DEF GuardShowsRecord
  <2>1. TypeOK /\ Sound /\ r \in Removers /\ pop[r].pc = "guard"
    BY DEF IInv, Holders
  <2>2. remove_marker.fin \in 0..(marker.fin - 1) /\ Start(r) = Mark(remove_marker.fin)
    BY <2>1, ReadsHeader
  <2>3. pop[r].len = PayloadLen[log[remove_marker.fin + 1].data]
    BY <2>1 DEF Sound, PopInv
  <2>4. DataStored(Mark(remove_marker.fin), log[remove_marker.fin + 1].data)
    BY <2>1, <2>2 DEF Sound, BufInv
  <2>5. QED
    BY <2>1, <2>2, <2>3, <2>4 DEF DataStored, Sound, PopInv
<1>2. QED
  BY <1>1, Inductive, PTL

\* Under the same conditions pop_front returns None only when nothing that was
\* published is left (bbring.rs:104-107).
THEOREM NoneAlwaysMeansEmpty ==
  ASSUME LoneRemover, NoCarry
  PROVE  Spec => NoneMeansEmpty
<1> DEFINE LooksRight == \A r \in Removers :
                           faults = {} /\ pop[r].pc = "load" /\ pop'[r].pc = "none"
                             => remove_marker.fin = marker.fin
<1>1. IInv /\ [Next]_vars => [LooksRight]_vars
  <2> SUFFICES ASSUME IInv, Next, NEW r \in Removers,
                      faults = {}, pop[r].pc = "load", pop'[r].pc = "none"
               PROVE  remove_marker.fin = marker.fin
    OBVIOUS
  <2>1. TypeOK /\ Sound
    BY DEF IInv
  <2>2. PopEmpty(r)
    <3>1. ASSUME NEW p \in Pushers, Pushing(p) PROVE pop' = pop
      BY <3>1 DEF Pushing, Accept, Refuse, Underflow, Rollback, WriteHeader, WritePayload, AwaitTurn, Publish
    <3>2. ASSUME NEW p \in Pushers, NEW d \in Payloads, Reserve(p, d) PROVE pop' = pop
      BY <3>2 DEF Reserve
    <3>3. ASSUME NEW s \in Removers, Popping(s) \/ PopReserve(s) PROVE PopEmpty(r)
      <4>1. CASE s # r
        BY <2>1, <3>3, <4>1 DEF TypeOK, Popping, PopReserve, PopEmpty, PopRollback, PopClaim,
           PopAwaitTurn, PopRead, DropGuard, PopStep, PopReturn
      <4>2. CASE s = r
        BY <2>1, <3>3, <4>2 DEF TypeOK, Popping, PopReserve, PopEmpty, PopRollback, PopClaim,
           PopAwaitTurn, PopRead, DropGuard, PopStep, PopReturn
      <4>3. QED
        BY <4>1, <4>2
    <3>4. ASSUME NEW s \in Removers, NEW d \in Payloads, Overwrite(s, d) PROVE pop' = pop
      BY <3>4 DEF Overwrite
    <3>5. QED
      BY <3>1, <3>2, <3>3, <3>4 DEF Next
  <2>3. pop[r].rem.len >= marker.fin
    BY <2>2 DEF PopEmpty
  <2>4. pop[r].rem.len = remove_marker.fin /\ remove_marker.fin <= marker.fin
    BY <2>1 DEF Sound, PopInv, TypeOK, Marker
  <2>5. QED
    BY <2>1, <2>3, <2>4, Numbers
<1>2. QED
  BY <1>1, Inductive, PTL DEF Spec, NoneMeansEmpty

\* Under the same conditions a push is stored exactly when its bytes, those of
\* the records not given back and those reserved before it leave a byte free
\* (bbring.rs:84).
THEOREM AlwaysAdmittedWhenRoom ==
  ASSUME LoneRemover, NoCarry
  PROVE  Spec => AdmittedWhenRoom
<1> DEFINE Admits == \A p \in Pushers :
                       faults = {} /\ push[p].pc = "check" /\ push'[p].pc \in {"header", "rollback"}
                         => (push'[p].pc = "header" <=> Span(p) < Cap)
<1>1. IInv /\ [Next]_vars => [Admits]_vars
  <2> SUFFICES ASSUME IInv, Next, NEW p \in Pushers,
                      faults = {}, push[p].pc = "check", push'[p].pc \in {"header", "rollback"}
               PROVE  push'[p].pc = "header" <=> Span(p) < Cap
    OBVIOUS
  <2>1. TypeOK /\ Sound /\ p \in Active
    BY DEF IInv, Active
  <2>2. Accept(p) \/ Refuse(p)
    <3>1. ASSUME NEW q \in Pushers, Pushing(q) PROVE Accept(p) \/ Refuse(p)
      <4>1. CASE q # p
        BY <2>1, <3>1, <4>1 DEF TypeOK, Pushing, Accept, Refuse, Underflow, Rollback, WriteHeader,
           WritePayload, AwaitTurn, Publish, PushStep, PushReturn
      <4>2. CASE q = p
        BY <2>1, <3>1, <4>2 DEF TypeOK, Pushing, Accept, Refuse, Underflow, Rollback, WriteHeader,
           WritePayload, AwaitTurn, Publish, PushStep, PushReturn
      <4>3. QED
        BY <4>1, <4>2
    <3>2. ASSUME NEW q \in Pushers, NEW d \in Payloads, Reserve(q, d) PROVE push'[p].pc = "check"
      BY <2>1, <3>2 DEF TypeOK, Reserve
    <3>3. ASSUME NEW r \in Removers, Popping(r) \/ PopReserve(r) PROVE push' = push
      BY <3>3 DEF Popping, PopReserve, PopEmpty, PopRollback, PopClaim, PopAwaitTurn, PopRead, DropGuard
    <3>4. ASSUME NEW r \in Removers, NEW d \in Payloads, Overwrite(r, d) PROVE push' = push
      BY <3>4 DEF Overwrite
    <3>5. QED
      BY <3>1, <3>2, <3>3, <3>4 DEF Next
  <2>3. push'[p].pc = "header" <=> ~Full(p)
    BY <2>1, <2>2 DEF TypeOK, Accept, Refuse, PushStep
  <2>4. /\ push[p].at.len \in marker.fin..(Len(log) - 1) /\ push[p].at.head = Mark(push[p].at.len)
        /\ push[p].data \in Payloads
    BY <2>1, OwnRegion DEF Sound
  <2>5. remove_marker.fin <= marker.fin /\ remove_marker.head = Mark(remove_marker.fin)
    BY <2>1 DEF Sound, PopInv
  <2>6. /\ remove_marker.fin \in 0..Len(log) /\ push[p].at.len \in 0..Len(log)
        /\ remove_marker.fin <= push[p].at.len /\ remove_marker.fin < Len(log)
    BY <2>1, <2>4, <2>5, Numbers
  <2>7. remove_marker.head <= push[p].at.head /\ log[remove_marker.fin + 1].at = remove_marker.head
    BY <2>1, <2>4, <2>5, <2>6 DEF Sound, LogInv, Mark
  <2>8. Occupancy(p) = Span(p) /\ Occupancy(p) \in Nat
    <3>1. /\ push[p].at.head \in Nat /\ remove_marker.head \in Nat /\ Size(push[p].data) \in Nat
      BY <2>1, <2>4, Numbers, SizeType
    <3>2. QED
      BY <2>7, <3>1 DEF Occupancy, Span
  <2>9. QED
    BY <2>3, <2>8, BBRingAssumption DEF Full
<1>2. QED
  BY <1>1, Inductive, PTL DEF Spec, AdmittedWhenRoom
-----------------------------------------------------------------------------
(***************************************************************************)
(* The ring implements a queue of whole records                            *)
(***************************************************************************)

\* The two variables of ByteQueue, as RefinesQueue maps them.
QueueOf == [i \in 1..(marker.fin - Taken) |-> Bytes(log[Taken + i].data)]
HeldOf == {Shown(r) : r \in Holders}

\* With a lone remover, what is held is the record after those given back.
View ==
  /\ Taken \in Nat /\ Taken <= marker.fin
  /\ Taken = remove_marker.fin + (IF Holders = {} THEN 0 ELSE 1)
  /\ HeldOf = IF Holders = {} THEN {} ELSE {Bytes(log[remove_marker.fin + 1].data)}

LEMMA SoundView ==
  ASSUME LoneRemover, TypeOK, Sound
  PROVE  View
<1> DEFINE n == remove_marker.fin
           d == log[n + 1].data
<1>1. n \in Nat /\ marker.fin \in Nat /\ n <= marker.fin
  BY Numbers DEF Sound, PopInv
<1>2. CASE Holders = {}
  <2>1. Taken = n + 0
    BY <1>2, FS_EmptySet DEF Taken
  <2>2. HeldOf = {}
    BY <1>2 DEF HeldOf
  <2>3. QED
    BY <1>1, <1>2, <2>1, <2>2 DEF View
<1>3. CASE Holders # {}
  <2>1. PICK r \in Holders : Holders = {r}
    BY <1>3 DEF Holders, LoneRemover
  <2>2. Taken = n + 1
    BY <2>1, FS_Singleton DEF Taken
  <2>3. r \in Removers /\ pop[r].pc = "guard"
    BY DEF Holders
  <2>4. /\ n \in 0..(marker.fin - 1) /\ d \in Payloads /\ Start(r) = Mark(n)
        /\ pop[r].len = PayloadLen[d]
    BY <2>3, ReadsHeader DEF Sound, PopInv
  <2>5. DataStored(Mark(n), d)
    BY <2>4 DEF Sound, BufInv
  <2>6. Shown(r) = Bytes(d)
    BY <2>4, <2>5 DEF Shown, Bytes, DataStored
  <2>7. HeldOf = {Bytes(d)}
    BY <2>1, <2>6 DEF HeldOf
  <2>8. QED
    BY <1>1, <1>3, <2>2, <2>4, <2>7 DEF View
<1>4. QED
  BY <1>2, <1>3

\* A step is invisible when it neither publishes, nor takes, nor gives back,
\* nor changes a published record.
LEMMA Invisible ==
  ASSUME TypeOK, Sound, View, View', marker'.fin = marker.fin, remove_marker'.fin = remove_marker.fin,
         Holders' = Holders, \A i \in 1..marker.fin : log'[i] = log[i]
  PROVE  QueueOf' = QueueOf /\ HeldOf' = HeldOf
<1>1. Taken' = Taken
  BY DEF View
<1>2. marker.fin \in Nat /\ Taken \in Nat /\ remove_marker.fin \in Nat
  BY Numbers DEF View
<1>3. \A i \in 1..(marker.fin - Taken) : log'[Taken + i] = log[Taken + i]
  <2>1. \A i \in 1..(marker.fin - Taken) : Taken + i \in 1..marker.fin
    BY <1>2
  <2>2. QED
    BY <2>1
<1>4. QueueOf' = QueueOf
  BY <1>1, <1>3 DEF QueueOf
<1>5. HeldOf' = HeldOf
  <2>1. CASE Holders = {}
    BY <2>1 DEF View
  <2>2. CASE Holders # {}
    <3>1. remove_marker.fin + 1 \in 1..marker.fin
      BY <1>2, <2>2 DEF View
    <3>2. log'[remove_marker.fin + 1] = log[remove_marker.fin + 1]
      BY <3>1
    <3>3. QED
      BY <2>2, <3>2 DEF View
  <2>3. QED
    BY <2>1, <2>2
<1>6. QED
  BY <1>4, <1>5

\* A publication adds a record at the end of the queue.
LEMMA PublishAdds ==
  ASSUME TypeOK, Sound, NoCarry, View, View', NEW p \in Pushers, Publish(p)
  PROVE  \E v \in {Bytes(d) : d \in Payloads} : QueueOf' = Append(QueueOf, v) /\ HeldOf' = HeldOf
<1> DEFINE t == Taken
           n == marker.fin - Taken
           d == log[marker.fin + 1].data
<1>1. /\ marker'.fin = marker.fin + 1 /\ marker.fin \in Nat
      /\ marker.fin + 1 \in 1..Len(log)
  BY PublishEffect, Numbers
<1>2. d \in Payloads
  BY <1>1, Numbers
<1>3. log' = log /\ remove_marker' = remove_marker /\ Holders' = Holders /\ Taken' = Taken
  BY DEF Publish, Holders, Taken
<1>4. HeldOf' = HeldOf
  BY <1>3 DEF View
<1>5. n \in Nat /\ t \in Nat /\ marker'.fin - Taken' = n + 1 /\ t + (n + 1) = marker.fin + 1
  BY <1>1, <1>3 DEF View
<1>6. QueueOf = [i \in 1..n |-> Bytes(log[t + i].data)]
  BY DEF QueueOf
<1>7. QueueOf' = [i \in 1..(n + 1) |-> Bytes(log[t + i].data)]
  BY <1>3, <1>5 DEF QueueOf
<1>8. Len(QueueOf) = n
  BY <1>5, <1>6
<1>9. Append(QueueOf, Bytes(d)) = [i \in 1..(n + 1) |-> IF i \in 1..n THEN QueueOf[i] ELSE Bytes(d)]
  BY <1>5, <1>8
<1>10. QueueOf' = Append(QueueOf, Bytes(d))
  BY <1>5, <1>6, <1>7, <1>9
<1>11. QED
  BY <1>2, <1>4, <1>10

\* The remover takes the record at the front of the queue.
LEMMA ReadTakes ==
  ASSUME LoneRemover, TypeOK, Sound, View, View', NEW r \in Removers, PopRead(r)
  PROVE  /\ QueueOf # <<>> /\ HeldOf = {}
         /\ HeldOf' = {Head(QueueOf)} /\ QueueOf' = Tail(QueueOf)
<1> DEFINE t == remove_marker.fin
           n == marker.fin - t
<1>1. pop[r].pc = "read" /\ pop'[r].pc = "guard" /\ UNCHANGED <<marker, remove_marker, log>>
  BY DEF PopRead, TypeOK
<1>2. Holders = {} /\ Holders' # {}
  BY <1>1 DEF Holders, LoneRemover
<1>3. t \in Nat /\ n \in Nat /\ n >= 1 /\ marker.fin - (t + 1) = n - 1
  BY <1>1, Numbers DEF Sound, PopInv
<1>4. Taken = t /\ Taken' = t + 1
  BY <1>1, <1>2, <1>3 DEF View
<1>5. QueueOf = [i \in 1..n |-> Bytes(log[t + i].data)]
  BY <1>4 DEF QueueOf
<1>6. QueueOf' = [i \in 1..(n - 1) |-> Bytes(log[(t + 1) + i].data)]
  BY <1>1, <1>3, <1>4 DEF QueueOf
<1>7. HeldOf = {} /\ HeldOf' = {Bytes(log[t + 1].data)}
  BY <1>1, <1>2 DEF View
<1> HIDE DEF t, n
<1>8. Len(QueueOf) = n /\ Head(QueueOf) = Bytes(log[t + 1].data)
  BY <1>3, <1>5
<1>9. Tail(QueueOf) = [i \in 1..(n - 1) |-> Bytes(log[t + (i + 1)].data)]
  BY <1>3, <1>5, <1>8
<1>10. \A i \in 1..(n - 1) : (t + 1) + i = t + (i + 1)
  BY <1>3
<1>11. QueueOf' = Tail(QueueOf)
  BY <1>6, <1>9, <1>10
<1>12. QueueOf # <<>>
  BY <1>3, <1>8
<1>13. QED
  BY <1>7, <1>8, <1>11, <1>12

\* The drop gives back what was held.
LEMMA DropGivesBack ==
  ASSUME LoneRemover, NoCarry, TypeOK, Sound, View, View', NEW r \in Removers, DropGuard(r)
  PROVE  HeldOf # {} /\ HeldOf' = {} /\ QueueOf' = QueueOf
<1>1. pop[r].pc = "guard" /\ remove_marker'.fin = remove_marker.fin + 1
  BY DropGuardEffect
<1>2. pop'[r].pc = "idle" /\ UNCHANGED <<marker, log>>
  BY DEF DropGuard, PopReturn, IdlePop, TypeOK
<1>3. Holders # {} /\ Holders' = {}
  BY <1>1, <1>2 DEF Holders, LoneRemover
<1>4. Taken' = Taken
  BY <1>1, <1>3, Numbers DEF View
<1>5. QED
  BY <1>2, <1>3, <1>4 DEF View, QueueOf

\* The caller changes the record that is held, and its length stays.
LEMMA OverwriteChangesHeld ==
  ASSUME LoneRemover, TypeOK, Sound, View, View', NEW r \in Removers, NEW d \in Payloads, Overwrite(r, d)
  PROVE  /\ \E w \in HeldOf : DOMAIN Bytes(d) = DOMAIN w
         /\ HeldOf' = {Bytes(d)} /\ QueueOf' = QueueOf
<1> DEFINE n == remove_marker.fin
<1>1. pop[r].pc = "guard" /\ UNCHANGED <<marker, remove_marker, pop>> /\ log' = Rewritten(d)
  BY DEF Overwrite
<1>2. Holders # {} /\ Holders' = Holders
  BY <1>1 DEF Holders
<1>3. n \in 0..(marker.fin - 1) /\ n + 1 \in 1..Len(log) /\ marker.fin <= Len(log)
  BY <1>1, ReadsHeader, PublishedRegion, Numbers DEF Sound, LogInv
<1>4. PayloadLen[d] = PayloadLen[log[n + 1].data]
  BY <1>1 DEF Overwrite, Sound, PopInv
<1>5. HeldOf = {Bytes(log[n + 1].data)}
  BY <1>2 DEF View
<1>6. DOMAIN Bytes(d) = DOMAIN Bytes(log[n + 1].data)
  BY <1>4 DEF Bytes
<1>7. log'[n + 1].data = d /\ \A i \in 1..Len(log) : i # n + 1 => log'[i] = log[i]
  <2>1. /\ \A i \in 1..Len(log) : i # n + 1 => Rewritten(d)[i] = log[i]
        /\ Rewritten(d)[n + 1] = [data |-> d, at |-> log[n + 1].at]
    BY <1>3, RewrittenLog
  <2>2. QED
    BY <1>1, <2>1
<1>8. HeldOf' = {Bytes(d)}
  BY <1>1, <1>2, <1>7 DEF View
<1>9. Taken = n + 1 /\ Taken' = Taken
  BY <1>1, <1>2 DEF View
<1>10. \A i \in 1..(marker.fin - Taken) : log'[Taken + i] = log[Taken + i]
  <2>1. \A i \in 1..(marker.fin - Taken) : Taken + i \in 1..Len(log) /\ Taken + i # n + 1
    BY <1>3, <1>9, Numbers
  <2>2. QED
    BY <1>7, <2>1
<1>11. QueueOf' = QueueOf
  BY <1>1, <1>9, <1>10 DEF QueueOf
<1>12. QED
  BY <1>5, <1>6, <1>8, <1>11

\* The rest of push is invisible.
LEMMA PushInvisible ==
  ASSUME TypeOK, Sound, NoCarry, View, View', faults' = {}, NEW p \in Pushers,
         Pushing(p), ~Publish(p)
  PROVE  QueueOf' = QueueOf /\ HeldOf' = HeldOf
<1>1. CASE Rollback(p)
  <2>1. marker'.fin = marker.fin /\ \A i \in 1..marker.fin : log'[i] = log[i]
    BY <1>1, RollbackEffect, Numbers
  <2>2. remove_marker' = remove_marker /\ Holders' = Holders
    BY <1>1 DEF Rollback, Holders
  <2>3. QED
    BY <2>1, <2>2, Invisible
<1>2. CASE ~Rollback(p)
  <2>1. UNCHANGED <<marker, remove_marker, pop, log>>
    BY <1>2 DEF Pushing, Accept, Refuse, Underflow, WriteHeader, WritePayload, AwaitTurn
  <2>2. Holders' = Holders
    BY <2>1 DEF Holders
  <2>3. QED
    BY <2>1, <2>2, Invisible
<1>3. QED
  BY <1>1, <1>2

LEMMA ReserveInvisible ==
  ASSUME TypeOK, Sound, NoCarry, View, View', NEW p \in Pushers, NEW d \in Payloads, Reserve(p, d)
  PROVE  QueueOf' = QueueOf /\ HeldOf' = HeldOf
<1>1. marker'.fin = marker.fin /\ \A i \in 1..Len(log) : log'[i] = log[i]
  BY ReserveEffect
<1>2. \A i \in 1..marker.fin : i \in 1..Len(log)
  BY Numbers DEF Sound, LogInv
<1>3. remove_marker' = remove_marker /\ Holders' = Holders
  BY DEF Reserve, Holders
<1>4. QED
  BY <1>1, <1>2, <1>3, Invisible

\* So is the rest of pop_front.
LEMMA PopInvisible ==
  ASSUME TypeOK, Sound, NoCarry, View, View', NEW r \in Removers,
         PopReserve(r) \/ Popping(r), ~PopRead(r), ~DropGuard(r)
  PROVE  QueueOf' = QueueOf /\ HeldOf' = HeldOf
<1>1. marker' = marker /\ log' = log
  BY DEF PopReserve, Popping, PopEmpty, PopRollback, PopClaim, PopAwaitTurn
<1>2. Holders' = Holders
  <2>1. \A s \in Removers : pop'[s].pc = "guard" <=> pop[s].pc = "guard"
    <3>1. pop \in [Removers -> [pc : PopPC, rem : Marker, len : Lens \cup 0..(HeadMod - 1)]]
      BY DEF TypeOK
    <3>2. \A s \in Removers \ {r} : pop'[s] = pop[s]
      BY <3>1 DEF PopReserve, Popping, PopEmpty, PopRollback, PopClaim, PopAwaitTurn, PopStep, PopReturn
    <3>3. pop[r].pc # "guard" /\ pop'[r].pc # "guard"
      BY <3>1 DEF PopReserve, Popping, PopEmpty, PopRollback, PopClaim, PopAwaitTurn,
         PopStep, PopReturn, IdlePop
    <3>4. QED
      BY <3>2, <3>3
  <2>2. QED
    BY <2>1 DEF Holders
<1>3. remove_marker'.fin = remove_marker.fin
  <2>1. CASE PopReserve(r)
    BY <2>1, PopReserveEffect
  <2>2. CASE PopRollback(r)
    BY <2>2, PopRollbackEffect
  <2>3. CASE PopEmpty(r) \/ PopClaim(r) \/ PopAwaitTurn(r)
    BY <2>3 DEF PopEmpty, PopClaim, PopAwaitTurn
  <2>4. QED
    BY <2>1, <2>2, <2>3 DEF Popping
<1>4. QED
  BY <1>1, <1>2, <1>3, Invisible

\* With one remover and counters that fit, the ring is, until a fault, a queue
\* of whole records: Publish adds one, PopRead takes the oldest, as_mut changes
\* the one that was taken, DropGuard gives it back, and no other step shows
\* (bbring.rs:52-53).
THEOREM RingIsQueue ==
  ASSUME LoneRemover, NoCarry
  PROVE  Spec => RefinesQueue
<1>1. Init => Q!QInit
  <2> SUFFICES ASSUME Init PROVE Q!QInit
    OBVIOUS
  <2>1. TypeOK /\ Sound
    BY TypeInit, SoundInit
  <2>2. View
    BY <2>1, SoundView
  <2>3. marker.fin = 0 /\ Holders = {}
    BY DEF Init, Zero, Holders, IdlePop
  <2>4. QueueOf = <<>> /\ HeldOf = {}
    BY <2>2, <2>3 DEF View, QueueOf
  <2>5. QED
    BY <2>4 DEF Q!QInit, QueueOf, HeldOf
<1>2. IInv /\ faults = {} => View
  BY SoundView DEF IInv
<1>3. (IInv /\ faults = {} => View)'
  BY <1>2, PTL
<1>4. IInv /\ [Next]_vars => [faults' # {} \/ Q!QNext \/ UNCHANGED Q!qvars]_vars
  <2> SUFFICES ASSUME IInv, Next, faults' = {}
               PROVE  Q!QNext \/ UNCHANGED Q!qvars
    OBVIOUS
  <2>1. TypeOK /\ Sound /\ View
    BY <1>2, FaultsStay DEF IInv
  <2>2. View'
    BY <1>3, IInvStep
  <2> DEFINE Same == QueueOf' = QueueOf /\ HeldOf' = HeldOf
             Added == \E v \in {Bytes(d) : d \in Payloads} : QueueOf' = Append(QueueOf, v) /\ HeldOf' = HeldOf
             First == /\ QueueOf # <<>> /\ HeldOf = {}
                      /\ HeldOf' = {Head(QueueOf)} /\ QueueOf' = Tail(QueueOf)
             Changed == \E v \in {Bytes(d) : d \in Payloads} :
                          /\ \E w \in HeldOf : DOMAIN v = DOMAIN w
                          /\ HeldOf' = {v} /\ QueueOf' = QueueOf
             Returned == HeldOf # {} /\ HeldOf' = {} /\ QueueOf' = QueueOf
  <2>3. Same => UNCHANGED Q!qvars
    BY DEF Q!qvars, QueueOf, HeldOf
  <2>4. Added => Q!QNext
    BY DEF Q!QNext, Q!Add, QueueOf, HeldOf
  <2>5. First => Q!QNext
    BY DEF Q!QNext, Q!Take, QueueOf, HeldOf
  <2>6. Changed => Q!QNext
    BY DEF Q!QNext, Q!Overwrite, QueueOf, HeldOf
  <2>7. Returned => Q!QNext
    BY DEF Q!QNext, Q!GiveBack, QueueOf, HeldOf
  <2>8. Same \/ Added \/ First \/ Changed \/ Returned
    <3>1. ASSUME NEW p \in Pushers, Pushing(p) PROVE Same \/ Added
      BY <2>1, <2>2, <3>1, PublishAdds, PushInvisible
    <3>2. ASSUME NEW p \in Pushers, NEW d \in Payloads, Reserve(p, d) PROVE Same
      BY <2>1, <2>2, <3>2, ReserveInvisible
    <3>3. ASSUME NEW r \in Removers, PopReserve(r) \/ Popping(r) PROVE Same \/ First \/ Returned
      BY <2>1, <2>2, <3>3, PopInvisible, ReadTakes, DropGivesBack
    <3>4. ASSUME NEW r \in Removers, NEW d \in Payloads, Overwrite(r, d) PROVE Changed
      BY <2>1, <2>2, <3>4, OverwriteChangesHeld
    <3>5. QED
      BY <3>1, <3>2, <3>3, <3>4 DEF Next
  <2> HIDE DEF Same, Added, First, Changed, Returned
  <2>9. QED
    BY <2>3, <2>4, <2>5, <2>6, <2>7, <2>8
<1>5. QED
  BY <1>1, <1>4, Inductive, PTL DEF Spec, RefinesQueue
=============================================================================
