---------------------------- MODULE ConcVecProofs ----------------------------
(***************************************************************************)
(* The safety of push and drop of ConcVec, for any number of threads and   *)
(* any width of the metadata word.                                         *)
(***************************************************************************)
EXTENDS ConcVec, TLAPS

\* The winner of the race: the thread between its exchange and the announcement
\* installed the metadata, and nobody stores a value but the one who did.
Winner ==
  /\ \A t \in Threads : thread[t].pc \in {"store", "announce"} => bucket_meta = t
  /\ \A t \in Threads : thread[t].pc = "store" => bucket = Nobody
  /\ \A t \in Threads : thread[t].pc = "announce" => bucket = t
  /\ bucket # Nobody => bucket = bucket_meta

\* A thread before its exchange has not won already: until the announcement the
\* winner is on its way there, or dead.
Losers ==
  /\ \A t \in Threads : thread[t].pc \in {"scan", "claim"} => bucket_meta # Nobody
  /\ \A t \in Threads : thread[t].pc = "exchange" => bucket_meta # t
  /\ \A t \in Threads : bucket_meta = t /\ ~meta_allocated
       => thread[t].pc \in {"store", "announce", "panicked"}

\* The drop comes after all calls.
DroppedLast == dropped => \A t \in Threads : thread[t].pc \in {"idle", "panicked"}

\* The bits a thread claimed are set, and stay set.
ClaimedIsSet == 0 \in bits /\ \A t \in Threads : claims[t] \subseteq bits

Types == /\ meta_allocated \in BOOLEAN /\ dropped \in BOOLEAN
         /\ bucket_meta \in Threads \cup {Nobody}
         /\ bits \subseteq Bits
         /\ bucket \in Threads \cup {Nobody}
         /\ thread \in [Threads -> [pc : PC, bit : Bits]]
         /\ claims \in [Threads -> SUBSET Bits]

Inv == Types /\ Winner /\ Losers /\ DroppedLast /\ ClaimedIsSet
       /\ ClaimsApart /\ AnnouncedIsStored /\ NoLeak

\* What the initial state and every step show of the next one.
LEMMA InitInv == Init => Inv
<1> SUFFICES ASSUME Init PROVE Inv
  OBVIOUS
<1>1. 0 \in Bits
  BY ConcVecAssumption DEF Bits
<1>2. Types
  BY <1>1 DEF Init, Types, Idle, PC
<1>3. Winner /\ Losers /\ DroppedLast
  BY ConcVecAssumption DEF Init, Winner, Losers, DroppedLast, Idle
<1>4. ClaimedIsSet /\ ClaimsApart /\ AnnouncedIsStored
  BY DEF Init, ClaimedIsSet, ClaimsApart, AnnouncedIsStored
<1>5. NoLeak
  BY DEF Init, NoLeak, Owned, InHand, Idle
<1> QED
  BY <1>2, <1>3, <1>4, <1>5 DEF Inv

\* Every step keeps the types of the words, the locals and the claims.
LEMMA TypesStep == Types /\ [Next]_vars => Types'
<1> SUFFICES ASSUME Types, [Next]_vars PROVE Types'
  OBVIOUS
<1>0. 0 \in Bits
  BY ConcVecAssumption DEF Bits
<1> USE DEF Types
<1>1. CASE UNCHANGED vars
  BY <1>1 DEF vars, words
<1>2. CASE Drop
  BY <1>2 DEF Drop, words
<1>3. ASSUME NEW t \in Threads, Push(t) \/ Pushing(t) PROVE Types'
  <2> USE <1>0 DEF Step, Return, Idle, PC, words
  <2>1. CASE Push(t) BY <2>1 DEF Push
  <2>2. CASE LoadAllocated(t) BY <2>2 DEF LoadAllocated
  <2>3. CASE LoadNone(t) BY <2>3 DEF LoadNone
  <2>4. CASE LoadNoMemory(t) BY <2>4 DEF LoadNoMemory
  <2>5. CASE ExchangeWin(t) BY <2>5 DEF ExchangeWin
  <2>6. CASE ExchangeLose(t) BY <2>6 DEF ExchangeLose
  <2>7. CASE Store(t) BY <2>7 DEF Store
  <2>8. CASE StoreNoMemory(t) BY <2>8 DEF StoreNoMemory
  <2>9. CASE Announce(t) BY <2>9 DEF Announce
  <2>10. CASE Scan(t)
    <3>1. PICK b \in Bits : thread' = [thread EXCEPT ![t].pc = "claim", ![t].bit = b]
      BY <2>10 DEF Scan
    <3>2. [[thread[t] EXCEPT !.pc = "claim"] EXCEPT !.bit = b] \in [pc : PC, bit : Bits]
      BY <3>1
    <3>3. thread' \in [Threads -> [pc : PC, bit : Bits]]
      BY <3>1, <3>2
    <3> QED
      BY <2>10, <3>3 DEF Scan
  <2>11. CASE ScanFull(t) BY <2>11 DEF ScanFull
  <2>12. CASE ScanOverflow(t) BY <2>12 DEF ScanOverflow
  <2>13. CASE Claim(t) BY <2>13 DEF Claim
  <2> QED
    BY <1>3, <2>1, <2>2, <2>3, <2>4, <2>5, <2>6, <2>7, <2>8, <2>9, <2>10, <2>11, <2>12, <2>13
    DEF Pushing
<1> QED
  BY <1>1, <1>2, <1>3 DEF Next

\* A step of push moves its own thread alone, and is no drop.
LEMMA Moves ==
  ASSUME NEW t \in Threads, NEW u \in Threads, Types, Push(t) \/ Pushing(t)
  PROVE  /\ u # t => thread'[u] = thread[u]
         /\ dropped' = dropped
  BY DEF Types, Push, Pushing, LoadAllocated, LoadNone, LoadNoMemory, ExchangeWin, ExchangeLose,
         Store, StoreNoMemory, Announce, Scan, ScanFull, ScanOverflow, Claim, Step, Return

\* The race for bucket 0 has one winner, who stores and announces.
LEMMA RaceStep == Inv /\ [Next]_vars => (Winner /\ Losers /\ AnnouncedIsStored)'
<1> SUFFICES ASSUME Inv, [Next]_vars PROVE (Winner /\ Losers /\ AnnouncedIsStored)'
  OBVIOUS
<1> USE DEF Inv, Types, Winner, Losers, AnnouncedIsStored
<1>1. CASE UNCHANGED vars
  BY <1>1 DEF vars, words
<1>2. CASE Drop
  BY <1>2 DEF Drop, words
<1>3. ASSUME NEW t \in Threads, Push(t) \/ Pushing(t)
      PROVE  (Winner /\ Losers /\ AnnouncedIsStored)'
  <2> USE ConcVecAssumption DEF Step, Return, Idle, PC, words
  <2>1. CASE Push(t) BY <2>1 DEF Push
  <2>2. CASE LoadAllocated(t) BY <2>2 DEF LoadAllocated
  <2>3. CASE LoadNone(t) BY <2>3 DEF LoadNone
  <2>4. CASE LoadNoMemory(t) BY <2>4 DEF LoadNoMemory
  <2>5. CASE ExchangeWin(t) BY <2>5 DEF ExchangeWin
  <2>6. CASE ExchangeLose(t) BY <2>6 DEF ExchangeLose
  <2>7. CASE Store(t) BY <2>7 DEF Store
  <2>8. CASE StoreNoMemory(t) BY <2>8 DEF StoreNoMemory
  <2>9. CASE Announce(t) BY <2>9 DEF Announce
  <2>10. CASE Scan(t) BY <2>10 DEF Scan
  <2>11. CASE ScanFull(t) BY <2>11 DEF ScanFull
  <2>12. CASE ScanOverflow(t) BY <2>12 DEF ScanOverflow
  <2>13. CASE Claim(t) BY <2>13 DEF Claim
  <2> QED
    BY <1>3, <2>1, <2>2, <2>3, <2>4, <2>5, <2>6, <2>7, <2>8, <2>9, <2>10, <2>11, <2>12, <2>13
    DEF Pushing
<1> QED
  BY <1>1, <1>2, <1>3 DEF Next

\* Bits are only ever set, and claimed by the thread that sets them.
LEMMA ClaimsStep == Inv /\ [Next]_vars => (ClaimedIsSet /\ ClaimsApart)'
<1> SUFFICES ASSUME Inv, [Next]_vars PROVE (ClaimedIsSet /\ ClaimsApart)'
  OBVIOUS
<1>1. CASE UNCHANGED <<bits, claims>>
  BY <1>1 DEF Inv, ClaimedIsSet, ClaimsApart
<1>2. ASSUME NEW t \in Threads, Claim(t) PROVE (ClaimedIsSet /\ ClaimsApart)'
  <2> DEFINE b == thread[t].bit
  <2>1. /\ bits' = bits \cup {b}
        /\ claims'[t] = claims[t] \cup ({b} \ bits)
        /\ \A u \in Threads \ {t} : claims'[u] = claims[u]
    BY <1>2 DEF Claim, Inv, Types
  <2>2. ClaimedIsSet'
    BY <2>1 DEF Inv, ClaimedIsSet
  <2>3. ClaimsApart'
    BY <2>1 DEF Inv, ClaimedIsSet, ClaimsApart
  <2> QED
    BY <2>2, <2>3
<1> QED
  BY <1>1, <1>2 DEF Next, Drop, Push, Pushing, LoadAllocated, LoadNone, LoadNoMemory, ExchangeWin,
     ExchangeLose, Store, StoreNoMemory, Announce, Scan, ScanFull, ScanOverflow, vars, words

\* A drop finds no thread inside push, and no push starts after it.
LEMMA DroppedStep == Inv /\ [Next]_vars => DroppedLast'
<1> SUFFICES ASSUME Inv, [Next]_vars PROVE DroppedLast'
  OBVIOUS
<1> USE DEF Inv, Types, DroppedLast
<1>1. CASE UNCHANGED vars
  BY <1>1 DEF vars
<1>2. CASE Drop
  BY <1>2 DEF Drop
<1>3. ASSUME NEW t \in Threads, Push(t) \/ Pushing(t) PROVE DroppedLast'
  <2>1. ~dropped
    BY <1>3 DEF Push, Pushing, LoadAllocated, LoadNone, LoadNoMemory, ExchangeWin, ExchangeLose,
       Store, StoreNoMemory, Announce, Scan, ScanFull, ScanOverflow, Claim, Step, Return
  <2> QED
    BY <1>3, <2>1, Moves
<1> QED
  BY <1>1, <1>2, <1>3 DEF Next

\* Two allocations are the same only when kind and owner are.
LEMMA Allocations ==
  \A t, u \in Threads : Meta(t) # Box(u) /\ (Meta(t) = Meta(u) <=> t = u) /\ (Box(t) = Box(u) <=> t = u)
  BY DEF Meta, Box

\* The allocations follow the links: what is freed is in nobody's hand, and what
\* is installed is kept.
LEMMA NoLeakStep == Inv /\ [Next]_vars => NoLeak'
<1> SUFFICES ASSUME Inv, [Next]_vars PROVE NoLeak'
  OBVIOUS
<1> DEFINE Holds(t) == thread[t].pc = "exchange"
<1>1. CASE UNCHANGED vars
  BY <1>1 DEF vars, words, Inv, NoLeak, Owned, InHand
<1>2. CASE Drop
  <2>1. InHand = {}
    BY <1>2 DEF Drop, InHand
  <2> QED
    BY <1>2, <2>1 DEF Drop, Inv, NoLeak
<1>3. ASSUME NEW t \in Threads, Push(t) \/ Pushing(t) PROVE NoLeak'
  <2>0. ~dropped /\ ~dropped'
    BY <1>3, Moves DEF Push, Pushing, LoadAllocated, LoadNone, LoadNoMemory, ExchangeWin, ExchangeLose,
       Store, StoreNoMemory, Announce, Scan, ScanFull, ScanOverflow, Claim, Step, Return, Inv, DroppedLast
  <2>1. live = Owned \cup InHand
    BY <2>0 DEF Inv, NoLeak
  <2>2. SUFFICES live' = Owned' \cup InHand'
    BY <2>0 DEF NoLeak
  <2>3. \A u \in Threads \ {t} : Holds(u)' <=> Holds(u)
    BY <1>3, Moves DEF Inv
  <2>4. ASSUME Holds(t)' <=> Holds(t), UNCHANGED <<bucket, bucket_meta, live>> PROVE live' = Owned' \cup InHand'
    <3>1. InHand' = InHand
      BY <2>3, <2>4 DEF InHand
    <3>2. Owned' = Owned
      BY <2>4 DEF Owned
    <3> QED
      BY <2>1, <2>4, <3>1, <3>2
  <2>5. CASE LoadNone(t)
    <3>1. Holds(t)' /\ live' = live \cup {Meta(t)} /\ UNCHANGED <<bucket, bucket_meta>>
      BY <2>5 DEF LoadNone, Step, Inv, Types, words
    <3>2. InHand' = InHand \cup {Meta(t)}
      BY <2>3, <3>1 DEF InHand
    <3>3. Owned' = Owned
      BY <3>1 DEF Owned
    <3> QED
      BY <2>1, <3>1, <3>2, <3>3
  <2>6. CASE ExchangeWin(t)
    <3>1. /\ Holds(t) /\ ~Holds(t)' /\ live' = live
          /\ bucket_meta = Nobody /\ bucket_meta' = t /\ bucket' = bucket
      BY <2>6 DEF ExchangeWin, Step, Inv, Types
    <3>2. InHand = InHand' \cup {Meta(t)}
      BY <2>3, <3>1 DEF InHand
    <3>3. Owned' = Owned \cup {Meta(t)}
      BY <3>1, ConcVecAssumption DEF Owned
    <3> QED
      BY <2>1, <3>1, <3>2, <3>3
  <2>7. CASE ExchangeLose(t)
    <3>1. /\ Holds(t) /\ ~Holds(t)' /\ live' = live \ {Meta(t)}
          /\ bucket_meta # t /\ UNCHANGED <<bucket, bucket_meta>>
      BY <2>7 DEF ExchangeLose, Step, Inv, Types, Losers, words
    <3>2. InHand' = InHand \ {Meta(t)}
      BY <2>3, <3>1, Allocations DEF InHand
    <3>3. Owned' = Owned
      BY <3>1 DEF Owned
    <3>4. Meta(t) \notin Owned
      BY <3>1, Allocations DEF Owned, Inv, Types
    <3> QED
      BY <2>1, <3>1, <3>2, <3>3, <3>4
  <2>8. CASE Store(t)
    <3>1. /\ ~Holds(t) /\ ~Holds(t)' /\ live' = live \cup {Box(t)}
          /\ bucket = Nobody /\ bucket' = t /\ bucket_meta' = bucket_meta
      BY <2>8 DEF Store, Step, Inv, Types, Winner
    <3>2. InHand' = InHand
      BY <2>3, <3>1 DEF InHand
    <3>3. Owned' = Owned \cup {Box(t)}
      BY <3>1, ConcVecAssumption DEF Owned
    <3> QED
      BY <2>1, <3>1, <3>2, <3>3
  <2>9. CASE Push(t)
    BY <2>4, <2>9 DEF Push, Step, Inv, Types, words
  <2>10. CASE LoadAllocated(t)
    BY <2>4, <2>10 DEF LoadAllocated, Return, Idle, Inv, Types, words
  <2>11. CASE LoadNoMemory(t)
    BY <2>4, <2>11 DEF LoadNoMemory, Step, Inv, Types, words
  <2>12. CASE StoreNoMemory(t)
    BY <2>4, <2>12 DEF StoreNoMemory, Step, Inv, Types, words
  <2>13. CASE Announce(t)
    BY <2>4, <2>13 DEF Announce, Return, Idle, Inv, Types
  <2>14. CASE Scan(t)
    BY <2>4, <2>14 DEF Scan, Inv, Types, words
  <2>15. CASE ScanFull(t)
    BY <2>4, <2>15 DEF ScanFull, Step, Inv, Types, words
  <2>16. CASE ScanOverflow(t)
    BY <2>4, <2>16 DEF ScanOverflow, Step, Inv, Types, words
  <2>17. CASE Claim(t)
    BY <2>4, <2>17 DEF Claim, Step, Inv, Types
  <2> QED
    BY <1>3, <2>5, <2>6, <2>7, <2>8, <2>9, <2>10, <2>11, <2>12, <2>13, <2>14, <2>15, <2>16, <2>17
    DEF Pushing
<1> QED
  BY <1>1, <1>2, <1>3 DEF Next

\* The inductive invariant of push and drop.
THEOREM Inductive == Spec => []Inv
<1>1. Init => Inv
  BY InitInv
<1>2. Inv /\ [Next]_vars => Inv'
  BY TypesStep, RaceStep, ClaimsStep, DroppedStep, NoLeakStep DEF Inv
<1> QED
  BY <1>1, <1>2, PTL DEF Spec

\* The locals keep their types, and the metadata the losers work on is there
\* and not freed (conc_vec_2.rs:74).
THEOREM TypeCorrect == Spec => []TypeOK
<1>1. Inv => TypeOK
  <2> SUFFICES ASSUME Inv PROVE TypeOK
    OBVIOUS
  <2>1. ASSUME NEW t \in Threads, thread[t].pc \in {"scan", "claim"} PROVE Meta(bucket_meta) \in live
    <3>1. ~dropped /\ bucket_meta # Nobody
      BY <2>1 DEF Inv, DroppedLast, Losers
    <3>2. Meta(bucket_meta) \in Owned
      BY <3>1 DEF Owned, Inv, Types
    <3> QED
      BY <3>1, <3>2 DEF Inv, NoLeak
  <2> QED
    BY <2>1 DEF Inv, Types, TypeOK
<1> QED
  BY <1>1, Inductive, PTL

\* No bit is claimed twice, however the loads and the fetch_ors of the losers
\* interleave (conc_vec_2.rs:76-87).
THEOREM ClaimsAlwaysApart == Spec => []ClaimsApart
<1>1. Inv => ClaimsApart
  BY DEF Inv
<1> QED
  BY <1>1, Inductive, PTL

\* Nothing is leaked and nothing freed that is in use, panics for want of memory
\* and the drop included (conc_vec_2.rs:63-73, 102-113).
THEOREM NeverLeaks == Spec => []NoLeak
<1>1. Inv => NoLeak
  BY DEF Inv
<1> QED
  BY <1>1, Inductive, PTL

\* Bucket 0 is announced only when its value is there (conc_vec_2.rs:69-70).
THEOREM AnnouncedIsAlwaysStored == Spec => []AnnouncedIsStored
<1>1. Inv => AnnouncedIsStored
  BY DEF Inv
<1> QED
  BY <1>1, Inductive, PTL

\* The value of bucket 0 is stored by one thread, once (conc_vec_2.rs:65-69).
THEOREM StoredOnlyOnce == Spec => StoredOnce
<1>1. Inv /\ [Next]_vars => [bucket # Nobody => bucket' = bucket]_bucket
  BY DEF Inv, Winner, Next, Drop, Push, Pushing, LoadAllocated, LoadNone, LoadNoMemory, ExchangeWin,
     ExchangeLose, Store, StoreNoMemory, Announce, Scan, ScanFull, ScanOverflow, Claim, Step, vars, words
<1> QED
  BY <1>1, Inductive, PTL DEF Spec, StoredOnce
=============================================================================
