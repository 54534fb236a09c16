------------------------------- MODULE BBRing -------------------------------
(***************************************************************************)
(* The byte ring of bbring.rs: many pusher threads and a remover share two *)
(* packed atomic words and an unsynchronised byte buffer.  Every access to *)
(* an atomic word is one action, and so is every write or read of the      *)
(* buffer, so all interleavings of the threads are explored.  The atomics  *)
(* are taken as sequentially consistent.                                   *)
(*                                                                         *)
(* A pusher reserves bytes by adding to the word, then checks that there   *)
(* was room, and takes the reservation back when there was none.  Nothing  *)
(* stops another pusher from reserving in between, and head is not reduced *)
(* modulo the capacity when the buffer is written.  After that a remover   *)
(* may take any bytes for a length, and the sum of such lengths may carry  *)
(* out of the head field.  The variable "faults" records when each of      *)
(* these first happens: the guarantees of the ring hold until then, and    *)
(* the findings show that it does happen.                                  *)
(***************************************************************************)
EXTENDS Marker, Sequences, FiniteSets

CONSTANTS Pushers,     \* the threads that call push
          Removers,    \* the threads that call pop_front (by contract, one)
          Payloads,    \* the byte strings pushed
          PayloadLen,  \* their lengths
          NoPayload,   \* the payload of an idle pusher
          Cap,         \* the capacity given to BBRing::new
          Hdr,         \* size_of::<UHalfSize>(), the length header
          MaxReserved, \* bound: reservations outstanding or published
          MaxHead      \* bound: bytes reserved

ASSUME BBRingAssumption ==
  /\ PayloadLen \in [Payloads -> Nat]
  /\ NoPayload \notin Payloads
  /\ Cap \in Nat \ {0} /\ Cap < (LenMod - 1) \div 2 - 1   \* else BBRing::new panics
  /\ Hdr \in Nat \ {0}
  /\ MaxReserved \in Nat
  /\ MaxHead \in Nat

VARIABLES marker,         \* head, len and finished_len of the pushed records
          remove_marker,  \* the same of the removed records
          buf,            \* the bytes of the allocation
          push,           \* per pusher: its place in push and its locals
          pop,            \* per remover: its place in pop_front, and its guard
          log,            \* history: the reservations in the order they were made
          faults          \* history: what has gone wrong so far

vars == <<marker, remove_marker, buf, push, pop, log, faults>>

Addr == 0..(Cap - 1)
Lens == {PayloadLen[d] : d \in Payloads}
Size(d) == Hdr + PayloadLen[d]

\* The bytes of a record: a length header, then the payload.
Uninit == <<"uninit">>
LenByte(l, i) == <<"len", l, i>>
DataByte(d, i) == <<"data", d, i>>
Bytes(d) == [i \in 0..(PayloadLen[d] - 1) |-> DataByte(d, i)]
Byte == {Uninit} \cup {LenByte(l, i) : l \in Lens, i \in 0..(Hdr - 1)}
                 \cup UNION {{DataByte(d, i) : i \in 0..(PayloadLen[d] - 1)} : d \in Payloads}

IdlePush == [pc |-> "idle", at |-> Zero, data |-> NoPayload]
IdlePop == [pc |-> "idle", rem |-> Zero, len |-> 0]

Init == /\ marker = Zero
        /\ remove_marker = Zero
        /\ buf = [a \in Addr |-> Uninit]
        /\ push = [p \in Pushers |-> IdlePush]
        /\ pop = [r \in Removers |-> IdlePop]
        /\ log = <<>>
        /\ faults = {}
-----------------------------------------------------------------------------
(***************************************************************************)
(* push                                                                    *)
(***************************************************************************)
PushStep(p, from, to) == /\ push[p].pc = from
                         /\ push' = [push EXCEPT ![p].pc = to]

PushReturn(p, from) == /\ push[p].pc = from
                       /\ push' = [push EXCEPT ![p] = IdlePush]

\* Faulty: the header is not counted in what is reserved.
ReserveWithoutHeader(p, d) ==
  /\ push[p].pc = "idle"
  /\ marker.len < MaxReserved /\ marker.head + Size(d) <= MaxHead
  /\ push' = [push EXCEPT ![p] = [pc |-> "check", at |-> marker, data |-> d]]
  /\ marker' = Plus(marker, PayloadLen[d], 1, 0)
  /\ log' = Append(log, [data |-> d, at |-> marker.head])
  /\ UNCHANGED <<remove_marker, buf, pop, faults>>

\* fetch_add of the size and of one reservation; the old word is the ticket.
Reserve(p, d) ==
  /\ push[p].pc = "idle"
  /\ marker.len < MaxReserved /\ marker.head + Size(d) <= MaxHead
  /\ push' = [push EXCEPT ![p] = [pc |-> "check", at |-> marker, data |-> d]]
  /\ marker' = Plus(marker, Size(d), 1, 0)
  /\ log' = Append(log, [data |-> d, at |-> marker.head])
  /\ UNCHANGED <<remove_marker, buf, pop, faults>>

\* The bytes in use once this record is stored, as the pusher works it out.
Occupancy(p) == push[p].at.head - remove_marker.head + Size(push[p].data)

\* A difference below zero wraps to a huge usize, and the sum wraps back when
\* the size makes up for it.
Full(p) == Occupancy(p) < 0 \/ Occupancy(p) >= Cap

Overruns(p) == push[p].at.head + Size(push[p].data) > Cap

Accept(p) ==
  /\ PushStep(p, "check", "header")
  /\ ~Full(p)
  /\ faults' = IF Overruns(p) THEN faults \cup {"overrun"} ELSE faults
  /\ UNCHANGED <<marker, remove_marker, buf, pop, log>>

Refuse(p) ==
  /\ PushStep(p, "check", "rollback")
  /\ Full(p)
  /\ UNCHANGED <<marker, remove_marker, buf, pop, log, faults>>

\* A build with overflow checks panics on the subtraction instead.
Underflow(p) ==
  /\ PushStep(p, "check", "panicked")
  /\ push[p].at.head < remove_marker.head
  /\ UNCHANGED <<marker, remove_marker, buf, pop, log, faults>>

IsLast(p) == marker.len = push[p].at.len + 1

\* Faulty: the bytes are taken back and the reservation is not.
RollbackBytesOnly(p) ==
  /\ PushReturn(p, "rollback")
  /\ marker' = Plus(marker, -Size(push[p].data), 0, 0)
  /\ UNCHANGED <<remove_marker, buf, pop, log, faults>>

\* fetch_sub of what was added, whoever has reserved since; push returns false.
Rollback(p) ==
  /\ PushReturn(p, "rollback")
  /\ marker' = Plus(marker, -Size(push[p].data), -1, 0)
  /\ log' = IF IsLast(p) /\ log # <<>> THEN SubSeq(log, 1, Len(log) - 1) ELSE log
  /\ faults' = IF IsLast(p) THEN faults ELSE faults \cup {"overtaken"}
  /\ UNCHANGED <<remove_marker, buf, pop>>

\* The n bytes f[0], f[1], ... stored from address a on.  What falls outside
\* of the allocation does not reach the ring.
Stored(a, n, f(_)) == [x \in Addr |-> IF x \in a..(a + n - 1) THEN f(x - a) ELSE buf[x]]

WriteHeader(p) ==
  /\ PushStep(p, "header", "payload")
  /\ LET Length(i) == LenByte(PayloadLen[push[p].data], i)
     IN  buf' = Stored(push[p].at.head, Hdr, Length)
  /\ UNCHANGED <<marker, remove_marker, pop, log, faults>>

WritePayload(p) ==
  /\ PushStep(p, "payload", "wait")
  /\ LET Data(i) == DataByte(push[p].data, i)
     IN  buf' = Stored(push[p].at.head + Hdr, PayloadLen[push[p].data], Data)
  /\ UNCHANGED <<marker, remove_marker, pop, log, faults>>

\* Faulty: no spin, records are published in any order.
AwaitNothing(p) == /\ PushStep(p, "wait", "publish")
                   /\ UNCHANGED <<marker, remove_marker, buf, pop, log, faults>>

\* The spin on finished_len: every earlier reservation has been published.
AwaitTurn(p) ==
  /\ PushStep(p, "wait", "publish")
  /\ marker.fin = push[p].at.len
  /\ UNCHANGED <<marker, remove_marker, buf, pop, log, faults>>

\* Faulty: the wrong one of the two counters is raised.
PublishToLen(p) == /\ PushReturn(p, "publish")
                   /\ marker' = Plus(marker, 0, 1, 0)
                   /\ UNCHANGED <<remove_marker, buf, pop, log, faults>>

\* push returns true.
Publish(p) ==
  /\ PushReturn(p, "publish")
  /\ marker' = Plus(marker, 0, 0, 1)
  /\ UNCHANGED <<remove_marker, buf, pop, log, faults>>
-----------------------------------------------------------------------------
(***************************************************************************)
(* pop_front and the drop of the BufGuard it returns.  The guard borrows   *)
(* the thread, which cannot send it away: pc "guard" is a guard alive.     *)
(***************************************************************************)
PopStep(r, from, to) == /\ pop[r].pc = from
                        /\ pop' = [pop EXCEPT ![r].pc = to]

PopReturn(r, from) == /\ pop[r].pc = from
                      /\ pop' = [pop EXCEPT ![r] = IdlePop]

\* fetch_add of one removal; the old word is the ticket.
PopReserve(r) ==
  /\ pop[r].pc = "idle"
  /\ pop' = [pop EXCEPT ![r] = [pc |-> "load", rem |-> remove_marker, len |-> 0]]
  /\ remove_marker' = Plus(remove_marker, 0, 1, 0)
  /\ UNCHANGED <<marker, buf, push, log, faults>>

\* Faulty: the last published record does not count.
EmptyTooEarly(r) == /\ PopStep(r, "load", "none")
                    /\ pop[r].rem.len + 1 >= marker.fin
                    /\ UNCHANGED <<marker, remove_marker, buf, push, log, faults>>

\* The load of the other word finds nothing published for this ticket.
PopEmpty(r) ==
  /\ PopStep(r, "load", "none")
  /\ pop[r].rem.len >= marker.fin
  /\ UNCHANGED <<marker, remove_marker, buf, push, log, faults>>

\* pop_front returns None.
PopRollback(r) ==
  /\ PopReturn(r, "none")
  /\ remove_marker' = Plus(remove_marker, 0, -1, 0)
  /\ UNCHANGED <<marker, buf, push, log, faults>>

\* Faulty: no wait for the guard before.
ClaimAtOnce(r) == /\ PopStep(r, "load", "read")
                  /\ pop[r].rem.len < marker.fin
                  /\ UNCHANGED <<marker, remove_marker, buf, push, log, faults>>

\* Faulty: one record more than was published.
ClaimTooMuch(r) ==
  /\ PopStep(r, "load", IF pop[r].rem.fin = pop[r].rem.len THEN "read" ELSE "wait")
  /\ pop[r].rem.len <= marker.fin
  /\ UNCHANGED <<marker, remove_marker, buf, push, log, faults>>

\* A record is published; with an earlier guard still alive, wait for its drop.
PopClaim(r) ==
  /\ PopStep(r, "load", IF pop[r].rem.fin = pop[r].rem.len THEN "read" ELSE "wait")
  /\ pop[r].rem.len < marker.fin
  /\ UNCHANGED <<marker, remove_marker, buf, push, log, faults>>

\* Faulty: the word of before the wait is used on.
AwaitKeepsWord(r) == /\ PopStep(r, "wait", "read")
                     /\ pop[r].rem.len = remove_marker.fin
                     /\ UNCHANGED <<marker, remove_marker, buf, push, log, faults>>

\* Faulty: the wait ends one removal too early.
AwaitOneBefore(r) ==
  /\ pop[r].pc = "wait" /\ pop[r].rem.len <= remove_marker.fin + 1
  /\ pop' = [pop EXCEPT ![r].pc = "read", ![r].rem = remove_marker]
  /\ UNCHANGED <<marker, remove_marker, buf, push, log, faults>>

\* The spin on the removers' finished_len; the word loaded last replaces rem.
PopAwaitTurn(r) ==
  /\ pop[r].pc = "wait" /\ pop[r].rem.len = remove_marker.fin
  /\ pop' = [pop EXCEPT ![r].pc = "read", ![r].rem = remove_marker]
  /\ UNCHANGED <<marker, remove_marker, buf, push, log, faults>>

\* Faulty: a usize is read, whose upper half is what comes behind the header.
HeaderTooWide(a) == {l + HeadMod : l \in {k \in Lens : a \in Addr /\ buf[a] = LenByte(k, 0)}}

\* The length found at an address; bytes that are no header give any u32, the
\* values of the head field.
HeaderAt(a) ==
  LET stored == {l \in Lens : \A i \in 0..(Hdr - 1) : a + i \in Addr /\ buf[a + i] = LenByte(l, i)}
  IN  IF stored # {} THEN stored ELSE 0..(HeadMod - 1)

Start(r) == pop[r].rem.head % Cap

\* The header is read and pop_front returns the guard of a slice of the buffer.
PopRead(r) ==
  /\ pop[r].pc = "read"
  /\ \E l \in HeaderAt(Start(r)) : pop' = [pop EXCEPT ![r].pc = "guard", ![r].len = l]
  /\ UNCHANGED <<marker, remove_marker, buf, push, log, faults>>

\* The record shown by the guard, with its payload replaced by d.
Rewritten(d) == [i \in 1..Len(log) |->
                   IF i = remove_marker.fin + 1 THEN [log[i] EXCEPT !.data = d] ELSE log[i]]

\* Faulty: the slice starts at the header.
OverwriteHeader(r, d) ==
  /\ pop[r].pc = "guard" /\ PayloadLen[d] = pop[r].len
  /\ LET Data(i) == DataByte(d, i)
     IN  buf' = Stored(Start(r), PayloadLen[d], Data)
  /\ log' = Rewritten(d)
  /\ UNCHANGED <<marker, remove_marker, push, pop, faults>>

\* The caller writes other bytes into the slice that as_mut gives it.
Overwrite(r, d) ==
  /\ pop[r].pc = "guard" /\ PayloadLen[d] = pop[r].len
  /\ LET Data(i) == DataByte(d, i)
     IN  buf' = Stored(Start(r) + Hdr, PayloadLen[d], Data)
  /\ log' = Rewritten(d)
  /\ UNCHANGED <<marker, remove_marker, push, pop, faults>>

\* The bytes given back do not fit the head field: they change len as well.
Carries(r) == remove_marker.head + pop[r].len + Hdr >= HeadMod

\* Faulty: the header is not given back.
DropWithoutHeader(r) == /\ PopReturn(r, "guard")
                        /\ remove_marker' = Plus(remove_marker, pop[r].len, 0, 1)
                        /\ UNCHANGED <<marker, buf, push, log, faults>>

\* Faulty: the bytes are given back and the removal is not counted.
DropWithoutCount(r) == /\ PopReturn(r, "guard")
                       /\ remove_marker' = Plus(remove_marker, pop[r].len + Hdr, 0, 0)
                       /\ UNCHANGED <<marker, buf, push, log, faults>>

\* The guard is dropped: its bytes and its removal are done.
DropGuard(r) ==
  /\ PopReturn(r, "guard")
  /\ remove_marker' = Plus(remove_marker, pop[r].len + Hdr, 0, 1)
  /\ faults' = IF Carries(r) THEN faults \cup {"carried"} ELSE faults
  /\ UNCHANGED <<marker, buf, push, log>>
-----------------------------------------------------------------------------
\* What a thread inside push does next; the scheduler is fair to it.
Pushing(p) == \/ Accept(p) \/ Refuse(p) \/ Underflow(p) \/ Rollback(p)
              \/ WriteHeader(p) \/ WritePayload(p) \/ AwaitTurn(p) \/ Publish(p)

\* What a thread inside pop_front, or holding the guard, does next.
Popping(r) == \/ PopEmpty(r) \/ PopRollback(r) \/ PopClaim(r) \/ PopAwaitTurn(r)
              \/ PopRead(r) \/ DropGuard(r)

Next == \/ \E p \in Pushers : Pushing(p) \/ \E d \in Payloads : Reserve(p, d)
        \/ \E r \in Removers : Popping(r) \/ PopReserve(r) \/ \E d \in Payloads : Overwrite(r, d)

Spec == Init /\ [][Next]_vars

\* Threads inside a call keep running; nobody has to call push or pop_front.
FairSpec == /\ Spec
            /\ \A p \in Pushers : WF_vars(Pushing(p))
            /\ \A r \in Removers : WF_vars(Popping(r))
-----------------------------------------------------------------------------
PushPC == {"idle", "check", "rollback", "header", "payload", "wait", "publish", "panicked"}
PopPC == {"idle", "load", "none", "wait", "read", "guard"}

\* The words, the buffer and the threads' locals keep their types.
TypeOK == /\ marker \in Marker
          /\ remove_marker \in Marker
          /\ buf \in [Addr -> Byte]
          /\ push \in [Pushers -> [pc : PushPC, at : Marker, data : Payloads \cup {NoPayload}]]
          /\ \A p \in Pushers : push[p].pc # "idle" => push[p].data \in Payloads
          /\ pop \in [Removers -> [pc : PopPC, rem : Marker, len : Lens \cup 0..(HeadMod - 1)]]
          /\ log \in Seq([data : Payloads, at : 0..(HeadMod - 1)])
          /\ faults \subseteq {"overrun", "overtaken", "carried"}
-----------------------------------------------------------------------------
(***************************************************************************)
(* Properties                                                              *)
(***************************************************************************)
Accepted == {p \in Pushers : push[p].pc \in {"header", "payload", "wait", "publish"}}
Reading == {r \in Removers : pop[r].pc \in {"read", "guard"}}
Holders == {r \in Removers : pop[r].pc = "guard"}

End(e) == e.at + Size(e.data)
Apart(s1, e1, s2, e2) == e1 <= s2 \/ e2 <= s1

\* Until a fault, no two threads ever touch the same byte of the buffer: the
\* region of an accepted push is apart from that of every other accepted push
\* and from every record published and not yet given back (bbring.rs:83-91).
RegionsApart ==
  faults = {} =>
    \A p \in Accepted :
      LET s == push[p].at.head
          e == s + Size(push[p].data)
      IN  /\ \A q \in Accepted \ {p} :
               Apart(s, e, push[q].at.head, push[q].at.head + Size(push[q].data))
          /\ \A i \in (remove_marker.fin + 1)..marker.fin :
               Apart(s, e, log[i].at, End(log[i]))

\* Until a fault, a guard shows exactly the bytes of the oldest record that
\* was published and not given back (bbring.rs:120-126, 146-150).
GuardShowsRecord ==
  faults = {} =>
    \A r \in Holders :
      LET e == log[remove_marker.fin + 1]
      IN  /\ remove_marker.fin < marker.fin
          /\ pop[r].len = PayloadLen[e.data]
          /\ \A i \in 0..(pop[r].len - 1) : buf[Start(r) + Hdr + i] = DataByte(e.data, i)

\* Until a fault, the turn to publish always belongs to a thread inside push:
\* the threads that spin on finished_len (bbring.rs:94) wait for somebody.
TurnIsHeld ==
  faults = {} =>
    (marker.fin < marker.len =>
       \E p \in Pushers : push[p].pc # "idle" /\ push[p].at.len = marker.fin)

\* At most one guard is alive, whatever the number of removers and whatever
\* went wrong with the pushes, until the drop of a guard carries: a ticket is
\* served after the drop of the guard before it (bbring.rs:110-118, 160).
SingleGuard == "carried" \notin faults => \A r, s \in Reading : r = s

\* Until the drop of a guard carries, the removers never claim a record that has
\* not been published, nor give back more records than were published
\* (bbring.rs:104).
RemoversBehind ==
  "carried" \notin faults =>
    /\ remove_marker.fin <= marker.fin
    /\ Reading # {} => remove_marker.fin < marker.fin
    /\ \A r \in Removers : pop[r].pc = "wait" => pop[r].rem.len < marker.fin

\* The bytes from the oldest record not given back to the end of a reservation.
Span(p) == push[p].at.head + Size(push[p].data) - log[remove_marker.fin + 1].at

\* Until a fault, whether a push is stored depends on the records not given
\* back and the reservations made before its own and on nothing else: all that
\* was given back, the headers included, can be reserved again
\* (bbring.rs:83-87, 160).
AdmittedWhenRoom ==
  [][\A p \in Pushers :
       faults = {} /\ push[p].pc = "check" /\ push'[p].pc \in {"header", "rollback"}
         => (push'[p].pc = "header" <=> Span(p) < Cap)]_vars

\* Until a fault, a lone remover gets None only when every published record
\* has been removed at the moment it looks (bbring.rs:104-107).
NoneMeansEmpty ==
  [][\A r \in Removers :
       faults = {} /\ pop[r].pc = "load" /\ pop'[r].pc = "none"
         => remove_marker.fin = marker.fin]_vars

Inside(p) == push[p].pc \notin {"idle", "panicked"}

\* Until a fault, every call of push returns, true or false, however many others
\* it has to wait for (bbring.rs:94-98).
PushReturns == \A p \in Pushers : Inside(p) ~> ~Inside(p) \/ faults # {}

\* "allows for atomic addition and removal of said bytes" (bbring.rs:53): every
\* call of push returns.
PushAlwaysReturns == \A p \in Pushers : Inside(p) ~> ~Inside(p)

\* "stored in a ring buffer" (bbring.rs:52-53): the bytes of an accepted record
\* are stored inside of the buffer.
StoredInBuffer == \A p \in Accepted : ~Overruns(p)

\* The records published and neither held by a guard nor given back.
Taken == remove_marker.fin + Cardinality(Holders)
Shown(r) == [i \in 0..(pop[r].len - 1) |-> buf[Start(r) + Hdr + i]]

Q == INSTANCE ByteQueue WITH
       Values <- {Bytes(d) : d \in Payloads},
       queue <- [i \in 1..(marker.fin - Taken) |-> Bytes(log[Taken + i].data)],
       held <- {Shown(r) : r \in Holders}

\* Until a fault, the ring is a queue of whole records: push adds one in a
\* single step, pop_front takes the oldest, the drop gives it back.
RefinesQueue == Q!QInit /\ [][faults' # {} \/ Q!QNext \/ UNCHANGED Q!qvars]_vars
=============================================================================
