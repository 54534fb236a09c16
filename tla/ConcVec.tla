------------------------------- MODULE ConcVec -------------------------------
(***************************************************************************)
(* The concurrent vector of conc_vec_2.rs, as far as it is written: threads *)
(* race to install the metadata word of bucket 0, the winner stores its    *)
(* value there, the losers claim the bits of the word one after the other, *)
(* and nothing is done with a claimed bit.  Each atomic access is a step.  *)
(* A value is named after the thread that pushes it.                       *)
(***************************************************************************)
EXTENDS Integers

CONSTANTS Threads, Nobody,
          HalfBits  \* HalfUsize::BITS, the bits of the word that are claimed

ASSUME ConcVecAssumption == /\ Nobody \notin Threads
                            /\ HalfBits \in Nat \ {0}

VARIABLES meta_allocated,  \* bit 0 of the word: bucket 0 is announced
          bucket_meta,     \* who allocated the metadata installed for bucket 0
          bits,            \* the bits that are set in that metadata
          bucket,          \* whose value buckets[0] leads to
          thread,          \* per thread: its place in push and the bit it is after
          live,            \* the allocations that are not freed
          dropped,         \* the vector has been dropped
          claims           \* history: the bits each thread was the one to set

words == <<meta_allocated, bucket_meta, bits, bucket>>
vars == <<words, thread, live, dropped, claims>>

Bits == 0..(HalfBits - 1)
Idle == [pc |-> "idle", bit |-> 0]

Meta(t) == <<"meta", t>>
Box(t) == <<"value", t>>

\* A metadata word has bit 0 set before it is installed.
Init == /\ meta_allocated = FALSE
        /\ bucket_meta = Nobody
        /\ bits = {0}
        /\ bucket = Nobody
        /\ thread = [t \in Threads |-> Idle]
        /\ live = {}
        /\ dropped = FALSE
        /\ claims = [t \in Threads |-> {}]

Step(t, from, to) == thread[t].pc = from /\ thread' = [thread EXCEPT ![t].pc = to]
Return(t, from) == thread[t].pc = from /\ thread' = [thread EXCEPT ![t] = Idle]

Push(t) ==
  /\ Step(t, "idle", "load")
  /\ ~dropped
  /\ UNCHANGED <<words, live, dropped, claims>>

\* Some(_) => {}: push returns, and the value is dropped.
LoadAllocated(t) ==
  /\ Return(t, "load")
  /\ meta_allocated
  /\ UNCHANGED <<words, live, dropped, claims>>

\* A metadata word is allocated and set up.
LoadNone(t) ==
  /\ Step(t, "load", "exchange")
  /\ ~meta_allocated
  /\ live' = live \cup {Meta(t)}
  /\ UNCHANGED <<words, dropped, claims>>

\* alloc gives null for it: unwrap panics.
LoadNoMemory(t) ==
  /\ Step(t, "load", "panicked")
  /\ ~meta_allocated
  /\ UNCHANGED <<words, live, dropped, claims>>

\* Faulty: the word is swapped in, whatever was there.
SwapWin(t) ==
  /\ Step(t, "exchange", "store")
  /\ bucket_meta' = t
  /\ UNCHANGED <<meta_allocated, bits, bucket, live, dropped, claims>>

\* Faulty: bucket 0 is announced before its value is there.
ExchangeAnnounce(t) ==
  /\ Step(t, "exchange", "store")
  /\ bucket_meta = Nobody
  /\ bucket_meta' = t
  /\ meta_allocated' = TRUE
  /\ UNCHANGED <<bits, bucket, live, dropped, claims>>

\* compare_exchange succeeds
ExchangeWin(t) ==
  /\ Step(t, "exchange", "store")
  /\ bucket_meta = Nobody
  /\ bucket_meta' = t
  /\ UNCHANGED <<meta_allocated, bits, bucket, live, dropped, claims>>

\* Faulty: the word that was installed is freed.
ExchangeLoseFreesIt(t) ==
  /\ Step(t, "exchange", "scan")
  /\ bucket_meta # Nobody
  /\ live' = live \ {Meta(bucket_meta)}
  /\ UNCHANGED <<words, dropped, claims>>

\* compare_exchange fails, and the word is freed again
ExchangeLose(t) ==
  /\ Step(t, "exchange", "scan")
  /\ bucket_meta # Nobody
  /\ live' = live \ {Meta(t)}
  /\ UNCHANGED <<words, dropped, claims>>

\* The value is allocated, written and stored in buckets[0].
Store(t) ==
  /\ Step(t, "store", "announce")
  /\ bucket' = t
  /\ live' = live \cup {Box(t)}
  /\ UNCHANGED <<meta_allocated, bucket_meta, bits, dropped, claims>>

\* alloc gives null: unwrap panics, and the metadata stays installed.
StoreNoMemory(t) ==
  /\ Step(t, "store", "panicked")
  /\ UNCHANGED <<words, live, dropped, claims>>

Announce(t) ==
  /\ Return(t, "announce")
  /\ meta_allocated' = TRUE
  /\ UNCHANGED <<bucket_meta, bits, bucket, live, dropped, claims>>

\* The load in the loop, and first_free_bit of what it finds.
Scan(t) ==
  /\ thread[t].pc = "scan"
  /\ \E b \in Bits \ bits : /\ \A c \in Bits \ bits : b <= c
                          /\ thread' = [thread EXCEPT ![t].pc = "claim", ![t].bit = b]
  /\ UNCHANGED <<words, live, dropped, claims>>

\* Faulty: the search starts over with bit 0, free or not.
ScanFullWraps(t) ==
  /\ thread[t].pc = "scan" /\ Bits \subseteq bits
  /\ thread' = [thread EXCEPT ![t].pc = "claim", ![t].bit = 0]
  /\ UNCHANGED <<words, live, dropped, claims>>

\* No bit is free.  first_free_bit goes on to usize::BITS: the shifts past the
\* width wrap and find nothing, and push calls itself.
ScanFull(t) ==
  /\ Step(t, "scan", "load")
  /\ Bits \subseteq bits
  /\ UNCHANGED <<words, live, dropped, claims>>

\* In a build with overflow checks the first of these shifts panics.
ScanOverflow(t) ==
  /\ Step(t, "scan", "panicked")
  /\ Bits \subseteq bits
  /\ UNCHANGED <<words, live, dropped, claims>>

\* Faulty: what fetch_or returns is not looked at.
ClaimBlindly(t) ==
  /\ Step(t, "claim", "scan")
  /\ bits' = bits \cup {thread[t].bit}
  /\ claims' = [claims EXCEPT ![t] = @ \cup {thread[t].bit}]
  /\ UNCHANGED <<meta_allocated, bucket_meta, bucket, live, dropped>>

\* fetch_or of the bit; whoever finds it clear has claimed it, and goes on.
Claim(t) ==
  /\ Step(t, "claim", "scan")
  /\ bits' = bits \cup {thread[t].bit}
  /\ claims' = [claims EXCEPT ![t] = @ \cup ({thread[t].bit} \ bits)]
  /\ UNCHANGED <<meta_allocated, bucket_meta, bucket, live, dropped>>

\* What the two arrays lead to.
Owned == {Box(t) : t \in {bucket} \ {Nobody}} \cup {Meta(t) : t \in {bucket_meta} \ {Nobody}}

\* Faulty: one loop for both arrays, up to the first empty bucket.
DropInOneLoop ==
  /\ ~dropped /\ \A t \in Threads : thread[t].pc \in {"idle", "panicked"}
  /\ dropped' = TRUE
  /\ live' = IF bucket = Nobody THEN live ELSE live \ Owned
  /\ UNCHANGED <<words, thread, claims>>

\* drop takes &mut self: no thread is inside of push any more.  The buckets and
\* the metadata words are freed, the values in the buckets are not dropped.
Drop ==
  /\ ~dropped /\ \A t \in Threads : thread[t].pc \in {"idle", "panicked"}
  /\ dropped' = TRUE
  /\ live' = live \ Owned
  /\ UNCHANGED <<words, thread, claims>>
-----------------------------------------------------------------------------
Pushing(t) == \/ LoadAllocated(t) \/ LoadNone(t) \/ LoadNoMemory(t)
              \/ ExchangeWin(t) \/ ExchangeLose(t)
              \/ Store(t) \/ StoreNoMemory(t) \/ Announce(t)
              \/ Scan(t) \/ ScanFull(t) \/ ScanOverflow(t) \/ Claim(t)

Next == Drop \/ \E t \in Threads : Pushing(t) \/ Push(t)

Spec == Init /\ [][Next]_vars

\* Threads inside push keep running; nobody has to call it.
FairSpec == Spec /\ \A t \in Threads : WF_vars(Pushing(t))
-----------------------------------------------------------------------------
PC == {"idle", "load", "exchange", "store", "announce", "scan", "claim", "panicked"}

\* The words and the threads' locals keep their types, and the loops work on
\* metadata that is there and not freed (conc_vec_2.rs:74).
TypeOK == /\ meta_allocated \in BOOLEAN /\ dropped \in BOOLEAN
          /\ bucket_meta \in Threads \cup {Nobody}
          /\ bits \subseteq Bits
          /\ bucket \in Threads \cup {Nobody}
          /\ thread \in [Threads -> [pc : PC, bit : Bits]]
          /\ \A t \in Threads : thread[t].pc \in {"scan", "claim"} => Meta(bucket_meta) \in live

\* No bit is claimed by two threads, nor the one that came set, although they
\* all look for the first free one (conc_vec_2.rs:76-87).
ClaimsApart ==
  \A t \in Threads : /\ 0 \notin claims[t]
                     /\ \A u \in Threads \ {t} : claims[t] \cap claims[u] = {}

\* What a thread is about to install.
InHand == {Meta(t) : t \in {u \in Threads : thread[u].pc = "exchange"}}

\* The losers of the race leak no metadata word and free none that is in use,
\* and the drop frees all that is left, also when the winner panicked between
\* the two stores (conc_vec_2.rs:63-73, 102-113).
NoLeak == live = IF dropped THEN {} ELSE Owned \cup InHand

\* A thread that finds bucket 0 announced finds its value there, so that a push
\* drops its value for want of code only when the vector holds another one
\* (conc_vec_2.rs:69-70, 94).
AnnouncedIsStored == meta_allocated => bucket # Nobody

\* The value of bucket 0 is stored once and not overwritten (conc_vec_2.rs:65-69).
StoredOnce == [][bucket # Nobody => bucket' = bucket]_bucket

\* The winner of the race died before it had stored its value.
Orphaned == /\ bucket_meta # Nobody /\ bucket = Nobody
            /\ thread[bucket_meta].pc = "panicked"

\* Every push returns or panics, unless the winner of the race ran out of
\* memory: the calls of push by itself come to an end when the winner is done
\* (conc_vec_2.rs:67, 75-90).
PushReturns ==
  \A t \in Threads :
    thread[t].pc # "idle" ~> thread[t].pc \in {"idle", "panicked"} \/ Orphaned
=============================================================================
