------------------------------ MODULE SpscRing ------------------------------
(***************************************************************************)
(* The lock-free ring of spsc_ring.hpp, one atomic or memory access a step. *)
(*                                                                          *)
(* head_ is stored by the producer alone and tail_ by the consumer alone.   *)
(* Each side works on a copy of its own index and on a cached copy of the   *)
(* other's, and looks at the other's only when the cached one stops it.     *)
(* That load is an acquire: it returns what the index is, or anything it    *)
(* has been since this side last looked.                                    *)
(*                                                                          *)
(* push and pop are push_bulk and pop_bulk of one.  One slot always stays   *)
(* empty: that is how full differs from empty.                              *)
(***************************************************************************)
EXTENDS Integers, Sequences

CONSTANTS
  N,          \* slots: mask_ + 1
  Messages,
  MaxBulk,    \* the largest n either bulk call is given
  Unwritten   \* what a slot holds before its first write

ASSUME RingAssumption ==
  /\ N \in Nat /\ N >= 2
  /\ MaxBulk \in Nat /\ MaxBulk >= 1
  /\ Unwritten \notin Messages

VARIABLES
  buf, head, tail,
  cachedTail,   \* the producer's view of tail_
  cachedHead,   \* the consumer's view of head_
  ppc, items, pHead,       \* producer: step, messages not yet accepted, local head
  cpc, want, dst, cTail    \* consumer: step, n, what it has read, local tail

producer == <<cachedTail, ppc, items, pHead>>
consumer == <<cachedHead, cpc, want, dst, cTail>>
ringVars == <<buf, head, tail, producer, consumer>>

Slots == 0 .. N - 1

Batches == UNION {[1 .. n -> Messages] : n \in 1 .. MaxBulk}

\* (i + 1) & mask_
NextSlot(i) == IF i = N - 1 THEN 0 ELSE i + 1

\* The slot k places after i, and how far b is after a: (b - a) & mask_.
Plus(i, k) == IF i + k < N THEN i + k ELSE i + k - N
Dist(a, b) == IF a <= b THEN b - a ELSE b - a + N

\* What a load may return of an index that was `seen` and now is `now`.
Loadable(seen, now) == {i \in Slots : Dist(seen, i) <= Dist(seen, now)}

RingInit ==
  /\ buf = [i \in Slots |-> Unwritten]
  /\ head = 0 /\ tail = 0 /\ cachedTail = 0 /\ cachedHead = 0
  /\ ppc = "idle" /\ items = <<>> /\ pHead = 0
  /\ cpc = "idle" /\ want = 0 /\ dst = <<>> /\ cTail = 0

-----------------------------------------------------------------------------
(***************************************************************************)
(* The producer.                                                            *)
(***************************************************************************)

written == Dist(head, pHead)

PushBulk(s) ==
  /\ ppc = "idle" /\ items = <<>>
  /\ items' = s
  /\ ppc' = "test"
  /\ UNCHANGED <<buf, head, tail, cachedTail, pHead, consumer>>

\* The caller got less accepted than it asked for and calls again with the rest.
PushRest ==
  /\ ppc = "idle" /\ items # <<>>
  /\ ppc' = "test"
  /\ UNCHANGED <<buf, head, tail, cachedTail, items, pHead, consumer>>

\* The loop test and the first full test.
PushTest ==
  /\ ppc = "test"
  /\ \/ written = Len(items) /\ ppc' = "publish"
     \/ /\ written < Len(items)
        /\ ppc' = IF NextSlot(pHead) = cachedTail THEN "reload" ELSE "write"
  /\ UNCHANGED <<buf, head, tail, cachedTail, items, pHead, consumer>>

\* Faulty variants: the producer does not test again after it has reloaded, or
\* compares again with what it had before.
PushReloadNoRetest(i) ==
  /\ ppc = "reload"
  /\ i \in Loadable(cachedTail, tail)
  /\ cachedTail' = i
  /\ ppc' = "write"
  /\ UNCHANGED <<buf, head, tail, items, pHead, consumer>>
PushReloadUnkept(i) ==
  /\ ppc = "reload"
  /\ i \in Loadable(cachedTail, tail)
  /\ ppc' = "publish"
  /\ UNCHANGED <<buf, head, tail, cachedTail, items, pHead, consumer>>

\* Load tail_ and test again.
PushReload(i) ==
  /\ ppc = "reload"
  /\ i \in Loadable(cachedTail, tail)
  /\ cachedTail' = i
  /\ ppc' = IF NextSlot(pHead) = i THEN "publish" ELSE "write"
  /\ UNCHANGED <<buf, head, tail, items, pHead, consumer>>

PushWrite ==
  /\ ppc = "write"
  /\ buf' = [buf EXCEPT ![pHead] = items[written + 1]]
  /\ pHead' = NextSlot(pHead)
  /\ ppc' = "test"
  /\ UNCHANGED <<head, tail, cachedTail, items, consumer>>

\* Store head_, if anything was written, and return.
PushPublish ==
  /\ ppc = "publish"
  /\ head' = pHead
  /\ items' = SubSeq(items, written + 1, Len(items))
  /\ ppc' = "idle"
  /\ UNCHANGED <<buf, tail, cachedTail, pHead, consumer>>

-----------------------------------------------------------------------------
(***************************************************************************)
(* The consumer.                                                            *)
(***************************************************************************)

PopBulk(n) ==
  /\ cpc = "idle"
  /\ want' = n
  /\ dst' = <<>>
  /\ cpc' = "test"
  /\ UNCHANGED <<buf, head, tail, producer, cachedHead, cTail>>

PopTest ==
  /\ cpc = "test"
  /\ \/ Len(dst) = want /\ cpc' = "release"
     \/ /\ Len(dst) < want
        /\ cpc' = IF cTail = cachedHead THEN "reload" ELSE "read"
  /\ UNCHANGED <<buf, head, tail, producer, cachedHead, want, dst, cTail>>

PopReload(i) ==
  /\ cpc = "reload"
  /\ i \in Loadable(cachedHead, head)
  /\ cachedHead' = i
  /\ cpc' = IF cTail = i THEN "release" ELSE "read"
  /\ UNCHANGED <<buf, head, tail, producer, want, dst, cTail>>

PopRead ==
  /\ cpc = "read"
  /\ dst' = Append(dst, buf[cTail])
  /\ cTail' = NextSlot(cTail)
  /\ cpc' = "test"
  /\ UNCHANGED <<buf, head, tail, producer, cachedHead, want>>

\* Faulty variant: of a batch only the last slot is given back.
PopReleaseShort ==
  /\ cpc = "release"
  /\ tail' = IF dst = <<>> THEN tail ELSE NextSlot(tail)
  /\ cpc' = "idle"
  /\ UNCHANGED <<buf, head, producer, cachedHead, want, dst, cTail>>

\* Store tail_, if anything was read, and return.
PopRelease ==
  /\ cpc = "release"
  /\ tail' = cTail
  /\ cpc' = "idle"
  /\ UNCHANGED <<buf, head, producer, cachedHead, want, dst, cTail>>

-----------------------------------------------------------------------------
Produce ==
  \/ \E s \in Batches : PushBulk(s)
  \/ PushRest
  \/ PushTest
  \/ \E i \in Slots : PushReload(i)
  \/ PushWrite
  \/ PushPublish

Consume ==
  \/ \E n \in 1 .. MaxBulk : PopBulk(n)
  \/ PopTest
  \/ \E i \in Slots : PopReload(i)
  \/ PopRead
  \/ PopRelease

RingNext == Produce \/ Consume

RingSpec == RingInit /\ [][RingNext]_ringVars

(***************************************************************************)
(* The producer need not have anything to send, but spins on what was       *)
(* refused; the consumer polls for ever.  A store becomes visible to the    *)
(* other side's loads in finite time.                                       *)
(***************************************************************************)
Fairness ==
  /\ WF_ringVars(PushRest \/ PushTest \/ PushWrite \/ PushPublish
                   \/ \E i \in Slots : PushReload(i))
  /\ WF_ringVars(Consume)
  /\ SF_ringVars(PushReload(tail))
  /\ SF_ringVars(PopReload(head))

FairRing == RingSpec /\ Fairness

-----------------------------------------------------------------------------
(***************************************************************************)
(* Properties.                                                              *)
(***************************************************************************)

TypeOK ==
  /\ buf \in [Slots -> Messages \union {Unwritten}]
  /\ head \in Slots /\ tail \in Slots
  /\ cachedTail \in Slots /\ cachedHead \in Slots
  /\ ppc \in {"idle", "test", "reload", "write", "publish"}
  /\ items \in Seq(Messages) /\ pHead \in Slots
  /\ cpc \in {"idle", "test", "reload", "read", "release"}
  /\ want \in 0 .. MaxBulk /\ dst \in Seq(Messages) /\ cTail \in Slots

\* The bytes of a slot are never written while they are read.
NoDataRace == ~(ppc = "write" /\ cpc = "read" /\ pHead = cTail)

\* What stands in the ring for everyone to see.
Published == [k \in 1 .. Dist(tail, head) |-> buf[Plus(tail, k - 1)]]

Promise == INSTANCE Fifo WITH
  MaxBatch <- MaxBulk,
  Capacity <- N - 1,
  queue    <- Published,
  offered  <- items,
  got      <- IF cpc = "idle" THEN dst ELSE <<>>

\* The ring is a bounded FIFO: every message pushed is popped once and in
\* order, with stale indices, bulk calls and the wrap (spsc_ring.hpp:6-12).
KeepsPromise == Promise!Spec

\* Nobody waits for ever: what the producer spins on is accepted, and what is
\* published is handed to the consumer.
EverythingArrives == Promise!Live
=============================================================================
