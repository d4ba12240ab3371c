--------------------------- MODULE RoutingProofs ----------------------------
(***************************************************************************)
(* The router's rings and its shards: SpscRing, step by step, then Shards,   *)
(* whose rings are the bounded queues SpscRing is shown to be.  The two      *)
(* share no state; each has its own theorems.                               *)
(***************************************************************************)
EXTENDS SpscRing, Shards, SequenceTheorems, TLAPS

-----------------------------------------------------------------------------
(***************************************************************************)
(* The ring is race free and a bounded FIFO, for any number of slots, any    *)
(* messages and any batch size.                                             *)
(*                                                                          *)
(* The argument is the order of the six indices around the ring.  Seen from  *)
(* cachedTail, they never overtake one another:                              *)
(*                                                                          *)
(*   cachedTail, tail, cTail, cachedHead, head, pHead                        *)
(*                                                                          *)
(* and pHead never comes all the way round to cachedTail.  So what the       *)
(* consumer may read, from cTail up to cachedHead, and what the producer may *)
(* write, from pHead up to cachedTail, have no slot in common, however old   *)
(* the two cached indices are.                                              *)
(***************************************************************************)

\* The indices in their order around the ring, whatever was loaded and when.
InOrder ==
  /\ Dist(cachedTail, tail) <= Dist(cachedTail, cTail)
  /\ Dist(cachedTail, cTail) <= Dist(cachedTail, cachedHead)
  /\ Dist(cachedTail, cachedHead) <= Dist(cachedTail, head)
  /\ Dist(cachedTail, head) <= Dist(cachedTail, pHead)

\* Between its steps the producer has written `written` slots, no more than it
\* was asked to, and is about to write only where there is room.
ProducerInv ==
  /\ ppc = "idle" => pHead = head
  /\ Dist(head, pHead) <= Len(items) /\ Len(items) <= MaxBulk
  /\ ppc \in {"reload", "write"} => Dist(head, pHead) < Len(items)
  /\ ppc = "write" => NextSlot(pHead) # cachedTail

\* Between its steps the consumer has read the slots from tail up to cTail and
\* is about to read only what it has seen published.
ConsumerInv ==
  /\ cpc = "idle" => cTail = tail
  /\ cpc # "idle" => Len(dst) = Dist(tail, cTail) /\ Len(dst) <= want
  /\ cpc \in {"reload", "read"} => Len(dst) < want
  /\ cpc = "read" => cTail # cachedHead

\* What is in the slots: the producer's written items from head on, and at the
\* consumer's end the messages it has copied out.
ContentInv ==
  /\ \A i \in Slots :
       Dist(tail, i) < Dist(tail, pHead) => buf[i] \in Messages
  /\ \A k \in 1 .. Dist(head, pHead) : buf[Plus(head, k - 1)] = items[k]
  /\ cpc # "idle" => \A k \in 1 .. Len(dst) : dst[k] = buf[Plus(tail, k - 1)]

RingIInv == TypeOK /\ InOrder /\ ProducerInv /\ ConsumerInv /\ ContentInv

-----------------------------------------------------------------------------
(***************************************************************************)
(* Arithmetic on the ring.                                                  *)
(***************************************************************************)

\* A distance is less than the number of slots, and zero only between a slot
\* and itself.
LEMMA DistType ==
  ASSUME NEW a \in Slots, NEW b \in Slots
  PROVE  /\ Dist(a, b) \in Slots
         /\ Dist(a, b) = 0 <=> a = b
  BY RingAssumption, SMT DEF Dist, Slots

\* The next slot is one further on, unless that is where the measuring began.
LEMMA DistNext ==
  ASSUME NEW a \in Slots, NEW b \in Slots
  PROVE  /\ NextSlot(b) \in Slots
         /\ NextSlot(b) # a => Dist(a, NextSlot(b)) = Dist(a, b) + 1
  BY RingAssumption, SMT DEF Dist, NextSlot, Slots

-----------------------------------------------------------------------------
(***************************************************************************)
(* The invariant.                                                           *)
(***************************************************************************)

\* The ring starts empty, every index at slot 0.
LEMMA InitRing == RingInit => RingIInv
<1> SUFFICES ASSUME RingInit PROVE RingIInv
  OBVIOUS
<1> USE DEF RingInit
<1>1. 0 \in Slots /\ Dist(0, 0) = 0
  BY RingAssumption, SMT DEF Slots, Dist
<1>2. <<>> \in Seq(Messages) /\ Len(<<>>) = 0
  OBVIOUS
<1>3. TypeOK
  BY <1>1, <1>2, RingAssumption DEF TypeOK
<1>4. InOrder /\ ProducerInv /\ ConsumerInv
  BY <1>1, <1>2 DEF InOrder, ProducerInv, ConsumerInv
<1>5. ContentInv
  BY <1>1, <1>2, DistType, RingAssumption DEF ContentInv, Slots
<1> QED
  BY <1>3, <1>4, <1>5 DEF RingIInv

\* A batch is a sequence of messages, no longer than MaxBulk.
LEMMA BatchIsSeq ==
  ASSUME NEW s \in Batches
  PROVE  s \in Seq(Messages) /\ Len(s) \in 0 .. MaxBulk
<1>1. PICK n \in 1 .. MaxBulk : s \in [1 .. n -> Messages]
  BY DEF Batches
<1>2. n \in Nat /\ n \in 0 .. MaxBulk
  BY RingAssumption
<1>3. s \in Seq(Messages)
  BY <1>1, <1>2
<1>4. Len(s) = n
  BY <1>1, <1>2
<1> QED
  BY <1>2, <1>3, <1>4

\* A producer's step keeps the types.
LEMMA ProduceTypeOK == RingIInv /\ Produce => TypeOK'
<1> SUFFICES ASSUME RingIInv, Produce PROVE TypeOK'
  OBVIOUS
<1> USE DEF RingIInv, TypeOK, consumer
<1>1. ASSUME NEW s \in Batches, PushBulk(s) PROVE TypeOK'
  <2>1. s \in Seq(Messages)
    BY BatchIsSeq
  <2> QED
    BY <1>1, <2>1 DEF PushBulk
<1>2. CASE PushRest
  BY <1>2 DEF PushRest
<1>3. CASE PushTest
  BY <1>3 DEF PushTest
<1>4. ASSUME NEW i \in Slots, PushReload(i) PROVE TypeOK'
  BY <1>4 DEF PushReload
<1>5. CASE PushWrite
  <2>1. written \in Nat /\ written < Len(items)
    BY <1>5, DistType, RingAssumption DEF PushWrite, ProducerInv, written, Slots
  <2>2. items[written + 1] \in Messages
    BY <2>1, SMT
  <2>3. NextSlot(pHead) \in Slots
    BY DistNext
  <2> QED
    BY <1>5, <2>2, <2>3 DEF PushWrite
<1>6. CASE PushPublish
  <2>1. written \in 0 .. Len(items)
    BY DistType DEF ProducerInv, written, Slots
  <2>2. SubSeq(items, written + 1, Len(items)) \in Seq(Messages)
    BY <2>1
  <2> QED
    BY <1>6, <2>2 DEF PushPublish
<1> QED
  BY <1>1, <1>2, <1>3, <1>4, <1>5, <1>6 DEF Produce

\* The slot the consumer is about to read has been published.
LEMMA ReadIsPublished ==
  ASSUME RingIInv, cpc = "read"
  PROVE  /\ Dist(tail, cTail) < Dist(tail, head)
         /\ Dist(tail, cTail) < Dist(tail, pHead)
         /\ buf[cTail] \in Messages
<1> USE DEF RingIInv, TypeOK
<1>1. cTail # cachedHead
  BY DEF ConsumerInv
<1>2. Dist(cachedTail, cTail) < Dist(cachedTail, cachedHead)
  BY <1>1, RingAssumption, SMT DEF InOrder, Dist, Slots
<1>3. Dist(tail, cTail) < Dist(tail, head) /\ Dist(tail, cTail) < Dist(tail, pHead)
  BY <1>2, RingAssumption, SMT DEF InOrder, Dist, Slots
<1> QED
  BY <1>3 DEF ContentInv

\* A consumer's step keeps the types.
LEMMA ConsumeTypeOK == RingIInv /\ Consume => TypeOK'
<1> SUFFICES ASSUME RingIInv, Consume PROVE TypeOK'
  OBVIOUS
<1> USE DEF RingIInv, TypeOK, producer
<1>1. ASSUME NEW n \in 1 .. MaxBulk, PopBulk(n) PROVE TypeOK'
  BY <1>1, RingAssumption DEF PopBulk
<1>2. CASE PopTest
  BY <1>2 DEF PopTest
<1>3. ASSUME NEW i \in Slots, PopReload(i) PROVE TypeOK'
  BY <1>3 DEF PopReload
<1>4. CASE PopRead
  <2>1. buf[cTail] \in Messages
    BY <1>4, ReadIsPublished DEF PopRead
  <2>2. NextSlot(cTail) \in Slots
    BY DistNext
  <2> QED
    BY <1>4, <2>1, <2>2 DEF PopRead
<1>5. CASE PopRelease
  BY <1>5 DEF PopRelease
<1> QED
  BY <1>1, <1>2, <1>3, <1>4, <1>5 DEF Consume

\* A producer's step keeps the rest of the invariant.
LEMMA ProduceIInv ==
  RingIInv /\ Produce => InOrder' /\ ProducerInv' /\ ConsumerInv' /\ ContentInv'
<1> SUFFICES ASSUME RingIInv, Produce
             PROVE  InOrder' /\ ProducerInv' /\ ConsumerInv' /\ ContentInv'
  OBVIOUS
<1> USE DEF RingIInv, TypeOK, consumer
<1>0. written \in Nat
  BY DistType, RingAssumption DEF written, Slots
<1>1. ASSUME NEW s \in Batches, PushBulk(s)
      PROVE  InOrder' /\ ProducerInv' /\ ConsumerInv' /\ ContentInv'
  <2>1. Dist(head, pHead) = 0
    BY <1>1, DistType DEF PushBulk, ProducerInv
  <2>2. s \in Seq(Messages) /\ Len(s) \in 0 .. MaxBulk
    BY BatchIsSeq
  <2>3. InOrder' /\ ConsumerInv'
    BY <1>1 DEF PushBulk, InOrder, ConsumerInv
  <2>4. ProducerInv'
    BY <1>1, <2>1, <2>2 DEF PushBulk, ProducerInv
  <2>5. ContentInv'
    BY <1>1, <2>1 DEF PushBulk, ContentInv
  <2> QED
    BY <2>3, <2>4, <2>5
<1>2. CASE PushRest
  BY <1>2 DEF PushRest, InOrder, ProducerInv, ConsumerInv, ContentInv
<1>3. CASE PushTest
  <2>1. InOrder' /\ ConsumerInv' /\ ContentInv'
    BY <1>3 DEF PushTest, InOrder, ConsumerInv, ContentInv
  <2>2. ProducerInv'
    BY <1>3 DEF PushTest, ProducerInv, written
  <2> QED
    BY <2>1, <2>2
<1>4. ASSUME NEW i \in Slots, PushReload(i)
      PROVE  InOrder' /\ ProducerInv' /\ ConsumerInv' /\ ContentInv'
  <2>1. Dist(cachedTail, i) <= Dist(cachedTail, tail)
    BY <1>4 DEF PushReload, Loadable
  <2>2. /\ Dist(i, tail) <= Dist(i, cTail)
        /\ Dist(i, cTail) <= Dist(i, cachedHead)
        /\ Dist(i, cachedHead) <= Dist(i, head)
        /\ Dist(i, head) <= Dist(i, pHead)
    BY <2>1, RingAssumption, SMT DEF InOrder, Dist, Slots
  <2>3. InOrder'
    BY <1>4, <2>2 DEF PushReload, InOrder
  <2>4. ProducerInv'
    BY <1>4 DEF PushReload, ProducerInv
  <2>5. ConsumerInv' /\ ContentInv'
    BY <1>4 DEF PushReload, ConsumerInv, ContentInv
  <2> QED
    BY <2>3, <2>4, <2>5
<1>5. CASE PushWrite
  <2> DEFINE next == NextSlot(pHead)
  <2>1. /\ next \in Slots
        /\ Dist(head, next) = Dist(head, pHead) + 1
        /\ Dist(cachedTail, head) <= Dist(cachedTail, next)
    BY <1>5, RingAssumption, SMT DEF PushWrite, ProducerInv, InOrder, Dist, NextSlot, Slots
  <2>2. InOrder'
    BY <1>5, <2>1 DEF PushWrite, InOrder
  <2>3. ProducerInv'
    BY <1>5, <2>1, <1>0 DEF PushWrite, ProducerInv, written
  <2>4. ConsumerInv'
    BY <1>5 DEF PushWrite, ConsumerInv
  <2>5. ContentInv'
    <3>1. \A i \in Slots : i # pHead => buf'[i] = buf[i]
      BY <1>5 DEF PushWrite
    <3>2. buf'[pHead] = items[written + 1] /\ buf'[pHead] \in Messages
      BY <1>5, <1>0 DEF PushWrite, ProducerInv, written
    <3>3. ASSUME NEW i \in Slots, Dist(tail, i) < Dist(tail, next)
          PROVE  buf'[i] \in Messages
      <4>1. i # pHead => Dist(tail, i) < Dist(tail, pHead)
        BY <1>5, <3>3, RingAssumption, SMT
           DEF PushWrite, ProducerInv, InOrder, Dist, NextSlot, Slots
      <4> QED
        BY <3>1, <3>2, <4>1 DEF ContentInv
    <3>4. ASSUME NEW k \in 1 .. Dist(head, next)
          PROVE  buf'[Plus(head, k - 1)] = items[k]
      <4>1. CASE k = Dist(head, next)
        <5>1. k = written + 1 /\ k - 1 = written
          BY <4>1, <2>1, <1>0 DEF written
        <5>2. Plus(head, written) = pHead
          BY RingAssumption, SMT DEF Dist, Plus, Slots, written
        <5> QED
          BY <3>2, <5>1, <5>2
      <4>2. CASE k # Dist(head, next)
        <5>1. k \in 1 .. Dist(head, pHead)
          BY <4>2, <2>1, <1>0 DEF written
        <5>2. Plus(head, k - 1) \in Slots /\ Plus(head, k - 1) # pHead
          BY <5>1, RingAssumption, SMT DEF Dist, Plus, Slots
        <5> QED
          BY <3>1, <5>1, <5>2 DEF ContentInv
      <4> QED
        BY <4>1, <4>2
    <3>5. ASSUME cpc # "idle", NEW k \in 1 .. Len(dst)
          PROVE  dst[k] = buf'[Plus(tail, k - 1)]
      <4>1. k \in 1 .. Dist(tail, cTail)
        BY <3>5 DEF ConsumerInv
      <4>2. Plus(tail, k - 1) \in Slots /\ Plus(tail, k - 1) # pHead
        BY <4>1, RingAssumption, SMT DEF InOrder, Dist, Plus, Slots
      <4> QED
        BY <3>1, <3>5, <4>2 DEF ContentInv
    <3> QED
      BY <1>5, <3>3, <3>4, <3>5 DEF PushWrite, ContentInv
  <2> QED
    BY <2>2, <2>3, <2>4, <2>5
<1>6. CASE PushPublish
  <2>0. Dist(pHead, pHead) = 0
    BY DistType
  <2>1. /\ Dist(cachedTail, cachedHead) <= Dist(cachedTail, pHead)
        /\ Dist(cachedTail, pHead) <= Dist(cachedTail, pHead)
    BY RingAssumption, SMT DEF InOrder, Dist, Slots
  <2>2. InOrder'
    BY <1>6, <2>1 DEF PushPublish, InOrder
  <2>3. ProducerInv'
    <3>1. written \in 0 .. Len(items)
      BY <1>0 DEF ProducerInv, written
    <3>2. Len(SubSeq(items, written + 1, Len(items))) \in 0 .. Len(items)
      BY <3>1
    <3>3. Len(items') \in 0 .. Len(items)
      BY <1>6, <3>2 DEF PushPublish
    <3>4. Len(items') \in 0 .. MaxBulk
      BY <3>3, RingAssumption DEF ProducerInv
    <3>5. ppc' = "idle" /\ head' = pHead /\ pHead' = pHead
      BY <1>6 DEF PushPublish
    <3> QED
      BY <2>0, <3>4, <3>5, RingAssumption DEF ProducerInv
  <2>4. ConsumerInv'
    BY <1>6 DEF PushPublish, ConsumerInv
  <2>5. ContentInv'
    <3>1. 1 .. Dist(pHead, pHead) = {}
      BY <2>0
    <3> QED
      BY <1>6, <3>1 DEF PushPublish, ContentInv
  <2> QED
    BY <2>2, <2>3, <2>4, <2>5
<1> QED
  BY <1>1, <1>2, <1>3, <1>4, <1>5, <1>6 DEF Produce

\* A consumer's step keeps the rest of the invariant.
LEMMA ConsumeIInv ==
  RingIInv /\ Consume => InOrder' /\ ProducerInv' /\ ConsumerInv' /\ ContentInv'
<1> SUFFICES ASSUME RingIInv, Consume
             PROVE  InOrder' /\ ProducerInv' /\ ConsumerInv' /\ ContentInv'
  OBVIOUS
<1> USE DEF RingIInv, TypeOK, producer
<1>1. ASSUME NEW n \in 1 .. MaxBulk, PopBulk(n)
      PROVE  InOrder' /\ ProducerInv' /\ ConsumerInv' /\ ContentInv'
  <2>1. Dist(tail, cTail) = 0
    BY <1>1, DistType DEF PopBulk, ConsumerInv
  <2>2. Len(<<>>) = 0
    OBVIOUS
  <2>3. InOrder' /\ ProducerInv'
    BY <1>1 DEF PopBulk, InOrder, ProducerInv
  <2>4. ConsumerInv'
    BY <1>1, <2>1, <2>2 DEF PopBulk, ConsumerInv
  <2>5. ContentInv'
    BY <1>1, <2>2 DEF PopBulk, ContentInv
  <2> QED
    BY <2>3, <2>4, <2>5
<1>2. CASE PopTest
  <2>1. InOrder' /\ ProducerInv' /\ ContentInv'
    BY <1>2 DEF PopTest, InOrder, ProducerInv, ContentInv
  <2>2. ConsumerInv'
    BY <1>2 DEF PopTest, ConsumerInv
  <2> QED
    BY <2>1, <2>2
<1>3. ASSUME NEW i \in Slots, PopReload(i)
      PROVE  InOrder' /\ ProducerInv' /\ ConsumerInv' /\ ContentInv'
  <2>1. Dist(cachedHead, i) <= Dist(cachedHead, head)
    BY <1>3 DEF PopReload, Loadable
  <2>2. /\ Dist(cachedTail, cTail) <= Dist(cachedTail, i)
        /\ Dist(cachedTail, i) <= Dist(cachedTail, head)
    BY <2>1, RingAssumption, SMT DEF InOrder, Dist, Slots
  <2>3. InOrder'
    BY <1>3, <2>2 DEF PopReload, InOrder
  <2>4. ProducerInv' /\ ContentInv'
    BY <1>3 DEF PopReload, ProducerInv, ContentInv
  <2>5. ConsumerInv'
    BY <1>3 DEF PopReload, ConsumerInv
  <2> QED
    BY <2>3, <2>4, <2>5
<1>4. CASE PopRead
  <2> DEFINE next == NextSlot(cTail)
  <2>0. cpc = "read" /\ cTail # cachedHead
    BY <1>4 DEF PopRead, ConsumerInv
  <2>1. /\ Dist(tail, next) = Dist(tail, cTail) + 1
        /\ Dist(cachedTail, tail) <= Dist(cachedTail, next)
        /\ Dist(cachedTail, next) <= Dist(cachedTail, cachedHead)
    BY <2>0, RingAssumption, SMT DEF InOrder, Dist, NextSlot, Slots
  <2>2. InOrder'
    BY <1>4, <2>1 DEF PopRead, InOrder
  <2>3. ProducerInv'
    BY <1>4 DEF PopRead, ProducerInv
  <2>4. ConsumerInv'
    BY <1>4, <2>1 DEF PopRead, ConsumerInv
  <2>5. ContentInv'
    <3>1. Len(dst) = Dist(tail, cTail) /\ Len(dst) \in Nat
      BY <2>0 DEF ConsumerInv
    <3>2. Plus(tail, Len(dst)) = cTail
      BY <3>1, RingAssumption, SMT DEF Dist, Plus, Slots
    <3>3. buf[cTail] \in Messages
      BY <2>0, ReadIsPublished
    <3>4. ASSUME NEW k \in 1 .. Len(Append(dst, buf[cTail]))
          PROVE  Append(dst, buf[cTail])[k] = buf[Plus(tail, k - 1)]
      <4>1. CASE k = Len(dst) + 1
        BY <3>1, <3>2, <3>3, <4>1
      <4>2. CASE k \in 1 .. Len(dst)
        BY <2>0, <3>1, <3>3, <4>2 DEF ContentInv
      <4> QED
        BY <3>3, <3>4, <4>1, <4>2
    <3> QED
      BY <1>4, <3>4 DEF PopRead, ContentInv
  <2> QED
    BY <2>2, <2>3, <2>4, <2>5
<1>5. CASE PopRelease
  <2>1. Dist(cachedTail, cTail) <= Dist(cachedTail, cTail)
    BY DistType, RingAssumption DEF Slots
  <2>2. InOrder'
    BY <1>5, <2>1 DEF PopRelease, InOrder
  <2>3. ProducerInv' /\ ConsumerInv'
    BY <1>5 DEF PopRelease, ProducerInv, ConsumerInv
  <2>4. ContentInv'
    <3>1. ASSUME NEW i \in Slots, Dist(cTail, i) < Dist(cTail, pHead)
          PROVE  Dist(tail, i) < Dist(tail, pHead)
      BY <3>1, RingAssumption, SMT DEF InOrder, Dist, Slots
    <3> QED
      BY <1>5, <3>1 DEF PopRelease, ContentInv
  <2> QED
    BY <2>2, <2>3, <2>4
<1> QED
  BY <1>1, <1>2, <1>3, <1>4, <1>5 DEF Consume

\* Every step keeps the invariant.
LEMMA NextRing == RingIInv /\ [RingNext]_ringVars => RingIInv'
<1>1. RingIInv /\ RingNext => RingIInv'
  BY ProduceTypeOK, ProduceIInv, ConsumeTypeOK, ConsumeIInv DEF RingNext, RingIInv
<1>2. RingIInv /\ UNCHANGED ringVars => RingIInv'
  BY DEF RingIInv, TypeOK, InOrder, ProducerInv, ConsumerInv, ContentInv, ringVars, producer, consumer
<1> QED
  BY <1>1, <1>2

\* The order of the indices and the content of the slots between them hold
\* for ever.
THEOREM RingInvariant == RingSpec => []RingIInv
<1> QED
  BY InitRing, NextRing, PTL DEF RingSpec

\* Every index stays in range and every message copied out is a message that
\* was pushed, never a slot that nobody wrote.
THEOREM RingTypeOK == RingSpec => []TypeOK
<1>1. RingIInv => TypeOK
  BY DEF RingIInv
<1> QED
  BY RingInvariant, <1>1, PTL

\* No slot is written while it is read, whatever the loads returned.
THEOREM RingNoDataRace == RingSpec => []NoDataRace
<1>1. RingIInv => NoDataRace
  <2> SUFFICES ASSUME RingIInv, cpc = "read", pHead = cTail PROVE FALSE
    BY DEF NoDataRace
  <2>1. Dist(tail, cTail) < Dist(tail, pHead)
    BY ReadIsPublished
  <2>2. Dist(tail, cTail) \in Nat
    BY DistType, RingAssumption DEF RingIInv, TypeOK, Slots
  <2> QED
    BY <2>1, <2>2
<1> QED
  BY RingInvariant, <1>1, PTL

-----------------------------------------------------------------------------
(***************************************************************************)
(* The ring implements the bounded FIFO.                                    *)
(***************************************************************************)

\* What is published is a sequence of messages.
LEMMA PublishedType ==
  ASSUME RingIInv
  PROVE  /\ Published \in Seq(Messages)
         /\ Len(Published) = Dist(tail, head)
<1> USE DEF RingIInv, TypeOK
<1>1. Dist(tail, head) \in Nat
  BY DistType, RingAssumption DEF Slots
<1>2. ASSUME NEW k \in 1 .. Dist(tail, head)
      PROVE  buf[Plus(tail, k - 1)] \in Messages
  <2>1. /\ Plus(tail, k - 1) \in Slots
        /\ Dist(tail, Plus(tail, k - 1)) < Dist(tail, pHead)
    BY RingAssumption, SMT DEF InOrder, Dist, Plus, Slots
  <2> QED
    BY <2>1 DEF ContentInv
<1> QED
  BY <1>1, <1>2 DEF Published

\* The ring starts as an empty queue.
LEMMA InitRefines == RingInit => Promise!Init
<1> SUFFICES ASSUME RingInit PROVE Promise!Init
  OBVIOUS
<1>1. Dist(0, 0) = 0
  BY RingAssumption, SMT DEF Dist
<1>2. Published = <<>>
  BY <1>1 DEF RingInit, Published
<1> QED
  BY <1>2 DEF RingInit, Promise!Init

\* A producer's step offers a batch, has a part of it accepted, or is not seen.
LEMMA ProduceRefines == RingIInv /\ Produce => [Promise!Next]_(Promise!vars)
<1> SUFFICES ASSUME RingIInv, Produce PROVE [Promise!Next]_(Promise!vars)
  OBVIOUS
<1> USE DEF RingIInv, TypeOK, consumer
<1> DEFINE Seen == UNCHANGED <<head, tail, items, cpc, dst>> /\ Published' = Published
<1>0. Seen => UNCHANGED Promise!vars
  BY DEF Promise!vars
<1>1. ASSUME NEW s \in Batches, PushBulk(s) PROVE Promise!Next
  <2>1. Published' = Published
    BY <1>1 DEF PushBulk, Published
  <2>2. Promise!Offer(s)
    BY <1>1, <2>1 DEF PushBulk, Promise!Offer
  <2> QED
    BY <2>2 DEF Promise!Next, Promise!Batches, Batches
<1>2. CASE PushRest
  BY <1>0, <1>2 DEF PushRest, Published
<1>3. CASE PushTest
  BY <1>0, <1>3 DEF PushTest, Published
<1>4. ASSUME NEW i \in Slots, PushReload(i) PROVE UNCHANGED Promise!vars
  BY <1>0, <1>4 DEF PushReload, Published
<1>5. CASE PushWrite
  <2>1. ASSUME NEW k \in 1 .. Dist(tail, head)
        PROVE  buf'[Plus(tail, k - 1)] = buf[Plus(tail, k - 1)]
    <3>1. Plus(tail, k - 1) \in Slots /\ Plus(tail, k - 1) # pHead
      BY RingAssumption, SMT DEF InOrder, Dist, Plus, Slots
    <3> QED
      BY <1>5, <3>1 DEF PushWrite
  <2>2. Published' = Published
    BY <1>5, <2>1 DEF PushWrite, Published
  <2> QED
    BY <1>0, <1>5, <2>2 DEF PushWrite
<1>6. CASE PushPublish
  <2>0. written \in 0 .. Len(items) /\ written \in Nat
    BY DistType, RingAssumption DEF ProducerInv, written, Slots
  <2>1. CASE written = 0
    <3>1. head' = head
      BY <1>6, <2>1, DistType DEF PushPublish, written
    <3>2. SubSeq(items, 1, Len(items)) = items
      OBVIOUS
    <3>3. items' = items
      BY <1>6, <2>1, <3>2 DEF PushPublish
    <3>4. Published' = Published
      BY <1>6, <3>1 DEF PushPublish, Published
    <3> QED
      BY <1>0, <1>6, <3>1, <3>3, <3>4 DEF PushPublish
  <2>2. CASE written # 0
    <3>1. Dist(tail, pHead) = Dist(tail, head) + written /\ Dist(tail, head) \in Nat
      BY RingAssumption, SMT DEF InOrder, Dist, Slots, written
    <3>2. Dist(tail, pHead) <= N - 1
      BY DistType, RingAssumption DEF Slots
    <3>3. Published' = [k \in 1 .. Dist(tail, pHead) |-> buf[Plus(tail, k - 1)]]
      BY <1>6 DEF PushPublish, Published
    <3>4. SubSeq(items, 1, written) = [k \in 1 .. written |-> items[k]]
      BY <2>0
    <3>5. ASSUME NEW k \in 1 .. written
          PROVE  buf[Plus(tail, Dist(tail, head) + k - 1)] = items[k]
      <4>1. Plus(tail, Dist(tail, head) + k - 1) = Plus(head, k - 1)
        BY RingAssumption, SMT DEF InOrder, Dist, Plus, Slots, written
      <4> QED
        BY <4>1 DEF ContentInv, written
    <3>6. Published' = Published \o SubSeq(items, 1, written)
      <4> DEFINE front == SubSeq(items, 1, written)
      <4>1. front \in Seq(Messages) /\ Len(front) = written
        BY <2>0
      <4> DEFINE whole == Published \o front
      <4> HIDE DEF front
      <4>2. /\ whole \in Seq(Messages)
            /\ Len(whole) = Len(Published) + Len(front)
            /\ \A k \in 1 .. Len(Published) + Len(front) :
                 whole[k] = IF k <= Len(Published) THEN Published[k]
                                                   ELSE front[k - Len(Published)]
        BY <4>1, PublishedType, ConcatProperties
      <4> HIDE DEF whole
      <4>3. ASSUME NEW k \in 1 .. Dist(tail, head) + written
            PROVE  buf[Plus(tail, k - 1)]
                     = IF k <= Dist(tail, head) THEN Published[k]
                       ELSE front[k - Dist(tail, head)]
        <5>1. CASE k <= Dist(tail, head)
          BY <5>1, <3>1 DEF Published
        <5>2. CASE ~(k <= Dist(tail, head))
          <6> DEFINE j == k - Dist(tail, head)
          <6>1. j \in 1 .. written /\ k - 1 = Dist(tail, head) + j - 1
            BY <5>2, <3>1, <2>0
          <6>2. buf[Plus(tail, k - 1)] = items[j]
            BY <6>1, <3>5
          <6> QED
            BY <6>1, <6>2, <3>4, <5>2 DEF front
        <5> QED
          BY <5>1, <5>2
      <4>4. /\ Len(whole) = Dist(tail, head) + written
            /\ \A k \in 1 .. Dist(tail, head) + written : buf[Plus(tail, k - 1)] = whole[k]
        BY <4>1, <4>2, <4>3, PublishedType
      <4>5. \A k \in 1 .. Dist(tail, head) + written : whole[k] \in Messages
        BY <4>2, <4>4
      <4>6. Published' \in Seq(Messages) /\ Len(Published') = Len(whole)
        <5> DEFINE n == Dist(tail, head) + written
        <5>1. n \in Nat /\ Len(whole) = n
          BY <2>0, <3>1, <4>4
        <5>2. Published' = [k \in 1 .. n |-> buf[Plus(tail, k - 1)]]
          BY <3>1, <3>3
        <5>3. \A k \in 1 .. n : buf[Plus(tail, k - 1)] \in Messages
          BY <4>4, <4>5
        <5> HIDE DEF n
        <5> QED
          BY <5>1, <5>2, <5>3
      <4>7. \A k \in 1 .. Len(Published') : Published'[k] = whole[k]
        BY <3>1, <3>3, <4>4, <4>6
      <4>8. Published' = whole
        BY <4>2, <4>6, <4>7, SeqEqual
      <4> QED
        BY <4>8 DEF whole, front
    <3>7. written \in 1 .. MaxBulk
      BY <2>0, <2>2, RingAssumption DEF ProducerInv
    <3>8. Promise!Accept(written)
      BY <1>6, <2>0, <3>1, <3>2, <3>6, PublishedType, RingAssumption
         DEF PushPublish, Promise!Accept, Promise!FirstOf, Promise!AllBut
    <3> QED
      BY <3>7, <3>8 DEF Promise!Next, Promise!AcceptSome
  <2> QED
    BY <2>1, <2>2
<1> QED
  BY <1>1, <1>2, <1>3, <1>4, <1>5, <1>6 DEF Produce

\* A consumer's step asks, is handed what it has copied out, or is not seen.
LEMMA ConsumeRefines == RingIInv /\ Consume => [Promise!Next]_(Promise!vars)
<1> SUFFICES ASSUME RingIInv, Consume PROVE [Promise!Next]_(Promise!vars)
  OBVIOUS
<1> USE DEF RingIInv, TypeOK, producer
<1>1. ASSUME NEW n \in 1 .. MaxBulk, PopBulk(n) PROVE Promise!Next
  BY <1>1 DEF PopBulk, Published, Promise!Ask, Promise!Next
<1>2. CASE PopTest
  BY <1>2 DEF PopTest, Published, Promise!vars
<1>3. ASSUME NEW i \in Slots, PopReload(i) PROVE UNCHANGED Promise!vars
  BY <1>3 DEF PopReload, Published, Promise!vars
<1>4. CASE PopRead
  BY <1>4 DEF PopRead, Published, Promise!vars
<1>5. CASE PopRelease
  <2>0. /\ Len(dst) = Dist(tail, cTail)
        /\ Len(dst) \in Nat /\ Len(dst) <= MaxBulk
    BY <1>5, RingAssumption DEF PopRelease, ConsumerInv
  <2>1. CASE dst = <<>>
    <3>1. cTail = tail
      BY <2>0, <2>1, DistType
    <3> QED
      BY <1>5, <2>1, <3>1 DEF PopRelease, Published, Promise!vars
  <2>2. CASE dst # <<>>
    <3>1. Len(dst) \in 1 .. MaxBulk
      BY <2>0, <2>2, RingAssumption
    <3>2. /\ Dist(tail, head) = Len(dst) + Dist(cTail, head)
          /\ Dist(cTail, head) \in Nat
      BY <2>0, RingAssumption, SMT DEF InOrder, Dist, Slots
    <3>3. Len(dst) <= Len(Published)
      BY <2>0, <3>2, PublishedType
    <3>4. dst = SubSeq(Published, 1, Len(dst))
      <4>1. \A k \in 1 .. Len(dst) : Published[k] = dst[k] /\ Published[k] \in Messages
        BY <1>5, <2>0, <3>2 DEF PopRelease, ContentInv, Published
      <4>2. /\ SubSeq(Published, 1, Len(dst)) \in Seq(Messages)
            /\ Len(SubSeq(Published, 1, Len(dst))) = Len(dst)
            /\ \A k \in 1 .. Len(dst) : SubSeq(Published, 1, Len(dst))[k] = Published[k]
        BY <2>0, <3>3, PublishedType
      <4> QED
        BY <4>1, <4>2, SeqEqual
    <3>5. Published' = SubSeq(Published, Len(dst) + 1, Len(Published))
      <4> DEFINE rest == SubSeq(Published, Len(dst) + 1, Len(Published))
      <4>1. Published' = [k \in 1 .. Dist(cTail, head) |-> buf[Plus(cTail, k - 1)]]
        BY <1>5 DEF PopRelease, Published
      <4>2. /\ rest \in Seq(Messages)
            /\ Len(rest) = Dist(cTail, head)
            /\ \A k \in 1 .. Dist(cTail, head) : rest[k] = Published[Len(dst) + k]
        BY <2>0, <3>2, <3>3, PublishedType
      <4>3. ASSUME NEW k \in 1 .. Dist(cTail, head)
            PROVE  buf[Plus(cTail, k - 1)] = rest[k]
        <5>1. Plus(cTail, k - 1) = Plus(tail, Len(dst) + k - 1)
          BY <2>0, RingAssumption, SMT DEF InOrder, Dist, Plus, Slots
        <5>2. Published[Len(dst) + k] = buf[Plus(tail, Len(dst) + k - 1)]
          BY <2>0, <3>2 DEF Published
        <5> QED
          BY <4>2, <5>1, <5>2
      <4>4. \A k \in 1 .. Dist(cTail, head) : rest[k] \in Messages
        BY <4>2
      <4> HIDE DEF rest
      <4>5. Published' \in Seq(Messages) /\ Len(Published') = Dist(cTail, head)
        BY <3>2, <4>1, <4>3, <4>4
      <4>6. \A k \in 1 .. Len(Published') : Published'[k] = rest[k]
        BY <4>1, <4>3, <4>5
      <4>7. Published' = rest
        BY <4>2, <4>5, <4>6, SeqEqual
      <4> QED
        BY <4>7 DEF rest
    <3>6. Promise!Deliver(Len(dst))
      BY <1>5, <3>3, <3>4, <3>5
         DEF PopRelease, Promise!Deliver, Promise!FirstOf, Promise!AllBut
    <3> QED
      BY <3>1, <3>6 DEF Promise!Next, Promise!DeliverSome
  <2> QED
    BY <2>1, <2>2
<1> QED
  BY <1>1, <1>2, <1>3, <1>4, <1>5 DEF Consume

\* The ring is a bounded FIFO: whatever the interleaving and however old the
\* cached indices, every message pushed is popped once, in order.
THEOREM RingKeepsPromise == RingSpec => KeepsPromise
<1>1. RingIInv /\ [RingNext]_ringVars => [Promise!Next]_(Promise!vars)
  <2>1. UNCHANGED ringVars => UNCHANGED Promise!vars
    BY DEF ringVars, producer, consumer, Promise!vars, Published
  <2> QED
    BY <2>1, ProduceRefines, ConsumeRefines DEF RingNext
<1> QED
  BY InitRefines, RingInvariant, <1>1, PTL DEF RingSpec, KeepsPromise, Promise!Spec

-----------------------------------------------------------------------------
(***************************************************************************)
(* The shards for any number of them, any rings, batches and feed: a book is  *)
(* a prefix of its symbol's commands in feed order, and nothing is left in a   *)
(* ring when the last shard is joined.                                       *)
(***************************************************************************)

Steps == {"pop", "apply", "stop?", "empty?", "left"}

\* The commands of its ring a shard has given to its books.
Applied(s) == taken[s] - Len(batch[s])

FeedInv ==
  /\ feed \in Seq(Locates) /\ pushed \in 0 .. Len(feed)
  /\ phase \in {"feeding", "stopping", "done"} /\ joined \in 0 .. NumShards
  /\ ring \in [Shard -> Seq(Nat)] /\ stop \in [Shard -> BOOLEAN]
  /\ taken \in [Shard -> Nat] /\ seen \in [Shard -> Nat]
  /\ pc \in [Shard -> Steps] /\ batch \in [Shard -> Seq(Nat)] /\ DOMAIN books = Shard

\* A shard has taken no more than it has seen, and not seen more than there is.
SeenInv ==
  \A s \in Shard : taken[s] <= seen[s] /\ seen[s] <= Len(ring[s])

\* A ring is what was pushed of its shard's symbols, in feed order.
RingInv ==
  \A s \in Shard :
    /\ \A j, k \in 1 .. Len(ring[s]) : j < k => ring[s][j] < ring[s][k]
    /\ \A k \in 1 .. Len(ring[s]) : ring[s][k] \in 1 .. pushed /\ ShardOf(feed[ring[s][k]]) = s
    /\ \A i \in 1 .. pushed :
         ShardOf(feed[i]) = s => \E k \in 1 .. Len(ring[s]) : ring[s][k] = i

\* A batch is the last of what was taken.
BatchInv ==
  \A s \in Shard :
    /\ Len(batch[s]) <= taken[s]
    /\ \A k \in 1 .. Len(batch[s]) : batch[s][k] = ring[s][Applied(s) + k]
    /\ pc[s] = "apply" <=> Len(batch[s]) > 0

\* A book holds what was applied of its symbol, in order.
BookOf(s, l) ==
  LET b == books[s][l] IN
  /\ b \in Seq(Nat) /\ Len(b) > 0
  /\ \A j, k \in 1 .. Len(b) : j < k => b[j] < b[k]
  /\ \A j \in 1 .. Len(b) : \E k \in 1 .. Applied(s) : ring[s][k] = b[j] /\ feed[b[j]] = l
  /\ \A k \in 1 .. Applied(s) : feed[ring[s][k]] = l => \E j \in 1 .. Len(b) : b[j] = ring[s][k]

BooksInv ==
  \A s \in Shard :
    /\ \A l \in DOMAIN books[s] : BookOf(s, l)
    /\ \A k \in 1 .. Applied(s) : feed[ring[s][k]] \in DOMAIN books[s]

\* Once a shard has seen its stop, its ring grows no more and is all seen.
StopInv ==
  /\ phase # "feeding" => pushed = Len(feed)
  /\ phase # "done" => joined < NumShards
  /\ phase = "done" => joined = NumShards
  /\ \A s \in Shard :
       /\ stop[s] => phase # "feeding"
       /\ pc[s] = "empty?" => stop[s] /\ seen[s] = Len(ring[s])
       /\ pc[s] = "left" => stop[s] /\ taken[s] = Len(ring[s])
       /\ s < joined => pc[s] = "left"

IInv == FeedInv /\ SeenInv /\ RingInv /\ BatchInv /\ BooksInv /\ StopInv

LEMMA ShardOfType ==
  ASSUME NEW l \in Locates PROVE ShardOf(l) \in Shard
  BY ShardsAssumption DEF ShardOf, Shard

LEMMA InitIInv == Init => IInv
<1> SUFFICES ASSUME Init PROVE IInv
  OBVIOUS
<1> USE DEF Init
<1>1. FeedInv
  BY ShardsAssumption DEF FeedInv, Steps
<1>2. SeenInv /\ RingInv /\ BatchInv /\ StopInv
  BY ShardsAssumption DEF SeenInv, RingInv, BatchInv, StopInv, Shard
<1>3. BooksInv
  BY DEF BooksInv, Applied
<1> QED
  BY <1>1, <1>2, <1>3 DEF IInv

\* A book is what it was when what was applied is what it was.
LEMMA BookKept ==
  ASSUME NEW s \in Shard, NEW l, BookOf(s, l), books'[s] = books[s], Applied(s)' = Applied(s),
         \A k \in 1 .. Applied(s) :
           ring'[s][k] = ring[s][k] /\ feed'[ring[s][k]] = feed[ring[s][k]]
  PROVE  BookOf(s, l)'
<1> DEFINE b == books[s][l]
<1>1. /\ b \in Seq(Nat) /\ Len(b) > 0
      /\ \A j, k \in 1 .. Len(b) : j < k => b[j] < b[k]
      /\ \A j \in 1 .. Len(b) : \E k \in 1 .. Applied(s) : ring[s][k] = b[j] /\ feed[b[j]] = l
      /\ \A k \in 1 .. Applied(s) :
           feed[ring[s][k]] = l => \E j \in 1 .. Len(b) : b[j] = ring[s][k]
  BY DEF BookOf
<1>2. b' = b
  OBVIOUS
<1> HIDE DEF b
<1>3. \A j \in 1 .. Len(b) : \E k \in 1 .. Applied(s) : ring'[s][k] = b[j] /\ feed'[b[j]] = l
  BY <1>1
<1>4. \A k \in 1 .. Applied(s) :
        feed'[ring'[s][k]] = l => \E j \in 1 .. Len(b) : b[j] = ring'[s][k]
  BY <1>1
<1>5. /\ b' \in Seq(Nat) /\ Len(b') > 0
      /\ \A j, k \in 1 .. Len(b') : j < k => b'[j] < b'[k]
      /\ \A j \in 1 .. Len(b') :
           \E k \in 1 .. Applied(s)' : ring'[s][k] = b'[j] /\ feed'[b'[j]] = l
      /\ \A k \in 1 .. Applied(s)' :
           feed'[ring'[s][k]] = l => \E j \in 1 .. Len(b') : b'[j] = ring'[s][k]
  BY <1>1, <1>2, <1>3, <1>4
<1> QED
  BY <1>5 DEF BookOf, b

-----------------------------------------------------------------------------
(***************************************************************************)
(* The feed thread.                                                         *)
(***************************************************************************)

LEMMA DecodeIInv == ASSUME IInv, NEW l \in Locates, Decode(l) PROVE IInv'
<1> USE DEF Decode, shard
<1>1. /\ feed' \in Seq(Locates) /\ Len(feed') = Len(feed) + 1 /\ pushed = Len(feed)
      /\ \A i \in 1 .. pushed : feed'[i] = feed[i]
  BY DEF IInv, FeedInv
<1>2. FeedInv'
  BY <1>1 DEF IInv, FeedInv
<1>3. SeenInv' /\ StopInv'
  BY DEF IInv, SeenInv, StopInv
<1>4. RingInv'
  <2>1. \A s \in Shard : \A k \in 1 .. Len(ring[s]) : ring[s][k] \in 1 .. pushed
    BY DEF IInv, RingInv
  <2>2. ring' = ring /\ pushed' = pushed
    OBVIOUS
  <2> QED
    BY <1>1, <2>1, <2>2 DEF IInv, RingInv
<1>5. BatchInv'
  BY DEF IInv, BatchInv, Applied
<1>6. \A s \in Shard : \A k \in 1 .. Applied(s) : feed'[ring[s][k]] = feed[ring[s][k]]
  <2> SUFFICES ASSUME NEW s \in Shard, NEW k \in 1 .. Applied(s)
               PROVE  feed'[ring[s][k]] = feed[ring[s][k]]
    OBVIOUS
  <2>1. k \in 1 .. Len(ring[s])
    BY DEF IInv, FeedInv, SeenInv, Applied, BatchInv
  <2> QED
    BY <1>1, <2>1 DEF IInv, RingInv
<1>7. BooksInv'
  <2> SUFFICES ASSUME NEW s \in Shard
               PROVE  /\ \A m \in DOMAIN books[s] : BookOf(s, m)'
                      /\ \A k \in 1 .. Applied(s) : feed'[ring[s][k]] \in DOMAIN books[s]
    BY DEF BooksInv, Applied
  <2>1. ASSUME NEW m \in DOMAIN books[s] PROVE BookOf(s, m)'
    <3>1. BookOf(s, m) /\ books'[s] = books[s] /\ Applied(s)' = Applied(s) /\ ring' = ring
      BY DEF IInv, BooksInv, Applied
    <3> QED
      BY <1>6, <3>1, BookKept
  <2> QED
    BY <1>6, <2>1 DEF IInv, BooksInv
<1> QED
  BY <1>2, <1>3, <1>4, <1>5, <1>7 DEF IInv

LEMMA PushIInv == ASSUME IInv, Push PROVE IInv'
<1> DEFINE i == pushed + 1
           s == ShardOf(feed[i])
<1>1. /\ phase = "feeding" /\ i \in 1 .. Len(feed) /\ s \in Shard
      /\ ring' = [ring EXCEPT ![s] = Append(@, i)] /\ pushed' = i
      /\ UNCHANGED <<feed, phase, joined, stop, taken, seen, pc, batch, books>>
  BY ShardOfType DEF Push, IInv, FeedInv, shard
<1>2. /\ ring' \in [Shard -> Seq(Nat)]
      /\ Len(ring'[s]) = Len(ring[s]) + 1 /\ ring'[s][Len(ring[s]) + 1] = i
      /\ \A r \in Shard \ {s} : ring'[r] = ring[r]
      /\ \A r \in Shard : /\ Len(ring[r]) \in Nat /\ Len(ring'[r]) >= Len(ring[r])
                          /\ \A k \in 1 .. Len(ring[r]) : ring'[r][k] = ring[r][k]
  BY <1>1 DEF IInv, FeedInv
<1> HIDE DEF s, i
<1>3. FeedInv'
  BY <1>1, <1>2 DEF IInv, FeedInv, i
<1>4. SeenInv'
  BY <1>1, <1>2 DEF IInv, SeenInv, FeedInv
<1>5. RingInv'
  <2> SUFFICES ASSUME NEW r \in Shard
               PROVE
    /\ \A j, k \in 1 .. Len(ring'[r]) : j < k => ring'[r][j] < ring'[r][k]
    /\ \A k \in 1 .. Len(ring'[r]) : ring'[r][k] \in 1 .. i /\ ShardOf(feed[ring'[r][k]]) = r
    /\ \A n \in 1 .. i :
         ShardOf(feed[n]) = r => \E k \in 1 .. Len(ring'[r]) : ring'[r][k] = n
    BY <1>1 DEF RingInv
  <2>1. i \in Nat /\ i = pushed + 1 /\ pushed \in Nat /\ s = ShardOf(feed[i])
    BY DEF IInv, FeedInv, i, s
  <2>2. CASE r = s
    <3>1. \A k \in 1 .. Len(ring'[s]) :
             \/ k \in 1 .. Len(ring[s]) /\ ring'[s][k] = ring[s][k]
             \/ k = Len(ring[s]) + 1 /\ ring'[s][k] = i
      BY <1>1, <1>2
    <3>2. \A k \in 1 .. Len(ring[s]) : ring[s][k] \in 1 .. pushed /\ ShardOf(feed[ring[s][k]]) = s
      BY <1>1 DEF IInv, RingInv
    <3>3. \A j, k \in 1 .. Len(ring'[s]) : j < k => ring'[s][j] < ring'[s][k]
      BY <1>1, <1>2, <2>1, <3>1, <3>2 DEF IInv, RingInv
    <3>4. \A k \in 1 .. Len(ring'[s]) : ring'[s][k] \in 1 .. i /\ ShardOf(feed[ring'[s][k]]) = s
      BY <2>1, <3>1, <3>2
    <3>5. \A n \in 1 .. i :
            ShardOf(feed[n]) = s => \E k \in 1 .. Len(ring'[s]) : ring'[s][k] = n
      <4> SUFFICES ASSUME NEW n \in 1 .. i, ShardOf(feed[n]) = s
                   PROVE  \E k \in 1 .. Len(ring'[s]) : ring'[s][k] = n
        OBVIOUS
      <4>1. CASE n = i
        <5>1. Len(ring[s]) + 1 \in 1 .. Len(ring'[s])
          BY <1>1, <1>2
        <5> QED
          BY <1>2, <4>1, <5>1
      <4>2. CASE n # i
        <5>1. PICK k \in 1 .. Len(ring[s]) : ring[s][k] = n
          BY <1>1, <2>1, <4>2 DEF IInv, RingInv
        <5>2. k \in 1 .. Len(ring'[s]) /\ ring'[s][k] = n
          BY <1>1, <1>2, <5>1
        <5> QED
          BY <5>2
      <4> QED
        BY <4>1, <4>2
    <3> QED
      BY <2>2, <3>3, <3>4, <3>5
  <2>3. CASE r # s
    <3>1. ring'[r] = ring[r]
      BY <1>2, <2>3
    <3>2. \A n \in 1 .. i : ShardOf(feed[n]) = r => n \in 1 .. pushed
      BY <2>1, <2>3
    <3> QED
      BY <2>1, <3>1, <3>2 DEF IInv, RingInv
  <2> QED
    BY <2>2, <2>3
<1>6. \A r \in Shard : Applied(r) \in Nat /\ Applied(r) <= Len(ring[r])
                       /\ Applied(r)' = Applied(r) /\ taken[r] \in Nat /\ taken[r] <= Len(ring[r])
                       /\ Len(batch[r]) \in Nat /\ Len(batch[r]) <= taken[r]
  BY <1>1 DEF IInv, FeedInv, SeenInv, BatchInv, Applied
<1>7. BatchInv'
  <2> SUFFICES ASSUME NEW r \in Shard, NEW k \in 1 .. Len(batch[r])
               PROVE  batch[r][k] = ring'[r][Applied(r) + k]
    BY <1>1, <1>6 DEF IInv, BatchInv
  <2>1. Applied(r) + k \in 1 .. Len(ring[r])
    BY <1>6 DEF Applied
  <2> QED
    BY <1>2, <2>1 DEF IInv, BatchInv
<1>8. BooksInv'
  <2> SUFFICES ASSUME NEW r \in Shard
               PROVE  /\ \A m \in DOMAIN books[r] : BookOf(r, m)'
                      /\ \A k \in 1 .. Applied(r) : feed[ring'[r][k]] \in DOMAIN books[r]
    BY <1>1, <1>6 DEF BooksInv
  <2>1. \A k \in 1 .. Applied(r) : ring'[r][k] = ring[r][k]
    BY <1>2, <1>6
  <2>2. ASSUME NEW m \in DOMAIN books[r] PROVE BookOf(r, m)'
    <3>1. BookOf(r, m) /\ books'[r] = books[r] /\ Applied(r)' = Applied(r) /\ feed' = feed
      BY <1>1, <1>6 DEF IInv, BooksInv
    <3> QED
      BY <2>1, <3>1, BookKept
  <2> QED
    BY <2>1, <2>2 DEF IInv, BooksInv
<1>9. StopInv'
  BY <1>1, <1>2 DEF IInv, StopInv
<1> QED
  BY <1>3, <1>4, <1>5, <1>7, <1>8, <1>9 DEF IInv

\* The end of the feed, and stopping and joining a shard, leave every ring alone.
LEMMA EndIInv == ASSUME IInv, EndOfFeed \/ Stop \/ Join PROVE IInv'
<1>1. UNCHANGED <<feed, pushed, ring, taken, seen, pc, batch, books>>
  BY DEF EndOfFeed, Stop, Join, feeder, shard
<1>2. SeenInv' /\ RingInv' /\ BatchInv' /\ BooksInv'
  <2>1. SeenInv' /\ RingInv' /\ BatchInv'
    BY <1>1 DEF IInv, SeenInv, RingInv, BatchInv, Applied
  <2>2. ASSUME NEW s \in Shard, NEW m \in DOMAIN books[s] PROVE BookOf(s, m)'
    BY <1>1 DEF IInv, BooksInv, BookOf, Applied
  <2>3. BooksInv'
    BY <1>1, <2>2 DEF IInv, BooksInv, Applied
  <2> QED
    BY <2>1, <2>3
<1>3. FeedInv'
  <2>1. NumShards \in Nat /\ joined \in Nat /\ (phase # "done" => joined < NumShards)
    BY ShardsAssumption DEF IInv, FeedInv, StopInv
  <2>2. phase' \in {"feeding", "stopping", "done"} /\ joined' \in 0 .. NumShards
        /\ stop' \in [Shard -> BOOLEAN]
    <3>1. CASE EndOfFeed
      BY <2>1, <3>1 DEF IInv, FeedInv, EndOfFeed
    <3>2. CASE Stop
      BY <2>1, <3>2 DEF IInv, FeedInv, Stop, feeder
    <3>3. CASE Join
      BY <2>1, <3>3 DEF IInv, FeedInv, Join
    <3> QED
      BY <3>1, <3>2, <3>3
  <2> QED
    BY <1>1, <2>2 DEF IInv, FeedInv
<1>4. StopInv'
  <2>1. CASE EndOfFeed
    <3>1. joined # NumShards
      BY <2>1, ShardsAssumption DEF IInv, StopInv, FeedInv, EndOfFeed
    <3> QED
      BY <1>1, <2>1, <3>1 DEF IInv, StopInv, FeedInv, EndOfFeed
  <2>2. CASE Stop
    BY <1>1, <2>2 DEF IInv, StopInv, FeedInv, Stop, feeder
  <2>3. CASE Join
    <3>1. joined < NumShards /\ joined' = joined + 1 /\ pc[joined] = "left"
          /\ phase = "stopping" /\ phase' = (IF joined' = NumShards THEN "done" ELSE phase)
          /\ UNCHANGED stop
      BY <2>3 DEF IInv, StopInv, Join
    <3>2. \A s \in Shard : s < joined' => pc[s] = "left"
      <4>1. joined \in Nat /\ Shard \subseteq Int
        BY DEF IInv, FeedInv, Shard
      <4> SUFFICES ASSUME NEW s \in Shard, s < joined' PROVE pc[s] = "left"
        OBVIOUS
      <4>2. s < joined \/ s = joined
        BY <3>1, <4>1
      <4> QED
        BY <3>1, <4>2 DEF IInv, StopInv
    <3>3. phase' # "done" => joined' < NumShards
      BY <3>1, ShardsAssumption DEF IInv, FeedInv
    <3> QED
      BY <1>1, <3>1, <3>2, <3>3 DEF IInv, StopInv
  <2> QED
    BY <2>1, <2>2, <2>3
<1> QED
  BY <1>2, <1>3, <1>4 DEF IInv

-----------------------------------------------------------------------------
(***************************************************************************)
(* The loop of a shard.                                                     *)
(***************************************************************************)

\* What the shards have taken and seen of their rings, in numbers.
Counted(s) ==
  /\ Applied(s) \in Nat /\ Applied(s) <= taken[s] /\ taken[s] \in Nat /\ seen[s] \in Nat
  /\ taken[s] <= seen[s] /\ seen[s] <= Len(ring[s]) /\ Len(ring[s]) \in Nat
  /\ Len(batch[s]) \in Nat /\ Applied(s) = taken[s] - Len(batch[s])

LEMMA Counts == IInv => \A s \in Shard : Counted(s)
  BY DEF IInv, FeedInv, SeenInv, BatchInv, Applied, Counted

\* What pop_bulk hands out of a ring.
LEMMA Taking ==
  ASSUME NEW q \in Seq(Nat), NEW a \in Nat, NEW n \in Nat, n > 0, a + n <= Len(q)
  PROVE  LET r == SubSeq(q, a + 1, a + n) IN
         r \in Seq(Nat) /\ Len(r) = n /\ \A k \in 1 .. n : r[k] = q[a + k]
<1> DEFINE r == SubSeq(q, a + 1, a + n)
<1>1. \A k \in a + 1 .. a + n : q[k] \in Nat /\ k \in 1 .. Len(q)
  OBVIOUS
<1>2. r \in Seq(Nat)
  BY <1>1
<1>3. Len(r) = n
  BY <1>1
<1>4. \A k \in 1 .. n : r[k] = q[a + k]
  BY <1>1
<1> QED
  BY <1>2, <1>3, <1>4

LEMMA PopIInv == ASSUME IInv, NEW s \in Shard, Pop(s) PROVE IInv'
<1>0. \A r \in Shard : Counted(r)
  BY Counts
<1>1. PICK upto \in seen[s] .. Len(ring[s]) :
        LET n == Least(upto - taken[s], MaxBatch) IN
        /\ n > 0
        /\ seen' = [seen EXCEPT ![s] = upto]
        /\ taken' = [taken EXCEPT ![s] = @ + n]
        /\ batch' = [batch EXCEPT ![s] = SubSeq(ring[s], taken[s] + 1, taken[s] + n)]
        /\ pc' = [pc EXCEPT ![s] = "apply"]
  BY DEF Pop
<1> DEFINE n == Least(upto - taken[s], MaxBatch)
           taking == SubSeq(ring[s], taken[s] + 1, taken[s] + n)
<1>2. UNCHANGED <<feed, pushed, phase, joined, ring, stop, books>>
  BY DEF Pop, feeder
<1>3. /\ n \in Nat /\ n > 0 /\ taken[s] + n <= upto /\ upto \in Nat /\ upto <= Len(ring[s])
      /\ seen[s] <= upto /\ taken[s] \in Nat /\ ring[s] \in Seq(Nat)
  <2>1. /\ taken[s] \in Nat /\ seen[s] \in Nat /\ Len(ring[s]) \in Nat /\ taken[s] <= seen[s]
        /\ ring[s] \in Seq(Nat)
    BY <1>0 DEF Counted, IInv, FeedInv
  <2>2. upto \in Nat /\ seen[s] <= upto /\ upto <= Len(ring[s]) /\ taken[s] <= upto
    BY <2>1
  <2>3. n > 0
    BY <1>1
  <2>4. n \in Nat /\ n <= upto - taken[s]
    BY <2>1, <2>2, ShardsAssumption DEF Least
  <2> QED
    BY <2>1, <2>2, <2>3, <2>4
<1>5. /\ seen' = [seen EXCEPT ![s] = upto] /\ taken' = [taken EXCEPT ![s] = @ + n]
      /\ batch' = [batch EXCEPT ![s] = taking] /\ pc' = [pc EXCEPT ![s] = "apply"]
  BY <1>1
<1> HIDE DEF n
<1>4. taking \in Seq(Nat) /\ Len(taking) = n /\ \A k \in 1 .. n : taking[k] = ring[s][taken[s] + k]
  <2>1. taken[s] + n <= Len(ring[s])
    BY <1>3
  <2>2. taken[s] \in Nat /\ n \in Nat /\ n > 0 /\ ring[s] \in Seq(Nat)
    BY <1>3
  <2> QED
    BY <2>1, <2>2, Taking
<1> HIDE DEF taking
<1>6. FeedInv'
  <2>1. taken' \in [Shard -> Nat]
    BY <1>3, <1>5 DEF IInv, FeedInv
  <2>2. seen' \in [Shard -> Nat] /\ pc' \in [Shard -> Steps]
    BY <1>3, <1>5 DEF IInv, FeedInv, Steps
  <2>3. batch' \in [Shard -> Seq(Nat)]
    BY <1>4, <1>5 DEF IInv, FeedInv
  <2> QED
    BY <1>2, <2>1, <2>2, <2>3 DEF IInv, FeedInv
<1>7. pc[s] = "pop" /\ Len(batch[s]) = 0
  <2>1. Len(batch[s]) \in Nat /\ pc[s] = "pop"
    BY <1>0 DEF Counted, Pop
  <2> QED
    BY <2>1 DEF IInv, BatchInv
<1>8. \A r \in Shard : Applied(r)' = Applied(r)
  <2>1. \A r \in Shard \ {s} : taken'[r] = taken[r] /\ batch'[r] = batch[r]
    BY <1>5 DEF IInv, FeedInv
  <2>2. taken'[s] = taken[s] + n /\ Len(batch'[s]) = n
    BY <1>4, <1>5 DEF IInv, FeedInv
  <2>3. taken'[s] - Len(batch'[s]) = taken[s] - Len(batch[s])
    BY <1>3, <1>7, <2>2
  <2> QED
    BY <2>1, <2>3 DEF Applied
<1>9. SeenInv'
  BY <1>2, <1>3, <1>5 DEF IInv, SeenInv, FeedInv
<1>10. RingInv'
  BY <1>2 DEF IInv, RingInv
<1>11. BatchInv'
  <2> SUFFICES ASSUME NEW r \in Shard
               PROVE /\ Len(batch'[r]) <= taken'[r]
                     /\ \A k \in 1 .. Len(batch'[r]) : batch'[r][k] = ring[r][Applied(r) + k]
                     /\ pc'[r] = "apply" <=> Len(batch'[r]) > 0
    BY <1>2, <1>8 DEF BatchInv
  <2>1. CASE r = s
    <3>1. batch'[s] = taking /\ taken'[s] = taken[s] + n /\ pc'[s] = "apply"
      BY <1>5 DEF IInv, FeedInv
    <3>2. Applied(s) = taken[s]
      BY <1>3, <1>7 DEF Applied
    <3>3. \A k \in 1 .. Len(batch'[s]) : batch'[s][k] = ring[s][Applied(s) + k]
      BY <1>4, <3>1, <3>2
    <3>4. Len(batch'[s]) = n
      BY <1>4, <3>1
    <3>5. Len(batch'[s]) <= taken'[s] /\ Len(batch'[s]) > 0
      BY <1>3, <3>1, <3>4
    <3> QED
      BY <2>1, <3>1, <3>3, <3>5
  <2>2. CASE r # s
    <3>1. batch'[r] = batch[r] /\ taken'[r] = taken[r] /\ pc'[r] = pc[r]
      BY <1>5, <2>2 DEF IInv, FeedInv
    <3> QED
      BY <3>1 DEF IInv, BatchInv
  <2> QED
    BY <2>1, <2>2
<1>12. BooksInv'
  <2>1. ASSUME NEW r \in Shard, NEW m \in DOMAIN books[r] PROVE BookOf(r, m)'
    <3>1. BookOf(r, m) /\ books' = books /\ Applied(r)' = Applied(r) /\ ring' = ring /\ feed' = feed
      BY <1>2, <1>8 DEF IInv, BooksInv
    <3> QED
      BY <3>1, BookKept
  <2> QED
    BY <1>2, <1>8, <2>1 DEF IInv, BooksInv
<1>13. StopInv'
  BY <1>2, <1>5, <1>7 DEF IInv, StopInv, FeedInv
<1> QED
  BY <1>6, <1>9, <1>10, <1>11, <1>12, <1>13 DEF IInv

\* A shard that finds nothing to pop looks at its stop, and at its ring again.
LEMMA LookIInv ==
  ASSUME IInv, NEW s \in Shard, PopNothing(s) \/ SeeStop(s) \/ MissStop(s) \/ TestEmpty(s)
  PROVE  IInv'
<1>0. \A r \in Shard : Counted(r)
  BY Counts
<1>1. UNCHANGED <<feed, pushed, phase, joined, ring, stop, taken, batch, books>>
  BY DEF PopNothing, SeeStop, MissStop, TestEmpty, feeder
<1>2. PICK at \in {"pop", "stop?", "empty?", "left"} : pc' = [pc EXCEPT ![s] = at]
  BY DEF PopNothing, SeeStop, MissStop, TestEmpty
<1>3. /\ seen' \in [Shard -> Nat]
      /\ \A r \in Shard : seen[r] <= seen'[r] /\ seen'[r] <= Len(ring[r])
  <2>1. CASE SeeStop(s)
    BY <2>1, <1>0 DEF SeeStop, IInv, FeedInv, Counted
  <2>2. CASE PopNothing(s) \/ MissStop(s) \/ TestEmpty(s)
    BY <2>2, <1>0 DEF PopNothing, MissStop, TestEmpty, IInv, FeedInv, Counted
  <2> QED
    BY <2>1, <2>2
<1>4. FeedInv'
  BY <1>1, <1>2, <1>3 DEF IInv, FeedInv, Steps
<1>5. SeenInv' /\ RingInv'
  <2>1. \A r \in Shard : taken[r] <= seen[r] /\ taken[r] \in Nat /\ seen[r] \in Nat
    BY <1>0 DEF Counted
  <2>2. \A r \in Shard : seen'[r] \in Nat
    BY <1>3
  <2>3. SeenInv'
    BY <1>1, <1>3, <2>1, <2>2 DEF SeenInv
  <2>4. RingInv'
    BY <1>1 DEF IInv, RingInv
  <2> QED
    BY <2>3, <2>4
<1>6. pc[s] \in {"pop", "stop?", "empty?"}
  BY DEF PopNothing, SeeStop, MissStop, TestEmpty
<1>7. BatchInv'
  BY <1>1, <1>2, <1>6 DEF IInv, BatchInv, FeedInv, Applied
<1>8. BooksInv'
  <2>1. ASSUME NEW r \in Shard, NEW m \in DOMAIN books[r] PROVE BookOf(r, m)'
    <3>1. BookOf(r, m) /\ books' = books /\ Applied(r)' = Applied(r) /\ ring' = ring /\ feed' = feed
      BY <1>1 DEF IInv, BooksInv, Applied
    <3> QED
      BY <3>1, BookKept
  <2> QED
    BY <1>1, <2>1 DEF IInv, BooksInv, Applied
<1>9. StopInv'
  <2>1. \A r \in Shard \ {s} : pc'[r] = pc[r] /\ seen'[r] = seen[r]
    BY <1>1, <1>2 DEF PopNothing, SeeStop, MissStop, TestEmpty, IInv, FeedInv
  <2>2. pc'[s] = "empty?" => stop[s] /\ seen'[s] = Len(ring[s])
    BY <1>1, <1>2 DEF PopNothing, SeeStop, MissStop, TestEmpty, IInv, FeedInv
  <2>3. pc'[s] = "left" => stop[s] /\ taken[s] = Len(ring[s])
    <3>1. CASE PopNothing(s) \/ SeeStop(s) \/ MissStop(s)
      BY <3>1 DEF PopNothing, SeeStop, MissStop, IInv, FeedInv
    <3>2. CASE TestEmpty(s)
      <4>1. pc[s] = "empty?" /\ stop[s] /\ seen[s] = Len(ring[s]) /\ Len(ring[s]) \in Nat
        BY <1>0, <3>2 DEF TestEmpty, IInv, StopInv, Counted
      <4>2. PICK upto \in seen[s] .. Len(ring[s]) :
              pc' = [pc EXCEPT ![s] = IF upto = taken[s] THEN "left" ELSE "pop"]
        BY <3>2 DEF TestEmpty
      <4>3. upto = Len(ring[s])
        BY <4>1, <4>2
      <4> QED
        BY <4>1, <4>2, <4>3 DEF IInv, FeedInv
    <3> QED
      BY <3>1, <3>2
  <2>4. pc[s] # "left"
    BY <1>6
  <2> QED
    BY <1>1, <2>1, <2>2, <2>3, <2>4 DEF IInv, StopInv
<1> QED
  BY <1>4, <1>5, <1>7, <1>8, <1>9 DEF IInv

\* A command applied joins the end of the book of its symbol.
LEMMA ApplyIInv == ASSUME IInv, NEW s \in Shard, Apply(s) PROVE IInv'
<1>0. \A r \in Shard : Counted(r)
  BY Counts
<1> DEFINE b == books[s]
           old(m) == IF m \in DOMAIN b THEN b[m] ELSE <<>>
<1>i. PICK i : i = Head(batch[s])
  OBVIOUS
<1>l. PICK l : l = feed[i]
  OBVIOUS
<1>q. PICK q : q = old(l)
  OBVIOUS
<1>n. PICK n : n = Applied(s)
  OBVIOUS
<1>1. UNCHANGED <<feed, pushed, phase, joined, ring, stop, taken, seen>>
  BY DEF Apply, feeder
<1>2. /\ pc[s] = "apply" /\ batch' = [batch EXCEPT ![s] = Tail(@)]
      /\ pc' = [pc EXCEPT ![s] = IF Len(batch[s]) = 1 THEN "pop" ELSE "apply"]
      /\ books' = [books EXCEPT ![s] =
                     [m \in DOMAIN b \union {l} |-> old(m) \o (IF m = l THEN <<i>> ELSE <<>>)]]
  BY <1>i, <1>l DEF Apply
<1>3. /\ batch[s] \in Seq(Nat) /\ Len(batch[s]) \in Nat /\ Len(batch[s]) > 0
      /\ taken[s] \in Nat /\ Len(ring[s]) \in Nat /\ taken[s] <= Len(ring[s])
      /\ n \in Nat /\ n = taken[s] - Len(batch[s]) /\ ring[s] \in Seq(Nat)
  <2>1. Len(batch[s]) > 0
    BY <1>2 DEF IInv, BatchInv
  <2>2. Counted(s) /\ batch[s] \in Seq(Nat) /\ ring[s] \in Seq(Nat)
    BY <1>0 DEF IInv, FeedInv
  <2>3. n = taken[s] - Len(batch[s]) /\ n \in Nat
    BY <1>n, <2>2 DEF Counted
  <2> QED
    BY <2>1, <2>2, <2>3 DEF Counted
<1>4. i = ring[s][n + 1] /\ n + 1 \in 1 .. Len(ring[s]) /\ i \in Nat
  <2>1. i = batch[s][1] /\ 1 \in 1 .. Len(batch[s]) /\ i \in Nat
    BY <1>3, <1>i
  <2>2. batch[s][1] = ring[s][n + 1]
    BY <1>n, <2>1 DEF IInv, BatchInv
  <2>3. n + 1 <= taken[s] /\ n + 1 >= 1
    BY <1>3
  <2>4. n + 1 \in 1 .. Len(ring[s])
    BY <1>3, <2>3
  <2> QED
    BY <2>1, <2>2, <2>4
<1>5. /\ batch'[s] \in Seq(Nat) /\ Len(batch'[s]) = Len(batch[s]) - 1
      /\ \A k \in 1 .. Len(batch'[s]) : batch'[s][k] = batch[s][k + 1]
      /\ \A r \in Shard \ {s} : batch'[r] = batch[r] /\ pc'[r] = pc[r] /\ books'[r] = books[r]
      /\ pc'[s] = IF Len(batch[s]) = 1 THEN "pop" ELSE "apply"
      /\ batch' \in [Shard -> Seq(Nat)] /\ DOMAIN books' = Shard
      /\ books'[s] = [m \in DOMAIN b \union {l} |-> old(m) \o (IF m = l THEN <<i>> ELSE <<>>)]
  <2>1. batch'[s] = Tail(batch[s]) /\ Tail(batch[s]) \in Seq(Nat)
    BY <1>2, <1>3 DEF IInv, FeedInv
  <2>2. batch' \in [Shard -> Seq(Nat)]
    BY <1>2, <2>1 DEF IInv, FeedInv
  <2>3. /\ Len(Tail(batch[s])) = Len(batch[s]) - 1
        /\ \A k \in 1 .. Len(batch[s]) - 1 : Tail(batch[s])[k] = batch[s][k + 1]
    BY <1>3
  <2>4. DOMAIN books' = Shard /\ DOMAIN pc = Shard /\ DOMAIN batch = Shard /\ DOMAIN books = Shard
    BY <1>2 DEF IInv, FeedInv
  <2>5. \A r \in Shard \ {s} : batch'[r] = batch[r] /\ pc'[r] = pc[r] /\ books'[r] = books[r]
    BY <1>2, <2>4
  <2>6. /\ pc'[s] = IF Len(batch[s]) = 1 THEN "pop" ELSE "apply"
        /\ books'[s] = [m \in DOMAIN b \union {l} |-> old(m) \o (IF m = l THEN <<i>> ELSE <<>>)]
    BY <1>2, <2>4
  <2> QED
    BY <2>1, <2>2, <2>3, <2>4, <2>5, <2>6
<1>6. Applied(s)' = n + 1 /\ \A r \in Shard \ {s} : Applied(r)' = Applied(r)
  <2>1. taken'[s] - Len(batch'[s]) = n + 1
    BY <1>1, <1>3, <1>5
  <2>2. \A r \in Shard \ {s} : taken'[r] = taken[r] /\ batch'[r] = batch[r]
    BY <1>1, <1>5
  <2> QED
    BY <2>1, <2>2 DEF Applied
<1>7. FeedInv'
  <2>1. pc' \in [Shard -> Steps]
    BY <1>2 DEF IInv, FeedInv, Steps
  <2> QED
    BY <1>1, <1>5, <2>1 DEF IInv, FeedInv
<1>8. SeenInv' /\ RingInv'
  BY <1>1 DEF IInv, SeenInv, RingInv
<1>9. BatchInv'
  <2> SUFFICES ASSUME NEW r \in Shard
               PROVE /\ Len(batch'[r]) <= taken[r]
                     /\ \A k \in 1 .. Len(batch'[r]) : batch'[r][k] = ring[r][Applied(r)' + k]
                     /\ pc'[r] = "apply" <=> Len(batch'[r]) > 0
    BY <1>1 DEF BatchInv
  <2>1. CASE r = s
    <3>1. ASSUME NEW k \in 1 .. Len(batch'[s]) PROVE batch'[s][k] = ring[s][n + 1 + k]
      <4>1. k + 1 \in 1 .. Len(batch[s]) /\ n + (k + 1) = n + 1 + k
        BY <1>3, <1>5
      <4>2. batch[s][k + 1] = ring[s][n + (k + 1)]
        BY <1>n, <4>1 DEF IInv, BatchInv
      <4> QED
        BY <1>5, <4>1, <4>2
    <3>2. Len(batch'[s]) <= taken[s] /\ (pc'[s] = "apply" <=> Len(batch'[s]) > 0)
      <4>1. Len(batch[s]) <= taken[s]
        BY DEF IInv, BatchInv
      <4>2. Len(batch'[s]) = Len(batch[s]) - 1
        BY <1>5
      <4>3. Len(batch'[s]) <= taken[s]
        BY <1>3, <4>1, <4>2
      <4>4. CASE Len(batch[s]) = 1
        BY <1>5, <4>2, <4>3, <4>4
      <4>5. CASE Len(batch[s]) # 1
        <5>1. \A k \in Nat : k = 0 \/ k = 1 \/ k >= 2
          OBVIOUS
        <5>2. Len(batch[s]) \in Nat /\ Len(batch[s]) # 0
          BY <1>3
        <5>3. Len(batch[s]) >= 2
          BY <4>5, <5>1, <5>2
        <5>4. Len(batch'[s]) > 0
          BY <1>3, <4>2, <5>3
        <5>5. pc'[s] = "apply"
          BY <1>5, <4>5
        <5> QED
          BY <4>3, <5>4, <5>5
      <4> QED
        BY <4>4, <4>5
    <3> QED
      BY <1>6, <2>1, <3>1, <3>2
  <2>2. CASE r # s
    <3>1. batch'[r] = batch[r] /\ pc'[r] = pc[r] /\ Applied(r)' = Applied(r)
      BY <1>5, <1>6, <2>2 DEF IInv, FeedInv
    <3>2. /\ Len(batch[r]) <= taken[r]
          /\ \A k \in 1 .. Len(batch[r]) : batch[r][k] = ring[r][Applied(r) + k]
          /\ pc[r] = "apply" <=> Len(batch[r]) > 0
      BY DEF IInv, BatchInv
    <3> QED
      BY <3>1, <3>2
  <2> QED
    BY <2>1, <2>2
<1>10. StopInv'
  BY <1>1, <1>2, <1>5 DEF IInv, StopInv
<1>11. /\ q \in Seq(Nat)
       /\ \A j, k \in 1 .. Len(q) : j < k => q[j] < q[k]
       /\ \A j \in 1 .. Len(q) : \E k \in 1 .. n : ring[s][k] = q[j] /\ feed[q[j]] = l
       /\ \A k \in 1 .. n : feed[ring[s][k]] = l => \E j \in 1 .. Len(q) : q[j] = ring[s][k]
  <2>1. CASE l \in DOMAIN b
    <3>1. BookOf(s, l) /\ q = books[s][l]
      BY <1>q, <2>1 DEF IInv, BooksInv
    <3> QED
      BY <1>n, <3>1 DEF BookOf
  <2>2. CASE l \notin DOMAIN b
    <3>1. q = <<>>
      BY <1>q, <2>2
    <3>2. \A k \in 1 .. n : feed[ring[s][k]] # l
      BY <1>n, <2>2 DEF IInv, BooksInv
    <3> QED
      BY <3>1, <3>2
  <2> QED
    BY <2>1, <2>2
<1>12. ASSUME NEW m \in DOMAIN b, m # l PROVE BookOf(s, m)'
  <2>1. BookOf(s, m)
    BY DEF IInv, BooksInv
  <2>2. books[s][m] \in Seq(Nat)
    BY <2>1 DEF BookOf
  <2>3. books'[s][m] = books[s][m] \o <<>>
    BY <1>5, <1>12
  <2>4. books'[s][m] = books[s][m]
    BY <2>2, <2>3
  <2> DEFINE p == books[s][m]
  <2>5. /\ p \in Seq(Nat) /\ Len(p) > 0
        /\ \A j, k \in 1 .. Len(p) : j < k => p[j] < p[k]
        /\ \A j \in 1 .. Len(p) : \E k \in 1 .. n : ring[s][k] = p[j] /\ feed[p[j]] = m
        /\ \A k \in 1 .. n : feed[ring[s][k]] = m => \E j \in 1 .. Len(p) : p[j] = ring[s][k]
    BY <1>n, <2>1 DEF BookOf
  <2>6. p' = p
    BY <2>4
  <2> HIDE DEF p
  <2>7. n \in Nat /\ feed[ring[s][n + 1]] # m
    BY <1>3, <1>4, <1>l, <1>12
  <2>8. \A j \in 1 .. Len(p) : \E k \in 1 .. n + 1 : ring[s][k] = p[j] /\ feed[p[j]] = m
    BY <2>5, <2>7
  <2>9. \A k \in 1 .. n + 1 : feed[ring[s][k]] = m => \E j \in 1 .. Len(p) : p[j] = ring[s][k]
    <3>1. \A k \in 1 .. n + 1 : feed[ring[s][k]] = m => k \in 1 .. n
      BY <2>7
    <3> QED
      BY <2>5, <3>1
  <2>10. /\ p' \in Seq(Nat) /\ Len(p') > 0
         /\ \A j, k \in 1 .. Len(p') : j < k => p'[j] < p'[k]
         /\ \A j \in 1 .. Len(p') :
              \E k \in 1 .. Applied(s)' : ring'[s][k] = p'[j] /\ feed'[p'[j]] = m
         /\ \A k \in 1 .. Applied(s)' :
              feed'[ring'[s][k]] = m => \E j \in 1 .. Len(p') : p'[j] = ring'[s][k]
    BY <1>1, <1>6, <2>5, <2>6, <2>8, <2>9
  <2> QED
    BY <2>10 DEF BookOf, p
<1>13. BookOf(s, l)'
  <2> DEFINE p == books'[s][l]
  <2>1. p = q \o <<i>>
    BY <1>5, <1>q
  <2>2. \A j \in 1 .. Len(q) : q[j] < i
    <3>1. \A k \in 1 .. n : ring[s][k] < ring[s][n + 1]
      <4>1. \A j, k \in 1 .. Len(ring[s]) : j < k => ring[s][j] < ring[s][k]
        BY DEF IInv, RingInv
      <4>2. \A k \in 1 .. n : k \in 1 .. Len(ring[s]) /\ k < n + 1
        BY <1>3
      <4> QED
        BY <1>4, <4>1, <4>2
    <3> QED
      BY <1>4, <1>11, <3>1
  <2> HIDE DEF p
  <2>3. /\ p \in Seq(Nat) /\ Len(p) = Len(q) + 1 /\ p[Len(q) + 1] = i /\ Len(q) \in Nat
        /\ \A j \in 1 .. Len(q) : p[j] = q[j]
    BY <1>4, <1>11, <2>1
  <2>4. \A j, k \in 1 .. Len(p) : j < k => p[j] < p[k]
    <3> SUFFICES ASSUME NEW j \in 1 .. Len(p), NEW k \in 1 .. Len(p), j < k PROVE p[j] < p[k]
      OBVIOUS
    <3>1. j \in 1 .. Len(q)
      BY <2>3
    <3>2. CASE k = Len(q) + 1
      BY <2>2, <2>3, <3>1, <3>2
    <3>3. CASE k # Len(q) + 1
      <4>1. k \in 1 .. Len(q)
        BY <2>3, <3>3
      <4> QED
        BY <1>11, <2>3, <3>1, <4>1
    <3> QED
      BY <3>2, <3>3
  <2>5. \A j \in 1 .. Len(p) : \E k \in 1 .. n + 1 : ring[s][k] = p[j] /\ feed[p[j]] = l
    <3> SUFFICES ASSUME NEW j \in 1 .. Len(p)
                 PROVE  \E k \in 1 .. n + 1 : ring[s][k] = p[j] /\ feed[p[j]] = l
      OBVIOUS
    <3>1. CASE j = Len(q) + 1
      <4>1. n + 1 \in 1 .. n + 1
        <5>1. n \in Nat
          BY <1>3
        <5> QED
          BY <5>1
      <4>2. p[j] = i
        BY <2>3, <3>1
      <4> QED
        BY <1>4, <1>l, <4>1, <4>2
    <3>2. CASE j # Len(q) + 1
      <4>1. j \in 1 .. Len(q)
        BY <2>3, <3>2
      <4>2. PICK k \in 1 .. n : ring[s][k] = q[j] /\ feed[q[j]] = l
        BY <1>11, <4>1
      <4>3. k \in 1 .. n + 1 /\ p[j] = q[j]
        <5>1. k \in 1 .. n + 1
          BY <1>3, <4>2
        <5>2. p[j] = q[j]
          BY <2>3, <4>1
        <5> QED
          BY <5>1, <5>2
      <4> QED
        BY <4>2, <4>3
    <3> QED
      BY <3>1, <3>2
  <2>6. \A k \in 1 .. n + 1 : feed[ring[s][k]] = l => \E j \in 1 .. Len(p) : p[j] = ring[s][k]
    <3> SUFFICES ASSUME NEW k \in 1 .. n + 1, feed[ring[s][k]] = l
                 PROVE  \E j \in 1 .. Len(p) : p[j] = ring[s][k]
      OBVIOUS
    <3>1. CASE k = n + 1
      <4>1. Len(q) + 1 \in 1 .. Len(p)
        BY <2>3
      <4> QED
        BY <1>4, <2>3, <3>1, <4>1
    <3>2. CASE k # n + 1
      <4>1. k \in 1 .. n
        BY <1>3, <3>2
      <4>2. PICK j \in 1 .. Len(q) : q[j] = ring[s][k]
        BY <1>11, <4>1
      <4>3. j \in 1 .. Len(p) /\ p[j] = q[j]
        BY <2>3
      <4> QED
        BY <4>2, <4>3
    <3> QED
      BY <3>1, <3>2
  <2>7. Len(p) > 0
    BY <2>3
  <2>8. /\ p \in Seq(Nat) /\ Len(p) > 0
        /\ \A j, k \in 1 .. Len(p) : j < k => p[j] < p[k]
        /\ \A j \in 1 .. Len(p) : \E k \in 1 .. Applied(s)' : ring'[s][k] = p[j] /\ feed'[p[j]] = l
        /\ \A k \in 1 .. Applied(s)' :
             feed'[ring'[s][k]] = l => \E j \in 1 .. Len(p) : p[j] = ring'[s][k]
    BY <1>1, <1>6, <2>3, <2>4, <2>5, <2>6, <2>7
  <2> QED
    BY <2>8 DEF BookOf, p
<1>14. BooksInv'
  <2> SUFFICES ASSUME NEW r \in Shard
               PROVE  /\ \A m \in DOMAIN books'[r] : BookOf(r, m)'
                      /\ \A k \in 1 .. Applied(r)' : feed[ring[r][k]] \in DOMAIN books'[r]
    BY <1>1 DEF BooksInv
  <2>1. CASE r = s
    <3>1. DOMAIN books'[s] = DOMAIN b \union {l}
      BY <1>5
    <3>2. \A k \in 1 .. n : feed[ring[s][k]] \in DOMAIN b
      BY <1>n DEF IInv, BooksInv
    <3>3. \A k \in 1 .. n + 1 : k \in 1 .. n \/ k = n + 1
      BY <1>3
    <3>4. \A k \in 1 .. n + 1 : feed[ring[s][k]] \in DOMAIN b \union {l}
      BY <1>4, <1>l, <3>2, <3>3
    <3> QED
      BY <1>6, <1>12, <1>13, <2>1, <3>1, <3>4
  <2>2. CASE r # s
    <3>1. books'[r] = books[r] /\ Applied(r)' = Applied(r) /\ ring' = ring /\ feed' = feed
      BY <1>1, <1>5, <1>6, <2>2
    <3>2. ASSUME NEW m \in DOMAIN books[r] PROVE BookOf(r, m)'
      <4>1. BookOf(r, m)
        BY DEF IInv, BooksInv
      <4> QED
        BY <3>1, <4>1, BookKept
    <3>3. \A k \in 1 .. Applied(r) : feed[ring[r][k]] \in DOMAIN books[r]
      BY DEF IInv, BooksInv
    <3> QED
      BY <3>1, <3>2, <3>3
  <2> QED
    BY <2>1, <2>2
<1> QED
  BY <1>7, <1>8, <1>9, <1>10, <1>14 DEF IInv

-----------------------------------------------------------------------------
(***************************************************************************)
(* The theorems.                                                            *)
(***************************************************************************)

LEMMA NextIInv == IInv /\ [Next]_vars => IInv'
<1> SUFFICES ASSUME IInv, [Next]_vars PROVE IInv'
  OBVIOUS
<1>1. CASE Feeder
  BY <1>1, DecodeIInv, PushIInv, EndIInv DEF Feeder
<1>2. ASSUME NEW s \in Shard, Loop(s) PROVE IInv'
  BY <1>2, PopIInv, LookIInv, ApplyIInv DEF Loop
<1>3. CASE UNCHANGED vars
  <2>1. UNCHANGED <<feed, pushed, phase, joined, ring, stop, taken, seen, pc, batch, books>>
    BY <1>3 DEF vars, feeder, shard
  <2>2. \A s \in Shard : Applied(s)' = Applied(s)
    BY <2>1 DEF Applied
  <2>3. ASSUME NEW s \in Shard, NEW m \in DOMAIN books[s] PROVE BookOf(s, m)'
    <3>1. BookOf(s, m) /\ books' = books /\ Applied(s)' = Applied(s) /\ ring' = ring /\ feed' = feed
      BY <2>1, <2>2 DEF IInv, BooksInv
    <3> QED
      BY <3>1, BookKept
  <2>4. BooksInv'
    BY <2>1, <2>2, <2>3 DEF IInv, BooksInv
  <2>5. FeedInv' /\ SeenInv' /\ RingInv' /\ StopInv'
    BY <2>1 DEF IInv, FeedInv, SeenInv, RingInv, StopInv
  <2>6. BatchInv'
    BY <2>1, <2>2 DEF IInv, BatchInv
  <2> QED
    BY <2>4, <2>5, <2>6 DEF IInv
<1> QED
  BY <1>1, <1>2, <1>3 DEF Next

\* What the loop of a shard and the feed thread keep true, whatever a load of
\* head_ or of stop_ returns: rings, batches and books are consecutive stretches of
\* the shard's commands, and a shard that has left its loop has taken all of them.
THEOREM ShardsInvariant == Spec => []IInv
<1>1. Init => IInv
  BY InitIInv
<1>2. IInv /\ [Next]_vars => IInv'
  BY NextIInv
<1> QED
  BY <1>1, <1>2, PTL DEF Spec

LEMMA IInvInFeedOrder == IInv => InFeedOrder
<1> SUFFICES ASSUME IInv, NEW s \in Shard, NEW l \in DOMAIN books[s]
             PROVE  LET b == books[s][l] IN
                    /\ \A k \in 1 .. Len(b) - 1 : b[k] < b[k + 1]
                    /\ \A i \in 1 .. b[Len(b)] : i \in Range(b) <=> feed[i] = l
  BY DEF InFeedOrder
<1>n. PICK n : n = Applied(s)
  OBVIOUS
<1>b. PICK b : b = books[s][l]
  OBVIOUS
<1>1. /\ b \in Seq(Nat) /\ Len(b) > 0 /\ Len(b) \in Nat
      /\ \A j, k \in 1 .. Len(b) : j < k => b[j] < b[k]
      /\ \A j \in 1 .. Len(b) : \E k \in 1 .. n : ring[s][k] = b[j] /\ feed[b[j]] = l
      /\ \A k \in 1 .. n : feed[ring[s][k]] = l => \E j \in 1 .. Len(b) : b[j] = ring[s][k]
  <2> DEFINE p == books[s][l]
  <2>1. BookOf(s, l)
    BY DEF IInv, BooksInv
  <2>2. /\ p \in Seq(Nat) /\ Len(p) > 0
        /\ \A j, k \in 1 .. Len(p) : j < k => p[j] < p[k]
        /\ \A j \in 1 .. Len(p) : \E k \in 1 .. Applied(s) : ring[s][k] = p[j] /\ feed[p[j]] = l
        /\ \A k \in 1 .. Applied(s) :
             feed[ring[s][k]] = l => \E j \in 1 .. Len(p) : p[j] = ring[s][k]
    BY <2>1 DEF BookOf
  <2>3. b = p
    BY <1>b
  <2> HIDE DEF p
  <2>4. b \in Seq(Nat) /\ Len(b) > 0 /\ Len(b) \in Nat
    BY <2>2, <2>3
  <2> QED
    BY <1>n, <2>2, <2>3, <2>4
<1>2. n \in Nat /\ n <= Len(ring[s]) /\ Len(ring[s]) \in Nat
  <2>1. Counted(s)
    BY Counts
  <2> QED
    BY <1>n, <2>1 DEF Counted
<1>3. PICK last \in 1 .. n : ring[s][last] = b[Len(b)] /\ feed[b[Len(b)]] = l
  <2>1. Len(b) \in 1 .. Len(b)
    BY <1>1
  <2> QED
    BY <1>1, <2>1
<1>4. /\ last \in 1 .. Len(ring[s]) /\ b[Len(b)] \in 1 .. pushed /\ ShardOf(l) = s
      /\ pushed \in Nat
  <2>1. last \in 1 .. Len(ring[s])
    BY <1>2, <1>3
  <2>2. ring[s][last] \in 1 .. pushed /\ ShardOf(feed[ring[s][last]]) = s
    BY <2>1 DEF IInv, RingInv
  <2> QED
    BY <1>3, <2>1, <2>2 DEF IInv, FeedInv
<1>5. ASSUME NEW k \in 1 .. Len(b) - 1 PROVE b[k] < b[k + 1]
  <2>1. k \in 1 .. Len(b) /\ k + 1 \in 1 .. Len(b) /\ k < k + 1
    BY <1>1
  <2> QED
    BY <1>1, <2>1
<1>6. ASSUME NEW i \in 1 .. b[Len(b)], feed[i] = l PROVE i \in Range(b)
  <2>1. i \in 1 .. pushed
    BY <1>4
  <2>2. PICK k \in 1 .. Len(ring[s]) : ring[s][k] = i
    BY <1>4, <1>6, <2>1 DEF IInv, RingInv
  <2>3. ~ (last < k)
    <3>1. last < k => ring[s][last] < ring[s][k]
      BY <1>4, <2>2 DEF IInv, RingInv
    <3> QED
      BY <1>3, <1>4, <2>1, <2>2, <3>1
  <2>4. k \in 1 .. n
    BY <1>2, <1>3, <2>2, <2>3
  <2>5. PICK j \in 1 .. Len(b) : b[j] = i
    BY <1>1, <1>6, <2>2, <2>4
  <2> QED
    BY <1>1, <2>5 DEF Range
<1>7. ASSUME NEW i \in Range(b) PROVE feed[i] = l
  <2>1. PICK j \in 1 .. Len(b) : b[j] = i
    BY <1>1 DEF Range
  <2> QED
    BY <1>1, <2>1
<1> QED
  BY <1>b, <1>5, <1>6, <1>7

\* A symbol's book is the prefix of its commands in feed order, for any number of
\* shards, any rings and batches and any feed.
THEOREM ShardsInFeedOrder == Spec => []InFeedOrder
  BY ShardsInvariant, IInvInFeedOrder, PTL

LEMMA IInvNothingLeftBehind == IInv => NothingLeftBehind
<1> SUFFICES ASSUME IInv, phase = "done", NEW i \in DOMAIN feed
             PROVE  LET b == books[ShardOf(feed[i])] IN
                    feed[i] \in DOMAIN b /\ i \in Range(b[feed[i]])
  BY DEF NothingLeftBehind
<1>1. i \in 1 .. pushed /\ feed[i] \in Locates
  BY DEF IInv, FeedInv, StopInv
<1>s. PICK s \in Shard : s = ShardOf(feed[i])
  BY <1>1, ShardOfType
<1>2. pc[s] = "left" /\ taken[s] = Len(ring[s])
  <2>1. joined = NumShards /\ NumShards \in Nat
    BY ShardsAssumption DEF IInv, StopInv
  <2>2. s < joined
    BY <2>1 DEF Shard
  <2> QED
    BY <2>2 DEF IInv, StopInv
<1>3. Applied(s) = Len(ring[s])
  <2>1. Counted(s)
    BY Counts
  <2>2. Len(batch[s]) = 0
    BY <1>2, <2>1 DEF IInv, BatchInv, Counted
  <2> QED
    BY <1>2, <2>1, <2>2 DEF Counted
<1>4. PICK k \in 1 .. Applied(s) : ring[s][k] = i
  BY <1>1, <1>3, <1>s DEF IInv, RingInv
<1>5. feed[i] \in DOMAIN books[s]
  BY <1>4 DEF IInv, BooksInv
<1>6. BookOf(s, feed[i])
  BY <1>5 DEF IInv, BooksInv
<1>7. PICK j \in 1 .. Len(books[s][feed[i]]) : books[s][feed[i]][j] = i
  BY <1>4, <1>6 DEF BookOf
<1>8. i \in Range(books[s][feed[i]])
  <2>1. DOMAIN books[s][feed[i]] = 1 .. Len(books[s][feed[i]])
    BY <1>6 DEF BookOf
  <2> QED
    BY <1>7, <2>1 DEF Range
<1> QED
  BY <1>s, <1>5, <1>8

\* When the last shard is joined, every command of the feed has been applied to its
\* book, for any number of shards, any rings and batches and any feed.
THEOREM ShardsNothingLeftBehind == Spec => []NothingLeftBehind
  BY ShardsInvariant, IInvNothingLeftBehind, PTL
=============================================================================
