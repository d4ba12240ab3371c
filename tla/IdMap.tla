------------------------------- MODULE IdMap -------------------------------
(***************************************************************************)
(* The open-addressing index from order ids to pool slots (id_map.hpp):     *)
(* linear probing, deletion by backward shift, doubling at 70% full.         *)
(* The multiplicative hash is data: any function from ids to hash values.    *)
(* The id 0 (kNoOrder), which marks an empty bucket, is never an argument:   *)
(* the book tests for it first.                                              *)
(***************************************************************************)
EXTENDS Integers, FiniteSets, Sequences, FiniteSetsExt, SequencesExt

CONSTANTS
  Ids, Slots, NoOrder, NullSlot,
  Hashes,        \* the 64 bit values index_of may compute before it masks them
  MinCapacity    \* the smallest table, 16 in the code

\* No odd number but 1 divides it.
PowerOfTwo(n) == n \in Nat \ {0} /\ \A d \in 1 .. n : n % d = 0 => d = 1 \/ d % 2 = 0

ASSUME IdMapAssumption ==
  /\ NoOrder \notin Ids /\ NullSlot \notin Slots
  /\ Hashes \subseteq Nat
  /\ PowerOfTwo(MinCapacity)

VARIABLES
  hash,       \* the hash function
  buckets,    \* buckets_; its domain is 0 .. mask_
  size,       \* size_
  answer      \* what the last call returned

vars == <<hash, buckets, size, answer>>

NoEntry == [id |-> NoOrder, slot |-> NullSlot]
NoEntries(capacity) == [i \in 0 .. capacity - 1 |-> NoEntry]
Capacity(b) == Cardinality(DOMAIN b)
Wrap(b, i) == i % Capacity(b)
IndexOf(b, id) == Wrap(b, hash[id])

\* The bucket k steps further on, and how far j lies ahead of i.
Along(b, i, k) == Wrap(b, i + k)
Ahead(b, i, j) == Wrap(b, j - i)

\* Where a probe for id stops: at the id or at the first empty bucket.  One of
\* the two exists while a bucket is empty; see ProbesEnd.
Stop(b, id) ==
  LET start == IndexOf(b, id)
      stops == {k \in 0 .. Capacity(b) - 1 : b[Along(b, start, k)].id \in {id, NoOrder}}
  IN Along(b, start, Min(stops))

Holds(b, id) == b[Stop(b, id)].id = id

Init ==
  /\ hash \in [Ids -> Hashes]
  /\ buckets = NoEntries(MinCapacity) /\ size = 0
  /\ answer = NullSlot

-----------------------------------------------------------------------------
Put(b, e) == [b EXCEPT ![Stop(b, e.id)] = e]

\* Faulty variant: the table doubles in place, and keys stay where they were.
GrownInPlace(b) ==
  [i \in 0 .. 2 * Capacity(b) - 1 |-> IF i \in DOMAIN b THEN b[i] ELSE NoEntry]

\* grow: every entry, in bucket order, into a table of twice the size, which is never
\* crowded meanwhile (GrowsOnce in IdMapProofs).
Reinsert(b, e) == IF e = NoEntry THEN b ELSE Put(b, e)
Grown(b) ==
  FoldLeft(Reinsert, NoEntries(2 * Capacity(b)), [i \in 1 .. Capacity(b) |-> b[i - 1]])

\* Faulty variant: the table is allowed to fill up.
CrowdedWhenFull(n, capacity) == n >= capacity

Crowded(n, capacity) == (n + 1) * 10 >= capacity * 7

Insert(id, slot) ==
  LET b == IF Crowded(size, Capacity(buckets)) THEN Grown(buckets) ELSE buckets
      fresh == ~Holds(b, id)
  IN /\ answer' = fresh
     /\ buckets' = IF fresh THEN Put(b, [id |-> id, slot |-> slot]) ELSE b
     /\ size' = IF fresh THEN size + 1 ELSE size
     /\ UNCHANGED hash

Find(id) ==
  /\ answer' = buckets[Stop(buckets, id)].slot
  /\ UNCHANGED <<hash, buckets, size>>

\* Faulty variant: an entry in the bucket its hash names is moved as well.
MayFillEager(b, hole, j) ==
  Ahead(b, hole, IndexOf(b, b[j].id)) >= Ahead(b, hole, j)

\* The entry at j may be pulled back into the hole: its ideal bucket is not
\* strictly between the hole and j, nor j itself.
MayFill(b, hole, j) ==
  LET ideal == Ahead(b, hole, IndexOf(b, b[j].id))
  IN ideal = 0 \/ ideal > Ahead(b, hole, j)

\* The buckets of the run that follows i, in probe order.
RunAfter(b, i) ==
  LET end == Min({k \in 1 .. Capacity(b) : b[Along(b, i, k)] = NoEntry})
  IN [k \in 1 .. end - 1 |-> Along(b, i, k)]

Pull(s, j) ==
  IF MayFill(s.b, s.hole, j) THEN [b |-> [s.b EXCEPT ![s.hole] = s.b[j]], hole |-> j] ELSE s

\* Backward shift: each entry of the run that may go into the hole does.
Without(b, i) ==
  LET last == FoldLeft(Pull, [b |-> b, hole |-> i], RunAfter(b, i))
  IN [last.b EXCEPT ![last.hole] = NoEntry]

Erase(id) ==
  LET i == Stop(buckets, id) IN
  /\ answer' = buckets[i].slot
  /\ buckets' = IF Holds(buckets, id) THEN Without(buckets, i) ELSE buckets
  /\ size' = IF Holds(buckets, id) THEN size - 1 ELSE size
  /\ UNCHANGED hash

Clear ==
  /\ buckets' = NoEntries(Capacity(buckets)) /\ size' = 0
  /\ UNCHANGED <<hash, answer>>

Next ==
  \/ \E id \in Ids, slot \in Slots : Insert(id, slot)
  \/ \E id \in Ids : Find(id) \/ Erase(id)
  \/ Clear

Spec == Init /\ [][Next]_vars

-----------------------------------------------------------------------------
(***************************************************************************)
(* Properties.                                                              *)
(***************************************************************************)

Occupied == {i \in DOMAIN buckets : buckets[i] # NoEntry}

\* find and erase loop until they meet the id or an empty bucket: they end
\* because the table is never full, size_ says how full it is, and the mask
\* reaches every bucket, the size being a power of two.
ProbesEnd ==
  /\ PowerOfTwo(Capacity(buckets))
  /\ size = Cardinality(Occupied)
  /\ size < Capacity(buckets)

\* No hole in a probe run: from the bucket an entry hashes to up to its own,
\* every bucket is taken (the comment above erase).
NoHoleInARun ==
  \A i \in Occupied :
    \A k \in 0 .. Ahead(buckets, IndexOf(buckets, buckets[i].id), i) :
      Along(buckets, IndexOf(buckets, buckets[i].id), k) \in Occupied

\* The ids with an entry, and the slot of each.
Contents ==
  [id \in {buckets[i].id : i \in Occupied} |->
     LET i == CHOOSE j \in Occupied : buckets[j].id = id IN buckets[i].slot]

\* Whatever the hash and whatever came before, a call answers as a partial
\* function from ids to slots would, and changes it as such a call does.
Promise == INSTANCE SlotMap WITH slotOf <- Contents
KeepsPromise == Promise!Spec
=============================================================================
