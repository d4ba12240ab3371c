---------------------------- MODULE IdMapProofs ----------------------------
(***************************************************************************)
(* The id index, for any hash and any number of ids: probes end, no run has a *)
(* hole, and its answers are those of a partial function.                    *)
(***************************************************************************)
EXTENDS IdMap, FiniteSetTheorems, WellFoundedInduction, TLAPS

-----------------------------------------------------------------------------
(***************************************************************************)
(* Numbers, and steps round a table of N buckets.                            *)
(***************************************************************************)

\* A set of numbers has a least one: the form induction takes here.
LEMMA LeastNat ==
  ASSUME NEW T, T \subseteq Nat, T # {}
  PROVE  \E x \in T : \A y \in T : x <= y
<1>1. IsWellFoundedOn(OpToRel(<, Nat), Nat)
  BY NatLessThanWellFounded
<1>2. PICK x \in T : \A y \in T : <<y, x>> \notin OpToRel(<, Nat)
  BY <1>1, WFMin
<1>3. \A y \in T : ~ (y < x)
  BY <1>2 DEF OpToRel
<1> QED
  BY <1>3

LEMMA MinIs ==
  ASSUME NEW T, T \subseteq Nat, T # {}
  PROVE  Min(T) \in T /\ \A y \in T : Min(T) <= y
<1>1. \E x \in T : \A y \in T : x <= y
  BY LeastNat
<1> QED
  BY <1>1 DEF Min

\* How far y lies ahead of x, and the bucket k steps further on than x.
Dist(N, x, y) == IF x <= y THEN y - x ELSE y - x + N
Step(N, x, k) == IF x + k < N THEN x + k ELSE x + k - N

LEMMA ModIs ==
  ASSUME NEW N \in Nat \ {0}, NEW x \in 0 .. N - 1
  PROVE  /\ \A y \in 0 .. N - 1 : (y - x) % N = Dist(N, x, y)
         /\ \A k \in 0 .. N : (x + k) % N = Step(N, x, k)
         /\ \A z \in Int : z % N \in 0 .. N - 1
<1>1. ASSUME NEW z \in Int, 0 <= z, z < N
      PROVE  z % N = z
  BY <1>1
<1>2. ASSUME NEW z \in Int, N <= z, z < 2 * N
      PROVE  z % N = z - N
  BY <1>2
<1>3. ASSUME NEW z \in Int, -N <= z, z < 0
      PROVE  z % N = z + N
  BY <1>3
<1>4. ASSUME NEW y \in 0 .. N - 1
      PROVE  (y - x) % N = Dist(N, x, y)
  <2>1. CASE x <= y
    <3>1. y - x \in Int /\ 0 <= y - x /\ y - x < N
      BY <2>1
    <3> QED
      BY <1>1, <2>1, <3>1 DEF Dist
  <2>2. CASE ~(x <= y)
    <3>1. y - x \in Int /\ -N <= y - x /\ y - x < 0
      BY <2>2
    <3> QED
      BY <1>3, <2>2, <3>1 DEF Dist
  <2> QED
    BY <2>1, <2>2
<1>5. ASSUME NEW k \in 0 .. N
      PROVE  (x + k) % N = Step(N, x, k)
  <2>1. CASE x + k < N
    <3>1. x + k \in Int /\ 0 <= x + k
      OBVIOUS
    <3> QED
      BY <1>1, <2>1, <3>1 DEF Step
  <2>2. CASE ~(x + k < N)
    <3>1. x + k \in Int /\ N <= x + k /\ x + k < 2 * N
      BY <2>2
    <3> QED
      BY <1>2, <2>2, <3>1 DEF Step
  <2> QED
    BY <2>1, <2>2
<1>6. \A z \in Int : z % N \in 0 .. N - 1
  OBVIOUS
<1> QED
  BY <1>4, <1>5, <1>6

LEMMA RoundIs ==
  ASSUME NEW N \in Nat \ {0}, NEW x \in 0 .. N - 1
  PROVE  /\ \A y \in 0 .. N - 1 : Dist(N, x, y) \in 0 .. N - 1 /\ Step(N, x, Dist(N, x, y)) = y
         /\ \A k \in 0 .. N - 1 : Step(N, x, k) \in 0 .. N - 1 /\ Dist(N, x, Step(N, x, k)) = k
<1>1. ASSUME NEW y \in 0 .. N - 1
      PROVE  Dist(N, x, y) \in 0 .. N - 1 /\ Step(N, x, Dist(N, x, y)) = y
  BY DEF Dist, Step
<1>2. ASSUME NEW k \in 0 .. N - 1
      PROVE  Step(N, x, k) \in 0 .. N - 1 /\ Dist(N, x, Step(N, x, k)) = k
  BY DEF Dist, Step
<1> QED
  BY <1>1, <1>2

LEMMA AheadIs ==
  ASSUME NEW N \in Nat \ {0}, NEW x \in 0 .. N - 1
  PROVE  \A y \in 0 .. N - 1 :
           Dist(N, x, y) \in Nat /\ Dist(N, x, y) < N /\ Step(N, x, Dist(N, x, y)) = y
<1> SUFFICES ASSUME NEW y \in 0 .. N - 1
             PROVE  Dist(N, x, y) \in Nat /\ Dist(N, x, y) < N /\ Step(N, x, Dist(N, x, y)) = y
  OBVIOUS
<1>1. Dist(N, x, y) \in 0 .. N - 1 /\ Step(N, x, Dist(N, x, y)) = y
  BY RoundIs
<1> QED
  BY <1>1

\* A table of twice the size is a power of two again.
LEMMA DoubleIs ==
  ASSUME NEW n, PowerOfTwo(n)
  PROVE  PowerOfTwo(2 * n)
<1>1. n \in Nat \ {0} /\ 2 * n \in Nat \ {0}
  BY DEF PowerOfTwo
<1>2. ASSUME NEW d \in 1 .. 2 * n, (2 * n) % d = 0, d % 2 # 0
      PROVE  d = 1
  <2>1. d \in Nat \ {0}
    BY <1>1
  <2>2. PICK q \in Int : 2 * n = d * q
    <3> DEFINE q == (2 * n) \div d
    <3>1. q \in Int /\ 2 * n = d * q + ((2 * n) % d)
      BY <1>1, <2>1
    <3> HIDE DEF q
    <3>2. d * q \in Int /\ 2 * n = d * q + 0
      BY <1>2, <2>1, <3>1
    <3>3. 2 * n = d * q
      BY <3>2
    <3> QED
      BY <3>1, <3>3
  <2>3. PICK a \in Int : d = 2 * a + 1
    <3>1. d \div 2 \in Int /\ d = 2 * (d \div 2) + (d % 2) /\ d % 2 \in {0, 1}
      BY <2>1
    <3> QED
      BY <1>2, <3>1
  <2>4. PICK b \in Int : q = 2 * b
    <3>1. PICK b \in Int : q = 2 * b \/ q = 2 * b + 1
      <4>1. q \div 2 \in Int /\ q = 2 * (q \div 2) + (q % 2) /\ q % 2 \in {0, 1}
        OBVIOUS
      <4> QED
        BY <4>1
    <3>2. q # 2 * b + 1
      <4> SUFFICES ASSUME q = 2 * b + 1 PROVE FALSE
        OBVIOUS
      <4>1. d * q = 2 * (2 * (a * b) + a + b) + 1 /\ a * b \in Int
        <5>1. d * q = (2 * a + 1) * (2 * b + 1)
          BY <2>3
        <5>2. (2 * a + 1) * (2 * b + 1) = 2 * (2 * (a * b) + a + b) + 1
          OBVIOUS
        <5> QED
          BY <5>1, <5>2
      <4> DEFINE c == 2 * (a * b) + a + b
      <4>2. c \in Int /\ 2 * n = 2 * c + 1
        BY <2>2, <4>1
      <4> HIDE DEF c
      <4> QED
        BY <1>1, <4>2
    <3> QED
      BY <3>1, <3>2
  <2>5. n = d * b
    <3>1. 2 * n = 2 * (d * b) /\ d * b \in Int
      <4>1. 2 * n = d * (2 * b)
        BY <2>2, <2>4
      <4>2. d * (2 * b) = 2 * (d * b) /\ d * b \in Int
        BY <2>1
      <4> QED
        BY <4>1, <4>2
    <3> QED
      BY <1>1, <3>1
  <2>6. n % d = 0 /\ d \in 1 .. n
    <3>1. b >= 1
      BY <1>1, <2>1, <2>5
    <3>2. d <= n
      BY <2>1, <2>5, <3>1
    <3> QED
      BY <1>1, <2>1, <2>5, <3>2
  <2> QED
    BY <1>2, <2>6 DEF PowerOfTwo
<1> QED
  BY <1>1, <1>2 DEF PowerOfTwo

-----------------------------------------------------------------------------
(***************************************************************************)
(* Tables of N buckets.                                                     *)
(***************************************************************************)

Entries == [id : Ids, slot : Slots]

Shaped(N, b) ==
  /\ N \in Nat \ {0} /\ hash \in [Ids -> Nat]
  /\ b \in [0 .. N - 1 -> Entries \union {NoEntry}]

Home(N, id) == hash[id] % N
Taken(b) == {i \in DOMAIN b : b[i] # NoEntry}
Held(b) == {b[i] : i \in Taken(b)}

\* An id has one entry.
Unique(N, b) ==
  \A i, j \in 0 .. N - 1 : b[i] # NoEntry /\ b[i].id = b[j].id => i = j

\* From the bucket an entry hashes to up to its own, every bucket is taken.
Runs(N, b) ==
  \A i, j \in 0 .. N - 1 :
    b[i] # NoEntry /\ Dist(N, Home(N, b[i].id), j) <= Dist(N, Home(N, b[i].id), i) =>
      b[j] # NoEntry

Good(N, b) == Shaped(N, b) /\ Unique(N, b) /\ Runs(N, b) /\ Cardinality(Taken(b)) < N

LEMMA ShapedIs ==
  ASSUME NEW N, NEW b, Shaped(N, b)
  PROVE  /\ Capacity(b) = N /\ DOMAIN b = 0 .. N - 1
         /\ IsFiniteSet(Taken(b)) /\ Cardinality(Taken(b)) \in Nat /\ Cardinality(Taken(b)) <= N
         /\ \A id \in Ids : Home(N, id) \in 0 .. N - 1 /\ IndexOf(b, id) = Home(N, id)
<1>1. N \in Nat \ {0} /\ DOMAIN b = 0 .. N - 1
  BY DEF Shaped
<1>2. IsFiniteSet(0 .. N - 1) /\ Cardinality(0 .. N - 1) = N
  <2>1. 0 \in Int /\ N - 1 \in Int /\ ~(0 > N - 1) /\ (N - 1) - 0 + 1 = N
    BY <1>1
  <2> QED
    BY <2>1, FS_Interval
<1>3. Taken(b) \in SUBSET (0 .. N - 1)
  BY <1>1 DEF Taken
<1>4. Capacity(b) = N
  BY <1>1, <1>2 DEF Capacity
<1>5. IsFiniteSet(Taken(b)) /\ Cardinality(Taken(b)) \in Nat /\ Cardinality(Taken(b)) <= N
  BY <1>2, <1>3, FS_Subset, FS_CardinalityType
<1>6. ASSUME NEW id \in Ids
      PROVE  Home(N, id) \in 0 .. N - 1 /\ IndexOf(b, id) = Home(N, id)
  <2>1. hash[id] \in Int
    BY DEF Shaped
  <2> QED
    BY <1>1, <1>4, <2>1, ModIs, 0 \in 0 .. N - 1 DEF Home, IndexOf, Wrap
<1> QED
  BY <1>1, <1>4, <1>5, <1>6

LEMMA BucketIs ==
  ASSUME NEW N, NEW b, Shaped(N, b), NEW i \in 0 .. N - 1
  PROVE  /\ b[i] = NoEntry => b[i].id = NoOrder /\ b[i].slot = NullSlot
         /\ b[i] # NoEntry => /\ b[i] \in Entries /\ b[i].id \in Ids /\ b[i].slot \in Slots
                              /\ b[i].id # NoOrder
<1>1. b[i] \in Entries \union {NoEntry}
  BY DEF Shaped
<1>2. \A e \in Entries : e.id \in Ids /\ e.slot \in Slots /\ e.id # NoOrder
  BY IdMapAssumption DEF Entries
<1>3. NoEntry.id = NoOrder /\ NoEntry.slot = NullSlot
  BY DEF NoEntry
<1> QED
  BY <1>1, <1>2, <1>3

LEMMA EmptyIs ==
  ASSUME NEW N, NEW b, Shaped(N, b), Cardinality(Taken(b)) < N
  PROVE  \E i \in 0 .. N - 1 : b[i] = NoEntry
<1> SUFFICES ASSUME \A i \in 0 .. N - 1 : b[i] # NoEntry PROVE FALSE
  OBVIOUS
<1>1. DOMAIN b = 0 .. N - 1 /\ N \in Nat \ {0}
  BY DEF Shaped
<1>2. Taken(b) = 0 .. N - 1
  BY <1>1 DEF Taken
<1>3. Cardinality(0 .. N - 1) = N
  <2>1. 0 \in Int /\ N - 1 \in Int /\ ~(0 > N - 1) /\ (N - 1) - 0 + 1 = N
    BY <1>1
  <2> QED
    BY <2>1, FS_Interval
<1> QED
  BY <1>1, <1>2, <1>3

-----------------------------------------------------------------------------
(***************************************************************************)
(* Probing.                                                                 *)
(***************************************************************************)

\* A probe stops at the id or at an empty bucket, and passed neither before.
LEMMA StopIs ==
  ASSUME NEW N, NEW b, Shaped(N, b), Cardinality(Taken(b)) < N, NEW id \in Ids
  PROVE  /\ Stop(b, id) \in 0 .. N - 1
         /\ b[Stop(b, id)].id \in {id, NoOrder}
         /\ \A j \in 0 .. N - 1 : Dist(N, Home(N, id), j) < Dist(N, Home(N, id), Stop(b, id)) =>
              b[j].id \notin {id, NoOrder}
<1> DEFINE h == Home(N, id)
           T == {k \in 0 .. N - 1 : b[Step(N, h, k)].id \in {id, NoOrder}}
<1>1. N \in Nat \ {0} /\ h \in 0 .. N - 1 /\ Capacity(b) = N /\ IndexOf(b, id) = h
  BY ShapedIs DEF Shaped
<1> HIDE DEF h
<1>2. \A k \in 0 .. N - 1 : Along(b, h, k) = Step(N, h, k)
  BY <1>1, ModIs DEF Along, Wrap
<1>3. Stop(b, id) = Along(b, h, Min(T))
  <2>1. T = {k \in 0 .. N - 1 : b[Along(b, h, k)].id \in {id, NoOrder}}
    BY <1>2
  <2> QED
    BY <1>1, <2>1 DEF Stop
<1>4. T # {}
  <2>1. PICK e \in 0 .. N - 1 : b[e] = NoEntry
    BY EmptyIs
  <2>2. Dist(N, h, e) \in 0 .. N - 1 /\ Step(N, h, Dist(N, h, e)) = e
    BY <1>1, RoundIs
  <2>3. b[e].id = NoOrder
    BY <2>1, BucketIs
  <2> QED
    BY <2>2, <2>3
<1>5. Min(T) \in T /\ \A k \in T : Min(T) <= k
  <2>1. T \subseteq Nat
    BY <1>1
  <2> HIDE DEF T
  <2> QED
    BY <1>4, <2>1, MinIs
<1> DEFINE m == Min(T)
<1>6. m \in 0 .. N - 1 /\ b[Step(N, h, m)].id \in {id, NoOrder} /\ \A k \in T : m <= k
  BY <1>5
<1>7. Stop(b, id) = Step(N, h, m)
  BY <1>2, <1>3, <1>6
<1> HIDE DEF m
<1>8. Stop(b, id) \in 0 .. N - 1 /\ Dist(N, h, Stop(b, id)) = m
  BY <1>1, <1>6, <1>7, RoundIs
<1>9. ASSUME NEW j \in 0 .. N - 1, Dist(N, h, j) < m
      PROVE  b[j].id \notin {id, NoOrder}
  <2>1. Dist(N, h, j) \in 0 .. N - 1 /\ Step(N, h, Dist(N, h, j)) = j
    BY <1>1, RoundIs
  <2>2. Dist(N, h, j) \notin T
    <3>1. ~(m <= Dist(N, h, j))
      BY <1>1, <1>6, <1>9, <2>1
    <3> QED
      BY <1>6, <3>1
  <2> QED
    BY <2>1, <2>2
<1> QED
  BY <1>6, <1>7, <1>8, <1>9 DEF h

\* In a good table the bucket of an id is where its probe stops.
LEMMA FindIs ==
  ASSUME NEW N, NEW b, Good(N, b), NEW i \in 0 .. N - 1, b[i] # NoEntry
  PROVE  Stop(b, b[i].id) = i
<1> DEFINE id == b[i].id
           h == Home(N, id)
           s == Stop(b, id)
<1>1. Shaped(N, b) /\ Unique(N, b) /\ Runs(N, b) /\ Cardinality(Taken(b)) < N /\ N \in Nat \ {0}
  BY DEF Good, Shaped
<1>2. id \in Ids /\ id # NoOrder
  BY <1>1, BucketIs
<1>3. /\ s \in 0 .. N - 1 /\ b[s].id \in {id, NoOrder}
      /\ \A j \in 0 .. N - 1 : Dist(N, h, j) < Dist(N, h, s) => b[j].id \notin {id, NoOrder}
  BY <1>1, <1>2, StopIs
<1>4. h \in 0 .. N - 1
  BY <1>1, <1>2, ShapedIs
<1>5. Dist(N, h, i) \in Int /\ Dist(N, h, s) \in Int
  <2> HIDE DEF h, s, id
  <2>1. \A y \in 0 .. N - 1 : Dist(N, h, y) \in 0 .. N - 1
    BY <1>1, <1>4, RoundIs
  <2>2. Dist(N, h, i) \in 0 .. N - 1 /\ Dist(N, h, s) \in 0 .. N - 1
    BY <1>3, <2>1
  <2> QED
    BY <2>2
<1>6. Dist(N, h, s) <= Dist(N, h, i)
  BY <1>3, <1>5
<1>7. b[s] # NoEntry
  BY <1>1, <1>3, <1>6 DEF Runs
<1>8. b[s].id = id
  BY <1>1, <1>3, <1>7, BucketIs
<1> QED
  BY <1>1, <1>3, <1>7, <1>8 DEF Unique

LEMMA AbsentIs ==
  ASSUME NEW N, NEW b, Good(N, b), NEW id \in Ids, ~Holds(b, id)
  PROVE  b[Stop(b, id)] = NoEntry /\ \A i \in 0 .. N - 1 : b[i].id # id
<1>1. Shaped(N, b) /\ Cardinality(Taken(b)) < N
  BY DEF Good
<1>2. Stop(b, id) \in 0 .. N - 1 /\ b[Stop(b, id)].id = NoOrder
  BY <1>1, StopIs DEF Holds
<1>3. ASSUME NEW i \in 0 .. N - 1, b[i].id = id
      PROVE  FALSE
  <2>1. b[i] # NoEntry
    BY <1>1, <1>3, BucketIs, IdMapAssumption
  <2>2. Stop(b, id) = i
    BY <1>3, <2>1, FindIs
  <2> QED
    BY <1>2, <1>3, <2>2, IdMapAssumption
<1> QED
  BY <1>1, <1>2, <1>3, BucketIs

-----------------------------------------------------------------------------
(***************************************************************************)
(* Inserting.                                                               *)
(***************************************************************************)

LEMMA PutIs ==
  ASSUME NEW N, NEW b, Good(N, b), NEW e \in Entries, \A i \in 0 .. N - 1 : b[i].id # e.id,
         Cardinality(Taken(b)) + 1 < N
  PROVE  LET r == Put(b, e) IN
         /\ Good(N, r) /\ Held(r) = Held(b) \union {e}
         /\ Cardinality(Taken(r)) = Cardinality(Taken(b)) + 1
<1> DEFINE s == Stop(b, e.id)
           h == Home(N, e.id)
           r == Put(b, e)
<1>1. Shaped(N, b) /\ Unique(N, b) /\ Runs(N, b) /\ Cardinality(Taken(b)) < N /\ N \in Nat \ {0}
  BY DEF Good, Shaped
<1>2. e.id \in Ids /\ e # NoEntry
  BY IdMapAssumption DEF Entries, NoEntry
<1>3. /\ s \in 0 .. N - 1 /\ b[s].id \in {e.id, NoOrder}
      /\ \A j \in 0 .. N - 1 : Dist(N, h, j) < Dist(N, h, s) => b[j].id \notin {e.id, NoOrder}
  BY <1>1, <1>2, StopIs
<1>4. b[s] = NoEntry
  BY <1>1, <1>3, BucketIs
<1>5. h \in 0 .. N - 1 /\ DOMAIN b = 0 .. N - 1
  BY <1>1, <1>2, ShapedIs
<1>6. r = [b EXCEPT ![s] = e]
  BY DEF Put
<1> HIDE DEF s, h, r
<1>7. r[s] = e /\ DOMAIN r = 0 .. N - 1 /\ \A i \in 0 .. N - 1 : i # s => r[i] = b[i]
  BY <1>3, <1>5, <1>6
<1>8. Shaped(N, r)
  BY <1>1, <1>6 DEF Shaped
<1>9. Taken(r) = Taken(b) \union {s} /\ s \notin Taken(b)
  BY <1>2, <1>3, <1>4, <1>5, <1>7 DEF Taken
<1>10. Cardinality(Taken(r)) = Cardinality(Taken(b)) + 1
  BY <1>1, <1>9, ShapedIs, FS_AddElement
<1>11. Held(r) = Held(b) \union {e}
  <2>1. \A i \in Taken(b) : i # s /\ i \in 0 .. N - 1
    BY <1>5, <1>9 DEF Taken
  <2> QED
    BY <1>7, <1>9, <2>1 DEF Held
<1>12. Unique(N, r)
  <2> SUFFICES ASSUME NEW i \in 0 .. N - 1, NEW j \in 0 .. N - 1, r[i] # NoEntry, r[i].id = r[j].id
               PROVE  i = j
    BY DEF Unique
  <2> QED
    BY <1>1, <1>7 DEF Unique
<1>13. Runs(N, r)
  <2> SUFFICES ASSUME NEW i \in 0 .. N - 1, NEW j \in 0 .. N - 1, r[i] # NoEntry,
                      Dist(N, Home(N, r[i].id), j) <= Dist(N, Home(N, r[i].id), i)
               PROVE  r[j] # NoEntry
    BY DEF Runs
  <2>1. CASE i # s
    BY <1>1, <1>2, <1>7, <2>1 DEF Runs
  <2>2. CASE i = s
    <3>1. /\ Dist(N, h, j) <= Dist(N, h, s)
          /\ Dist(N, h, j) \in 0 .. N - 1 /\ Step(N, h, Dist(N, h, j)) = j
          /\ Dist(N, h, s) \in 0 .. N - 1 /\ Step(N, h, Dist(N, h, s)) = s
      BY <1>1, <1>3, <1>5, <1>7, <2>2, RoundIs DEF h
    <3>2. CASE Dist(N, h, j) = Dist(N, h, s)
      <4>1. j = s
        BY <3>1, <3>2
      <4> QED
        BY <1>2, <1>7, <4>1
    <3>3. CASE Dist(N, h, j) # Dist(N, h, s)
      <4>1. Dist(N, h, j) < Dist(N, h, s)
        BY <3>1, <3>3
      <4>2. b[j].id # NoOrder
        BY <1>3, <4>1
      <4> QED
        BY <1>1, <1>2, <1>7, <4>2, BucketIs
    <3> QED
      BY <3>2, <3>3
  <2> QED
    BY <2>1, <2>2
<1>14. Cardinality(Taken(b)) + 1 < N
  OBVIOUS
<1> QED
  BY <1>8, <1>10, <1>11, <1>12, <1>13, <1>14 DEF Good, r

LEMMA NoEntriesIs ==
  ASSUME NEW n \in Nat \ {0}, hash \in [Ids -> Nat]
  PROVE  LET r == NoEntries(n) IN
         Good(n, r) /\ Held(r) = {} /\ Taken(r) = {} /\ Cardinality(Taken(r)) = 0
<1> DEFINE r == NoEntries(n)
<1>1. DOMAIN r = 0 .. n - 1 /\ \A i \in 0 .. n - 1 : r[i] = NoEntry
  BY DEF NoEntries
<1>2. Taken(r) = {} /\ Held(r) = {}
  BY <1>1 DEF Taken, Held
<1>3. Cardinality(Taken(r)) = 0
  BY <1>2, FS_EmptySet
<1>4. Shaped(n, r)
  BY DEF Shaped, NoEntries
<1>5. Unique(n, r) /\ Runs(n, r)
  BY <1>1 DEF Unique, Runs
<1>6. 0 < n
  OBVIOUS
<1> HIDE DEF r
<1>7. Good(n, r)
  BY <1>3, <1>4, <1>5, <1>6 DEF Good
<1> QED
  BY <1>2, <1>3, <1>7 DEF r

-----------------------------------------------------------------------------
(***************************************************************************)
(* Folds: the entries that a grown table takes, and those that are pulled back. *)
(***************************************************************************)

\* One step of either fold.
Do(kind, x, d) == IF kind = "pull" THEN Pull(x, d) ELSE Reinsert(x, d)

\* What FoldLeft does with the list q from v on.
Folds(g, kind, v, q, k) ==
  g = [s \in SUBSET (1 .. k) |->
         IF s = {} THEN v ELSE Do(kind, g[s \ {Max(s)}], q[Max(s)])]

\* There is such a function for every list: take the first length for which there is
\* none.
LEMMA FoldExists ==
  ASSUME NEW kind, NEW v, NEW q, NEW n \in Nat
  PROVE  \E g : Folds(g, kind, v, q, n)
<1> DEFINE T == {k \in Nat : ~ \E g : Folds(g, kind, v, q, k)}
<1> SUFFICES ASSUME T # {} PROVE FALSE
  OBVIOUS
<1>1. PICK k \in T : \A j \in T : k <= j
  BY LeastNat
<1>2. k # 0
  <2> DEFINE g == [s \in SUBSET (1 .. 0) |-> v]
  <2>1. \A s \in SUBSET (1 .. 0) : s = {}
    OBVIOUS
  <2>2. Folds(g, kind, v, q, 0)
    BY <2>1 DEF Folds
  <2> QED
    BY <2>2
<1>3. k \in Nat /\ k - 1 \in Nat /\ k - 1 \notin T
  <2>1. k \in Nat
    BY <1>1
  <2>2. k - 1 \in Nat /\ ~(k <= k - 1)
    BY <1>2, <2>1
  <2> QED
    BY <1>1, <2>1, <2>2
<1>4. PICK h : Folds(h, kind, v, q, k - 1)
  BY <1>3
<1> DEFINE g == [s \in SUBSET (1 .. k) |-> IF k \in s THEN Do(kind, h[s \ {k}], q[k]) ELSE h[s]]
<1>5. ASSUME NEW s \in SUBSET (1 .. k), k \notin s
      PROVE  s \in SUBSET (1 .. k - 1)
  BY <1>1, <1>5
<1>6. ASSUME NEW s \in SUBSET (1 .. k)
      PROVE  g[s] = IF s = {} THEN v ELSE Do(kind, g[s \ {Max(s)}], q[Max(s)])
  <2>1. CASE k \in s
    <3>1. k \in s /\ \A y \in s : k >= y
      BY <1>1, <2>1
    <3>2. \A x \in s : (\A y \in s : x >= y) => x = k
      BY <1>1, <2>1
    <3>3. Max(s) = k
      BY <3>1, <3>2 DEF Max
    <3>4. s \ {k} \in SUBSET (1 .. k) /\ k \notin s \ {k}
      OBVIOUS
    <3>5. g[s \ {k}] = h[s \ {k}]
      BY <3>4
    <3> QED
      BY <2>1, <3>3, <3>5
  <2>2. CASE k \notin s
    <3>1. s \in SUBSET (1 .. k - 1) /\ g[s] = h[s]
      BY <1>5, <2>2
    <3>2. h[s] = IF s = {} THEN v ELSE Do(kind, h[s \ {Max(s)}], q[Max(s)])
      BY <1>4, <3>1 DEF Folds
    <3>3. s \ {Max(s)} \in SUBSET (1 .. k) /\ k \notin s \ {Max(s)}
      BY <2>2
    <3>4. g[s \ {Max(s)}] = h[s \ {Max(s)}]
      BY <3>3
    <3> QED
      BY <3>1, <3>2, <3>4
  <2> QED
    BY <2>1, <2>2
<1>7. Folds(g, kind, v, q, k)
  <2> HIDE DEF g
  <2>1. g = [s \in SUBSET (1 .. k) |-> g[s]]
    BY DEF g
  <2> QED
    BY <1>6, <2>1 DEF Folds
<1> QED
  BY <1>1, <1>7

\* The greatest of the first k numbers, and what is left without it.
LEMMA FirstIs ==
  ASSUME NEW n \in Nat, NEW k \in 1 .. n
  PROVE  /\ 1 .. k \in SUBSET (1 .. n) /\ 1 .. k # {} /\ k - 1 \in 0 .. n /\ k \in 0 .. n
         /\ Max(1 .. k) = k /\ (1 .. k) \ {k} = 1 .. k - 1
<1>1. k \in Nat /\ 1 <= k /\ k <= n
  OBVIOUS
<1>2. 1 \in 1 .. k /\ \A x \in 1 .. k : x \in 1 .. n
  BY <1>1
<1>3. k \in 1 .. k /\ \A y \in 1 .. k : k >= y
  OBVIOUS
<1>4. \A x \in 1 .. k : (\A y \in 1 .. k : x >= y) => x = k
  OBVIOUS
<1>5. Max(1 .. k) = k
  BY <1>3, <1>4 DEF Max
<1>6. (1 .. k) \ {k} = 1 .. k - 1
  OBVIOUS
<1> QED
  BY <1>1, <1>2, <1>5, <1>6

\* What there is after each of the list q.
Carries(F, kind, v, q, n) == F[0] = v /\ \A k \in 1 .. n : F[k] = Do(kind, F[k - 1], q[k])

CarriesAll(kind, v, q, n) ==
  \E F : /\ Carries(F, kind, v, q, n)
         /\ F[n] = IF kind = "pull" THEN FoldLeft(Pull, v, q) ELSE FoldLeft(Reinsert, v, q)

Pulls(g, v, q, k) ==
  g = [s \in SUBSET (1 .. k) |-> IF s = {} THEN v ELSE Pull(g[s \ {Max(s)}], q[Max(s)])]
Reinserts(g, v, q, k) ==
  g = [s \in SUBSET (1 .. k) |-> IF s = {} THEN v ELSE Reinsert(g[s \ {Max(s)}], q[Max(s)])]

LEMMA CarryAll ==
  ASSUME NEW kind, NEW v, NEW q, NEW n \in Nat, DOMAIN q = 1 .. n
  PROVE  CarriesAll(kind, v, q, n)
<1> DEFINE p == CHOOSE g : Pulls(g, v, q, n)
           r == CHOOSE g : Reinserts(g, v, q, n)
           g == IF kind = "pull" THEN p ELSE r
           F == [k \in 0 .. n |-> g[1 .. k]]
<1>1. Folds(g, kind, v, q, n)
  <2>1. PICK f : Folds(f, kind, v, q, n)
    BY FoldExists
  <2>2. CASE kind = "pull"
    <3>1. Pulls(f, v, q, n)
      BY <2>1, <2>2 DEF Folds, Pulls, Do
    <3>2. Pulls(p, v, q, n)
      BY <3>1
    <3> HIDE DEF p
    <3>3. Folds(p, kind, v, q, n)
      BY <2>2, <3>2 DEF Folds, Pulls, Do
    <3> QED
      BY <2>2, <3>3
  <2>3. CASE kind # "pull"
    <3>1. Reinserts(f, v, q, n)
      BY <2>1, <2>3 DEF Folds, Reinserts, Do
    <3>2. Reinserts(r, v, q, n)
      BY <3>1
    <3> HIDE DEF r
    <3>3. Folds(r, kind, v, q, n)
      BY <2>3, <3>2 DEF Folds, Reinserts, Do
    <3> QED
      BY <2>3, <3>3
  <2> QED
    BY <2>2, <2>3
<1>2. /\ kind = "pull" => FoldLeft(Pull, v, q) = g[1 .. n]
      /\ kind # "pull" => FoldLeft(Reinsert, v, q) = g[1 .. n]
  <2>1. FoldLeft(Pull, v, q) = p[1 .. n]
    BY DEF FoldLeft, MapThenFoldSet, Pulls
  <2>2. FoldLeft(Reinsert, v, q) = r[1 .. n]
    BY DEF FoldLeft, MapThenFoldSet, Reinserts
  <2> HIDE DEF p, r
  <2> QED
    BY <2>1, <2>2
<1> HIDE DEF g
<1>3. F[0] = v
  <2>1. 1 .. 0 = {} /\ {} \in SUBSET (1 .. n) /\ 0 \in 0 .. n
    OBVIOUS
  <2>2. g[{}] = v
    BY <1>1, <2>1 DEF Folds
  <2> QED
    BY <2>1, <2>2
<1>4. ASSUME NEW k \in 1 .. n
      PROVE  F[k] = Do(kind, F[k - 1], q[k])
  <2>1. /\ 1 .. k \in SUBSET (1 .. n) /\ 1 .. k # {} /\ k - 1 \in 0 .. n /\ k \in 0 .. n
        /\ Max(1 .. k) = k /\ (1 .. k) \ {k} = 1 .. k - 1
    BY FirstIs
  <2>2. g[1 .. k] = Do(kind, g[1 .. k - 1], q[k])
    BY <1>1, <2>1 DEF Folds
  <2> QED
    BY <2>1, <2>2
<1>5. F[n] = g[1 .. n]
  <2>1. n \in 0 .. n
    OBVIOUS
  <2> QED
    BY <2>1
<1> HIDE DEF F
<1>6. Carries(F, kind, v, q, n)
  BY <1>3, <1>4 DEF Carries
<1> QED
  BY <1>2, <1>5, <1>6 DEF CarriesAll

-----------------------------------------------------------------------------
(***************************************************************************)
(* Growing.                                                                 *)
(***************************************************************************)

\* The first k buckets are in the new table.
Moved(N, b, t, k) ==
  /\ Good(2 * N, t)
  /\ Held(t) = {b[i] : i \in Taken(b) \intersect (0 .. k - 1)}
  /\ Cardinality(Taken(t)) = Cardinality(Taken(b) \intersect (0 .. k - 1))

LEMMA MovedOneMore ==
  ASSUME NEW N, NEW b, Good(N, b), NEW k \in 0 .. N - 1, NEW t, Moved(N, b, t, k)
  PROVE  Moved(N, b, Reinsert(t, b[k]), k + 1)
<1> DEFINE A == Taken(b) \intersect (0 .. k - 1)
           B == Taken(b) \intersect (0 .. k)
<1>1. N \in Nat \ {0} /\ k \in Nat /\ (k + 1) - 1 = k /\ Shaped(N, b) /\ DOMAIN b = 0 .. N - 1
  BY DEF Good, Shaped
<1>2. Good(2 * N, t) /\ Held(t) = {b[i] : i \in A} /\ Cardinality(Taken(t)) = Cardinality(A)
  BY DEF Moved
<1>3. IsFiniteSet(A) /\ Cardinality(A) \in Nat /\ Cardinality(A) <= k
  <2>1. IsFiniteSet(0 .. k - 1) /\ Cardinality(0 .. k - 1) = k
    <3>1. 0 \in Int /\ k - 1 \in Int /\ (0 > k - 1 => k = 0) /\ (k - 1) - 0 + 1 = k
      BY <1>1
    <3> QED
      BY <3>1, FS_Interval
  <2>2. A \in SUBSET (0 .. k - 1)
    OBVIOUS
  <2> HIDE DEF A
  <2> QED
    BY <2>1, <2>2, FS_Subset, FS_CardinalityType
<1>4. CASE b[k] = NoEntry
  <2>1. B = A
    BY <1>1, <1>4 DEF Taken
  <2> HIDE DEF A, B
  <2>2. Reinsert(t, b[k]) = t
    BY <1>4 DEF Reinsert
  <2> QED
    BY <1>1, <1>2, <2>1, <2>2 DEF Moved, A, B
<1>5. CASE b[k] # NoEntry
  <2>1. B = A \union {k} /\ k \notin A /\ A \subseteq 0 .. N - 1
    BY <1>1, <1>5 DEF Taken
  <2>2. b[k] \in Entries /\ Shaped(2 * N, t) /\ DOMAIN t = 0 .. (2 * N) - 1
    BY <1>1, <1>2, <1>5, BucketIs DEF Good, Shaped
  <2> HIDE DEF A, B
  <2>3. ASSUME NEW x \in 0 .. (2 * N) - 1, t[x].id = b[k].id
        PROVE  FALSE
    <3>1. b[k].id # NoOrder
      BY <1>1, <1>5, BucketIs
    <3>2. t[x] # NoEntry
      BY <2>2, <2>3, <3>1, BucketIs
    <3>3. t[x] \in Held(t)
      BY <2>2, <3>2 DEF Held, Taken
    <3>4. PICK i \in A : t[x] = b[i]
      BY <1>2, <3>3
    <3>5. i = k
      BY <1>5, <2>1, <2>3, <3>4 DEF Good, Unique
    <3> QED
      BY <2>1, <3>5
  <2>4. Cardinality(Taken(t)) + 1 < 2 * N
    BY <1>1, <1>2, <1>3
  <2>5. Reinsert(t, b[k]) = Put(t, b[k])
    BY <1>5 DEF Reinsert
  <2> DEFINE r == Put(t, b[k])
  <2>6. /\ Good(2 * N, r) /\ Held(r) = Held(t) \union {b[k]}
        /\ Cardinality(Taken(r)) = Cardinality(Taken(t)) + 1
    BY <1>2, <2>2, <2>3, <2>4, PutIs
  <2> HIDE DEF r
  <2>7. Held(r) = {b[i] : i \in B}
    BY <1>2, <2>1, <2>6
  <2>8. Cardinality(B) = Cardinality(A) + 1
    BY <1>3, <2>1, FS_AddElement
  <2>9. Moved(N, b, r, k + 1)
    BY <1>1, <1>2, <2>6, <2>7, <2>8 DEF Moved, B
  <2> QED
    BY <2>5, <2>9 DEF r
<1> QED
  BY <1>4, <1>5

LEMMA GrownIs ==
  ASSUME NEW N, NEW b, Good(N, b)
  PROVE  LET r == Grown(b) IN
         Good(2 * N, r) /\ Held(r) = Held(b) /\ Cardinality(Taken(r)) = Cardinality(Taken(b))
<1> DEFINE q == [i \in 1 .. N |-> b[i - 1]]
           v == NoEntries(2 * N)
<1>1. N \in Nat \ {0} /\ 2 * N \in Nat \ {0} /\ hash \in [Ids -> Nat] /\ DOMAIN b = 0 .. N - 1
  BY DEF Good, Shaped
<1>2. Capacity(b) = N
  BY ShapedIs DEF Good
<1>3. Grown(b) = FoldLeft(Reinsert, v, q)
  BY <1>2 DEF Grown
<1>4. DOMAIN q = 1 .. N /\ \A i \in 1 .. N : q[i] = b[i - 1]
  OBVIOUS
<1>5. Moved(N, b, v, 0)
  <2>1. Taken(b) \intersect (0 .. 0 - 1) = {}
    OBVIOUS
  <2>2. Good(2 * N, v) /\ Held(v) = {} /\ Cardinality(Taken(v)) = 0
    BY <1>1, NoEntriesIs
  <2> HIDE DEF v
  <2>3. Cardinality({}) = 0
    BY FS_EmptySet
  <2> QED
    BY <2>1, <2>2, <2>3 DEF Moved
<1> HIDE DEF v, q
<1>6. PICK F : Carries(F, "grow", v, q, N) /\ F[N] = FoldLeft(Reinsert, v, q)
  <2>1. CarriesAll("grow", v, q, N)
    BY <1>1, <1>4, CarryAll
  <2> QED
    BY <2>1 DEF CarriesAll
<1> DEFINE T == {k \in Nat : k <= N /\ ~Moved(N, b, F[k], k)}
<1>7. T = {}
  <2> SUFFICES ASSUME T # {} PROVE FALSE
    OBVIOUS
  <2>1. PICK k \in T : \A j \in T : k <= j
    BY LeastNat
  <2>2. k \in Nat /\ k <= N /\ ~Moved(N, b, F[k], k)
    BY <2>1
  <2> HIDE DEF T
  <2>3. k # 0
    <3>1. F[0] = v
      BY <1>6 DEF Carries
    <3> QED
      BY <1>5, <2>2, <3>1
  <2>4. PICK m \in Nat : k = m + 1
    BY <2>2, <2>3
  <2>5. m \notin T
    <3>1. ~(k <= m)
      BY <2>4
    <3> QED
      BY <2>1, <3>1
  <2>6. Moved(N, b, F[m], m)
    <3>1. m <= N
      BY <1>1, <2>2, <2>4
    <3> QED
      BY <2>5, <3>1 DEF T
  <2>7. m + 1 \in 1 .. N /\ (m + 1) - 1 = m /\ m \in 0 .. N - 1
    BY <1>1, <2>2, <2>4
  <2>8. F[m + 1] = Reinsert(F[m], b[m])
    BY <1>4, <1>6, <2>7 DEF Carries, Do
  <2> QED
    BY <2>2, <2>4, <2>6, <2>7, <2>8, MovedOneMore
<1>8. Moved(N, b, F[N], N)
  <2>1. N \in Nat /\ N <= N
    BY <1>1
  <2> QED
    BY <1>7, <2>1
<1>9. Taken(b) \intersect (0 .. N - 1) = Taken(b)
  BY <1>1 DEF Taken
<1> QED
  BY <1>3, <1>6, <1>8, <1>9 DEF Moved, Held

-----------------------------------------------------------------------------
(***************************************************************************)
(* Erasing.  Going round from bucket i, a path from p to x is every y with       *)
(* Dist(N, p, y) <= Dist(N, p, x).                                           *)
(***************************************************************************)

\* A path that passes h and ends behind e passes e, which lies between.
LEMMA PathPasses ==
  ASSUME NEW N \in Nat \ {0}, NEW i \in 0 .. N - 1, NEW p \in 0 .. N - 1, NEW x \in 0 .. N - 1,
         NEW h \in 0 .. N - 1, NEW e \in 0 .. N - 1,
         Dist(N, i, h) < Dist(N, i, e), Dist(N, i, e) < Dist(N, i, x),
         Dist(N, p, h) <= Dist(N, p, x)
  PROVE  Dist(N, p, e) <= Dist(N, p, x)
BY DEF Dist

\* A path that ends before j and yet passes it has gone round, through all behind j.
LEMMA PathGoesRound ==
  ASSUME NEW N \in Nat \ {0}, NEW i \in 0 .. N - 1, NEW p \in 0 .. N - 1, NEW x \in 0 .. N - 1,
         NEW j \in 0 .. N - 1, NEW e \in 0 .. N - 1,
         Dist(N, i, x) < Dist(N, i, j), Dist(N, i, j) < Dist(N, i, e),
         Dist(N, p, j) <= Dist(N, p, x)
  PROVE  Dist(N, p, e) <= Dist(N, p, x)
BY DEF Dist

\* What may not fill the hole hashes behind it, what may hashes to it or before it.
LEMMA PathBehindHole ==
  ASSUME NEW N \in Nat \ {0}, NEW p \in 0 .. N - 1, NEW h \in 0 .. N - 1, NEW j \in 0 .. N - 1,
         Dist(N, h, p) # 0, Dist(N, h, p) <= Dist(N, h, j)
  PROVE  ~(Dist(N, p, h) <= Dist(N, p, j))
BY DEF Dist

LEMMA PathToHole ==
  ASSUME NEW N \in Nat \ {0}, NEW p \in 0 .. N - 1, NEW h \in 0 .. N - 1, NEW j \in 0 .. N - 1,
         j # h, Dist(N, h, p) = 0 \/ Dist(N, h, p) > Dist(N, h, j),
         NEW y \in 0 .. N - 1, Dist(N, p, y) <= Dist(N, p, h)
  PROVE  y # j /\ Dist(N, p, y) <= Dist(N, p, j)
BY DEF Dist

\* The table c with the hole h, when the k buckets behind i have been looked at: the
\* hole is one of them, the rest is as it was, and what hashes before the hole and
\* lies behind it is still to be looked at.
Shift(N, b, i, k, c, h) ==
  /\ Shaped(N, c) /\ h \in 0 .. N - 1 /\ Dist(N, i, h) <= k /\ c[h] # NoEntry
  /\ Taken(c) = Taken(b)
  /\ \A x \in 0 .. N - 1 : Dist(N, i, x) > k => c[x] = b[x]
  /\ \A x, y \in 0 .. N - 1 : x # h /\ y # h /\ c[x] # NoEntry /\ c[x].id = c[y].id => x = y
  /\ \A x, y \in 0 .. N - 1 :
       x # h /\ c[x] # NoEntry /\ Dist(N, Home(N, c[x].id), y) <= Dist(N, Home(N, c[x].id), x) =>
         c[y] # NoEntry /\ (y = h => Dist(N, i, x) > k)
  /\ {c[x] : x \in Taken(c) \ {h}} = {b[x] : x \in Taken(b) \ {i}}

LEMMA ShiftNone ==
  ASSUME NEW N, NEW b, Good(N, b), NEW i \in 0 .. N - 1, b[i] # NoEntry
  PROVE  Shift(N, b, i, 0, b, i)
<1>1. Shaped(N, b) /\ N \in Nat \ {0} /\ Unique(N, b) /\ Runs(N, b)
  BY DEF Good, Shaped
<1>2. Dist(N, i, i) <= 0 /\ \A x \in 0 .. N - 1 : x # i => Dist(N, i, x) > 0
  BY <1>1 DEF Dist
<1>3. \A x, y \in 0 .. N - 1 :
        x # i /\ y # i /\ b[x] # NoEntry /\ b[x].id = b[y].id => x = y
  BY <1>1 DEF Unique
<1>4. \A x, y \in 0 .. N - 1 :
        x # i /\ b[x] # NoEntry /\ Dist(N, Home(N, b[x].id), y) <= Dist(N, Home(N, b[x].id), x) =>
          b[y] # NoEntry /\ (y = i => Dist(N, i, x) > 0)
  BY <1>1, <1>2 DEF Runs
<1> QED
  BY <1>1, <1>2, <1>3, <1>4 DEF Shift

\* The entry at j stays: it hashes behind the hole.
LEMMA ShiftStays ==
  ASSUME NEW N, NEW b, NEW i \in 0 .. N - 1, NEW k \in Nat, NEW c, NEW h, Shift(N, b, i, k, c, h),
         NEW j \in 0 .. N - 1, Dist(N, i, j) = k + 1, c[j] # NoEntry,
         Dist(N, h, Home(N, c[j].id)) # 0, Dist(N, h, Home(N, c[j].id)) <= Dist(N, h, j)
  PROVE  Shift(N, b, i, k + 1, c, h)
<1>1. Shaped(N, c) /\ N \in Nat \ {0} /\ h \in 0 .. N - 1 /\ Dist(N, i, h) <= k
  BY DEF Shift, Shaped
<1>2. /\ \A x \in 0 .. N - 1 : Dist(N, i, x) \in Nat /\ Step(N, i, Dist(N, i, x)) = x
      /\ Dist(N, i, h) \in Nat
  BY <1>1, AheadIs
<1>3. ASSUME NEW x \in 0 .. N - 1, x # h, c[x] # NoEntry,
             Dist(N, Home(N, c[x].id), h) <= Dist(N, Home(N, c[x].id), x)
      PROVE  Dist(N, i, x) > k + 1
  <2>1. Dist(N, i, x) > k
    BY <1>1, <1>3 DEF Shift
  <2>2. Dist(N, i, x) # k + 1
    <3> SUFFICES ASSUME Dist(N, i, x) = k + 1 PROVE FALSE
      OBVIOUS
    <3>1. x = j
      BY <1>2
    <3>2. Home(N, c[j].id) \in 0 .. N - 1
      BY <1>1, BucketIs, ShapedIs
    <3> QED
      BY <1>1, <1>3, <3>1, <3>2, PathBehindHole
  <2> QED
    BY <1>2, <2>1, <2>2
<1>4. ASSUME NEW x \in 0 .. N - 1, Dist(N, i, x) > k + 1
      PROVE  c[x] = b[x]
  <2>1. Dist(N, i, x) > k
    BY <1>2, <1>4
  <2> QED
    BY <2>1 DEF Shift
<1>5. Dist(N, i, h) <= k + 1
  BY <1>1, <1>2
<1> QED
  BY <1>3, <1>4, <1>5 DEF Shift

\* The entry at j goes into the hole, and leaves one; e is the end of the run.
LEMMA ShiftMoves ==
  ASSUME NEW N, NEW b, NEW i \in 0 .. N - 1, NEW k \in Nat, NEW c, NEW h, Shift(N, b, i, k, c, h),
         NEW j \in 0 .. N - 1, Dist(N, i, j) = k + 1, c[j] # NoEntry,
         NEW e \in 0 .. N - 1, Dist(N, i, e) > k + 1, b[e] = NoEntry,
         Dist(N, h, Home(N, c[j].id)) = 0 \/ Dist(N, h, Home(N, c[j].id)) > Dist(N, h, j)
  PROVE  Shift(N, b, i, k + 1, [c EXCEPT ![h] = c[j]], j)
<1> DEFINE r == [c EXCEPT ![h] = c[j]]
<1>1. /\ Shaped(N, c) /\ N \in Nat \ {0} /\ h \in 0 .. N - 1 /\ Dist(N, i, h) <= k
      /\ DOMAIN c = 0 .. N - 1 /\ c[h] # NoEntry /\ Taken(c) = Taken(b)
  BY DEF Shift, Shaped
<1>2. /\ \A x \in 0 .. N - 1 : Dist(N, i, x) \in Nat /\ Step(N, i, Dist(N, i, x)) = x
      /\ Dist(N, i, h) \in Nat
  BY <1>1, AheadIs
<1>3. j # h
  BY <1>1, <1>2
<1>4. /\ DOMAIN r = 0 .. N - 1 /\ r[h] = c[j] /\ r[j] = c[j]
      /\ \A x \in 0 .. N - 1 : x # h => r[x] = c[x]
  BY <1>1, <1>3
<1>5. Shaped(N, r)
  BY <1>1 DEF Shaped
<1> HIDE DEF r
<1>6. \A x \in 0 .. N - 1 : r[x] # NoEntry <=> c[x] # NoEntry
  BY <1>1, <1>4
<1>7. Taken(r) = Taken(b)
  BY <1>1, <1>4, <1>6 DEF Taken
<1>8. ASSUME NEW x \in 0 .. N - 1, Dist(N, i, x) > k + 1
      PROVE  r[x] = b[x]
  <2>1. Dist(N, i, x) > k /\ x # h
    BY <1>1, <1>2, <1>8
  <2> QED
    BY <1>4, <2>1 DEF Shift
<1>9. ASSUME NEW x \in 0 .. N - 1, NEW y \in 0 .. N - 1, x # j, y # j, r[x] # NoEntry,
             r[x].id = r[y].id
      PROVE  x = y
  <2> DEFINE old(z) == IF z = h THEN j ELSE z
  <2>1. /\ old(x) \in 0 .. N - 1 /\ old(x) # h /\ r[x] = c[old(x)]
        /\ old(y) \in 0 .. N - 1 /\ old(y) # h /\ r[y] = c[old(y)]
    BY <1>3, <1>4
  <2>2. old(x) = old(y) => x = y
    BY <1>9
  <2> HIDE DEF old
  <2> QED
    BY <1>9, <2>1, <2>2 DEF Shift
<1>10. {r[x] : x \in Taken(r) \ {j}} = {c[x] : x \in Taken(c) \ {h}}
  <2>1. /\ \A x \in Taken(c) : x \in 0 .. N - 1
        /\ Taken(r) = Taken(c) /\ h \in Taken(c) /\ j \in Taken(c)
    BY <1>1, <1>7 DEF Taken
  <2>2. ASSUME NEW x \in Taken(r) \ {j}
        PROVE  r[x] \in {c[y] : y \in Taken(c) \ {h}}
    <3>1. CASE x = h
      BY <1>3, <1>4, <2>1, <3>1
    <3>2. CASE x # h
      BY <1>4, <2>1, <3>2
    <3> QED
      BY <3>1, <3>2
  <2>3. ASSUME NEW x \in Taken(c) \ {h}
        PROVE  c[x] \in {r[y] : y \in Taken(r) \ {j}}
    <3>1. CASE x = j
      BY <1>3, <1>4, <2>1, <3>1
    <3>2. CASE x # j
      BY <1>4, <2>1, <3>2
    <3> QED
      BY <3>1, <3>2
  <2> QED
    BY <2>2, <2>3
<1>11. c[e] = NoEntry
  <2>1. Dist(N, i, e) > k
    BY <1>2
  <2> QED
    BY <2>1 DEF Shift
<1>12. ASSUME NEW x \in 0 .. N - 1, NEW y \in 0 .. N - 1, x # j, r[x] # NoEntry,
              Dist(N, Home(N, r[x].id), y) <= Dist(N, Home(N, r[x].id), x)
       PROVE  r[y] # NoEntry /\ (y = j => Dist(N, i, x) > k + 1)
  <2>1. CASE x = h
    <3> DEFINE p == Home(N, c[j].id)
    <3>1. p \in 0 .. N - 1
      BY <1>1, BucketIs, ShapedIs
    <3>2. Dist(N, p, y) <= Dist(N, p, h)
      BY <1>4, <1>12, <2>1
    <3>3. y # j /\ Dist(N, p, y) <= Dist(N, p, j)
      <4> HIDE DEF p
      <4>1. Dist(N, h, p) = 0 \/ Dist(N, h, p) > Dist(N, h, j)
        BY DEF p
      <4> QED
        BY <1>1, <1>3, <3>1, <3>2, <4>1, PathToHole
    <3>4. c[y] # NoEntry
      BY <1>3, <3>3 DEF Shift
    <3> QED
      BY <1>6, <3>3, <3>4
  <2>2. CASE x # h
    <3>1. r[x] = c[x] /\ c[x] # NoEntry
      BY <1>4, <1>12, <2>2
    <3> DEFINE p == Home(N, c[x].id)
    <3>2. Dist(N, p, y) <= Dist(N, p, x)
      BY <1>12, <3>1
    <3>3. c[y] # NoEntry
      BY <2>2, <3>1, <3>2 DEF Shift
    <3>4. ASSUME y = j, ~(Dist(N, i, x) > k + 1)
          PROVE  FALSE
      <4>1. p \in 0 .. N - 1
        <5>1. c[x].id \in Ids
          BY <1>1, <3>1, BucketIs
        <5> QED
          BY <1>1, <5>1, ShapedIs
      <4>2. Dist(N, i, x) # k + 1
        BY <1>2, <1>12
      <4>3. Dist(N, i, x) < Dist(N, i, j) /\ Dist(N, i, j) < Dist(N, i, e)
        BY <1>2, <3>4, <4>2
      <4>4. Dist(N, p, e) <= Dist(N, p, x)
        <5> HIDE DEF p
        <5> QED
          BY <1>1, <3>2, <3>4, <4>1, <4>3, PathGoesRound
      <4>5. c[e] # NoEntry
        BY <2>2, <3>1, <4>4 DEF Shift
      <4> QED
        BY <1>11, <4>5
    <3> QED
      BY <1>6, <3>3, <3>4
  <2> QED
    BY <2>1, <2>2
<1>13. Dist(N, i, j) <= k + 1
  OBVIOUS
<1>14. {r[x] : x \in Taken(r) \ {j}} = {b[x] : x \in Taken(b) \ {i}}
  BY <1>10 DEF Shift
<1>15. Shift(N, b, i, k + 1, r, j)
  BY <1>4, <1>5, <1>7, <1>8, <1>9, <1>12, <1>13, <1>14 DEF Shift
<1> QED
  BY <1>15 DEF r

\* One bucket of the run looked at; e is the end of the run.
LEMMA PullIs ==
  ASSUME NEW N, NEW b, NEW i \in 0 .. N - 1, NEW k \in Nat,
         NEW s, Shift(N, b, i, k, s.b, s.hole),
         NEW j \in 0 .. N - 1, Dist(N, i, j) = k + 1, b[j] # NoEntry,
         NEW e \in 0 .. N - 1, Dist(N, i, e) > k + 1, b[e] = NoEntry
  PROVE  Shift(N, b, i, k + 1, Pull(s, j).b, Pull(s, j).hole)
<1> DEFINE c == s.b
           h == s.hole
           p == Home(N, c[j].id)
           d == Dist(N, h, p)
<1>1. /\ Shift(N, b, i, k, c, h)
      /\ Pull(s, j) = IF MayFill(c, h, j) THEN [b |-> [c EXCEPT ![h] = c[j]], hole |-> j] ELSE s
  BY DEF Pull
<1>2. s.b = c /\ s.hole = h
  OBVIOUS
<1> HIDE DEF c, h
<1>3. Shaped(N, c) /\ N \in Nat \ {0} /\ h \in 0 .. N - 1
  BY <1>1 DEF Shift, Shaped
<1>4. c[j] # NoEntry
  <2>1. Dist(N, i, j) > k
    OBVIOUS
  <2> QED
    BY <1>1, <2>1 DEF Shift
<1>5. c[j].id \in Ids
  BY <1>3, <1>4, BucketIs
<1>6. p \in 0 .. N - 1 /\ IndexOf(c, c[j].id) = p /\ Capacity(c) = N
  BY <1>3, <1>5, ShapedIs
<1> HIDE DEF p
<1>7. Ahead(c, h, p) = d /\ Ahead(c, h, j) = Dist(N, h, j)
  BY <1>3, <1>6, ModIs DEF Ahead, Wrap
<1>8. d \in Nat /\ Dist(N, h, j) \in Nat
  BY <1>3, <1>6, AheadIs
<1>9. MayFill(c, h, j) <=> d = 0 \/ d > Dist(N, h, j)
  BY <1>6, <1>7 DEF MayFill
<1> HIDE DEF d
<1>10. CASE MayFill(c, h, j)
  <2>1. Dist(N, h, Home(N, c[j].id)) = 0 \/ Dist(N, h, Home(N, c[j].id)) > Dist(N, h, j)
    BY <1>9, <1>10 DEF d, p
  <2>2. Shift(N, b, i, k + 1, [c EXCEPT ![h] = c[j]], j)
    BY <1>1, <1>4, <2>1, ShiftMoves
  <2>3. Pull(s, j).b = [c EXCEPT ![h] = c[j]] /\ Pull(s, j).hole = j
    BY <1>1, <1>10
  <2> QED
    BY <2>2, <2>3
<1>11. CASE ~MayFill(c, h, j)
  <2>1. Dist(N, h, Home(N, c[j].id)) # 0 /\ Dist(N, h, Home(N, c[j].id)) <= Dist(N, h, j)
    <3>1. d # 0 /\ d <= Dist(N, h, j)
      BY <1>8, <1>9, <1>11
    <3> QED
      BY <3>1 DEF d, p
  <2>2. Shift(N, b, i, k + 1, c, h)
    BY <1>1, <1>4, <2>1, ShiftStays
  <2>3. Pull(s, j).b = c /\ Pull(s, j).hole = h
    BY <1>1, <1>2, <1>11
  <2> QED
    BY <2>2, <2>3
<1> QED
  BY <1>10, <1>11

\* The run that follows i has m buckets, and e ends it.
RunOf(N, b, i, m, e) ==
  /\ m \in Nat /\ DOMAIN RunAfter(b, i) = 1 .. m
  /\ e \in 0 .. N - 1 /\ Dist(N, i, e) = m + 1 /\ b[e] = NoEntry
  /\ \A k \in 1 .. m :
       /\ RunAfter(b, i)[k] \in 0 .. N - 1
       /\ Dist(N, i, RunAfter(b, i)[k]) = k
       /\ b[RunAfter(b, i)[k]] # NoEntry

LEMMA RunIs ==
  ASSUME NEW N, NEW b, Good(N, b), NEW i \in 0 .. N - 1, b[i] # NoEntry
  PROVE  \E m : \E e : RunOf(N, b, i, m, e)
<1> DEFINE T == {k \in 1 .. N : b[Step(N, i, k)] = NoEntry}
           end == Min(T)
           q == RunAfter(b, i)
<1>1. Shaped(N, b) /\ N \in Nat \ {0} /\ Cardinality(Taken(b)) < N
  BY DEF Good, Shaped
<1>2. Capacity(b) = N
  BY <1>1, ShapedIs
<1>3. \A k \in 1 .. N : Along(b, i, k) = Step(N, i, k)
  BY <1>1, <1>2, ModIs DEF Along, Wrap
<1>4. q = [k \in 1 .. end - 1 |-> Along(b, i, k)]
  <2>1. T = {k \in 1 .. N : b[Along(b, i, k)] = NoEntry}
    BY <1>3
  <2> QED
    BY <1>2, <2>1 DEF RunAfter
<1>5. T # {}
  <2>1. PICK f \in 0 .. N - 1 : b[f] = NoEntry
    BY <1>1, EmptyIs
  <2>2. Dist(N, i, f) \in Nat /\ Dist(N, i, f) < N /\ Step(N, i, Dist(N, i, f)) = f
    BY <1>1, AheadIs
  <2>3. Dist(N, i, f) # 0
    BY <1>1, <2>1 DEF Dist
  <2>4. Dist(N, i, f) \in 1 .. N
    BY <1>1, <2>2, <2>3
  <2> QED
    BY <2>1, <2>2, <2>4
<1>6. end \in T /\ \A k \in T : end <= k
  <2>1. T \subseteq Nat
    BY <1>1
  <2> HIDE DEF T
  <2> QED
    BY <1>5, <2>1, MinIs
<1>7. N \notin T
  <2>1. Step(N, i, N) = i
    BY <1>1 DEF Step
  <2> QED
    BY <2>1
<1> HIDE DEF end
<1>8. end \in 1 .. N - 1 /\ b[Step(N, i, end)] = NoEntry
  <2>1. end \in 1 .. N /\ end # N
    BY <1>6, <1>7
  <2> QED
    BY <1>1, <1>6, <2>1
<1>9. ASSUME NEW k \in 1 .. end - 1
      PROVE  q[k] \in 0 .. N - 1 /\ Dist(N, i, q[k]) = k /\ b[q[k]] # NoEntry
  <2>1. k \in 1 .. N /\ k \in 0 .. N - 1 /\ ~(end <= k)
    BY <1>1, <1>8
  <2>2. q[k] = Step(N, i, k)
    BY <1>3, <1>4, <2>1
  <2>3. b[Step(N, i, k)] # NoEntry
    BY <1>6, <2>1
  <2> HIDE DEF q, T
  <2>4. Step(N, i, k) \in 0 .. N - 1 /\ Dist(N, i, Step(N, i, k)) = k
    BY <1>1, <2>1, RoundIs
  <2> QED
    BY <2>2, <2>3, <2>4
<1>10. Step(N, i, end) \in 0 .. N - 1 /\ Dist(N, i, Step(N, i, end)) = end
  BY <1>1, <1>8, RoundIs
<1>11. DOMAIN q = 1 .. end - 1
  BY <1>4
<1>12. end - 1 \in Nat /\ (end - 1) + 1 = end
  BY <1>1, <1>8
<1> HIDE DEF q, T
<1>13. RunOf(N, b, i, end - 1, Step(N, i, end))
  BY <1>8, <1>9, <1>10, <1>11, <1>12 DEF RunOf, q
<1> QED
  BY <1>13

\* The table b without its entry at i.
Loses(N, b, i, r) ==
  /\ Good(N, r) /\ Held(r) = Held(b) \ {b[i]}
  /\ Cardinality(Taken(r)) = Cardinality(Taken(b)) - 1

\* The run looked at, the hole is emptied.
LEMMA ShiftDone ==
  ASSUME NEW N, NEW b, Good(N, b), NEW i \in 0 .. N - 1, b[i] # NoEntry,
         NEW m, NEW e, RunOf(N, b, i, m, e), NEW c, NEW h, Shift(N, b, i, m, c, h)
  PROVE  Loses(N, b, i, [c EXCEPT ![h] = NoEntry])
<1> DEFINE r == [c EXCEPT ![h] = NoEntry]
<1>1. /\ Shaped(N, c) /\ N \in Nat \ {0} /\ h \in 0 .. N - 1 /\ Dist(N, i, h) <= m
      /\ DOMAIN c = 0 .. N - 1 /\ c[h] # NoEntry /\ Taken(c) = Taken(b)
  BY DEF Shift, Shaped
<1>2. m \in Nat /\ e \in 0 .. N - 1 /\ Dist(N, i, e) = m + 1 /\ b[e] = NoEntry
  BY DEF RunOf
<1>3. Shaped(N, b) /\ Unique(N, b) /\ DOMAIN b = 0 .. N - 1 /\ Cardinality(Taken(b)) < N
  BY DEF Good, Shaped
<1>4. /\ DOMAIN r = 0 .. N - 1 /\ r[h] = NoEntry
      /\ \A x \in 0 .. N - 1 : x # h => r[x] = c[x]
  BY <1>1
<1>5. Shaped(N, r)
  BY <1>1 DEF Shaped
<1> HIDE DEF r
<1>6. Taken(r) = Taken(b) \ {h} /\ h \in Taken(b)
  BY <1>1, <1>4 DEF Taken
<1>7. Cardinality(Taken(r)) = Cardinality(Taken(b)) - 1
  BY <1>3, <1>6, ShapedIs, FS_RemoveElement
<1>8. Held(r) = Held(b) \ {b[i]}
  <2>1. \A x \in Taken(r) : r[x] = c[x]
    BY <1>3, <1>4, <1>6 DEF Taken
  <2>2. Held(r) = {c[x] : x \in Taken(c) \ {h}}
    BY <1>1, <1>6, <2>1 DEF Held
  <2>3. Held(r) = {b[x] : x \in Taken(b) \ {i}}
    BY <2>2 DEF Shift
  <2>4. \A x \in Taken(b) : b[x] = b[i] => x = i
    BY <1>3 DEF Taken, Unique
  <2>5. i \in Taken(b)
    BY <1>3 DEF Taken
  <2> QED
    BY <2>3, <2>4, <2>5 DEF Held
<1>9. Unique(N, r)
  <2> SUFFICES ASSUME NEW x \in 0 .. N - 1, NEW y \in 0 .. N - 1, r[x] # NoEntry, r[x].id = r[y].id
               PROVE  x = y
    BY DEF Unique
  <2>1. x # h /\ r[x].id # NoOrder
    <3>1. r[x].id # NoOrder
      BY <1>5, BucketIs
    <3> QED
      BY <1>4, <3>1
  <2>2. y # h
    BY <1>4, <2>1 DEF NoEntry
  <2>3. r[x] = c[x] /\ r[y] = c[y]
    BY <1>4, <2>1, <2>2
  <2> QED
    BY <2>1, <2>2, <2>3 DEF Shift
<1>10. c[e] = NoEntry
  <2>1. Dist(N, i, e) > m
    BY <1>2
  <2> QED
    BY <1>2, <2>1 DEF Shift
<1>11. Runs(N, r)
  <2> SUFFICES ASSUME NEW x \in 0 .. N - 1, NEW y \in 0 .. N - 1, r[x] # NoEntry,
                      Dist(N, Home(N, r[x].id), y) <= Dist(N, Home(N, r[x].id), x)
               PROVE  r[y] # NoEntry
    BY DEF Runs
  <2> DEFINE p == Home(N, c[x].id)
  <2>1. x # h /\ r[x] = c[x] /\ c[x] # NoEntry
    BY <1>4
  <2>2. Dist(N, p, y) <= Dist(N, p, x)
    BY <2>1
  <2>3. c[y] # NoEntry /\ (y = h => Dist(N, i, x) > m)
    BY <2>1, <2>2 DEF Shift
  <2>4. p \in 0 .. N - 1
    <3>1. c[x].id \in Ids
      BY <1>1, <2>1, BucketIs
    <3> QED
      BY <1>1, <3>1, ShapedIs
  <2>5. ASSUME y = h
        PROVE  FALSE
    <3>1. Dist(N, i, x) # m + 1
      <4>1. Step(N, i, Dist(N, i, x)) = x /\ Step(N, i, Dist(N, i, e)) = e
        BY <1>2, <1>1, AheadIs
      <4> QED
        BY <1>2, <1>10, <2>1, <4>1
    <3>2. Dist(N, i, h) \in Nat /\ Dist(N, i, x) \in Nat
      BY <1>1, AheadIs
    <3>3. Dist(N, i, h) < Dist(N, i, e) /\ Dist(N, i, e) < Dist(N, i, x)
      BY <1>2, <1>1, <2>3, <2>5, <3>1, <3>2
    <3>4. Dist(N, p, e) <= Dist(N, p, x)
      <4> HIDE DEF p
      <4> QED
        BY <1>2, <1>1, <2>2, <2>4, <2>5, <3>3, PathPasses
    <3>5. c[e] # NoEntry
      BY <1>2, <2>1, <3>4 DEF Shift
    <3> QED
      BY <1>10, <3>5
  <2> QED
    BY <1>4, <2>3, <2>5
<1>12. Cardinality(Taken(r)) < N
  <2>1. Cardinality(Taken(b)) \in Nat
    BY <1>3, ShapedIs
  <2> QED
    BY <1>1, <1>3, <1>7, <2>1
<1>13. Good(N, r)
  BY <1>5, <1>9, <1>11, <1>12 DEF Good
<1>14. Loses(N, b, i, r)
  BY <1>7, <1>8, <1>13 DEF Loses
<1> QED
  BY <1>14 DEF r

LEMMA WithoutIs ==
  ASSUME NEW N, NEW b, Good(N, b), NEW i \in 0 .. N - 1, b[i] # NoEntry
  PROVE  Loses(N, b, i, Without(b, i))
<1> DEFINE q == RunAfter(b, i)
           v == [b |-> b, hole |-> i]
<1>1. PICK m, e : RunOf(N, b, i, m, e)
  BY RunIs
<1>2. /\ m \in Nat /\ DOMAIN q = 1 .. m
      /\ e \in 0 .. N - 1 /\ Dist(N, i, e) = m + 1 /\ b[e] = NoEntry
      /\ \A k \in 1 .. m : q[k] \in 0 .. N - 1 /\ Dist(N, i, q[k]) = k /\ b[q[k]] # NoEntry
  BY <1>1 DEF RunOf
<1>3. Shift(N, b, i, 0, v.b, v.hole)
  BY ShiftNone
<1> DEFINE last == FoldLeft(Pull, v, q)
<1>4. Without(b, i) = [last.b EXCEPT ![last.hole] = NoEntry]
  BY DEF Without
<1> HIDE DEF v, q
<1>5. PICK F : Carries(F, "pull", v, q, m) /\ F[m] = last
  <2>1. CarriesAll("pull", v, q, m)
    BY <1>2, CarryAll
  <2> QED
    BY <2>1 DEF CarriesAll
<1> HIDE DEF last
<1> DEFINE T == {k \in Nat : k <= m /\ ~Shift(N, b, i, k, F[k].b, F[k].hole)}
<1>6. T = {}
  <2> SUFFICES ASSUME T # {} PROVE FALSE
    OBVIOUS
  <2>1. PICK k \in T : \A j \in T : k <= j
    BY LeastNat
  <2>2. k \in Nat /\ k <= m /\ ~Shift(N, b, i, k, F[k].b, F[k].hole)
    BY <2>1
  <2> HIDE DEF T
  <2>3. k # 0
    <3>1. F[0] = v
      BY <1>5 DEF Carries
    <3> QED
      BY <1>3, <2>2, <3>1
  <2>4. PICK n \in Nat : k = n + 1
    BY <2>2, <2>3
  <2>5. n \notin T
    <3>1. ~(k <= n)
      BY <2>4
    <3> QED
      BY <2>1, <3>1
  <2>6. Shift(N, b, i, n, F[n].b, F[n].hole)
    <3>1. n <= m
      BY <1>2, <2>2, <2>4
    <3> QED
      BY <2>5, <3>1 DEF T
  <2>7. k \in 1 .. m /\ k - 1 = n
    BY <1>2, <2>2, <2>4
  <2>8. F[k] = Pull(F[n], q[k])
    BY <1>5, <2>7 DEF Carries, Do
  <2>9. q[k] \in 0 .. N - 1 /\ Dist(N, i, q[k]) = n + 1 /\ b[q[k]] # NoEntry
    BY <1>2, <2>4, <2>7
  <2>10. Dist(N, i, e) > n + 1
    BY <1>2, <2>2, <2>4
  <2>11. Shift(N, b, i, n + 1, Pull(F[n], q[k]).b, Pull(F[n], q[k]).hole)
    BY <1>2, <2>6, <2>9, <2>10, PullIs
  <2> QED
    BY <2>2, <2>4, <2>8, <2>11
<1> DEFINE c == last.b
           h == last.hole
<1>7. Shift(N, b, i, m, c, h) /\ Without(b, i) = [c EXCEPT ![h] = NoEntry]
  <2>1. m \in Nat /\ m <= m
    BY <1>2
  <2> QED
    BY <1>4, <1>5, <1>6, <2>1
<1> HIDE DEF c, h, T
<1>8. Loses(N, b, i, [c EXCEPT ![h] = NoEntry])
  <2>1. Shift(N, b, i, m, c, h)
    BY <1>7
  <2> QED
    BY <1>1, <2>1, ShiftDone
<1> QED
  BY <1>7, <1>8

-----------------------------------------------------------------------------
(***************************************************************************)
(* The inductive invariant, call by call.                                   *)
(***************************************************************************)

\* The table is good, its mask reaches every bucket, and size_ counts its entries.
IndexInv ==
  LET N == Capacity(buckets) IN
  Good(N, buckets) /\ PowerOfTwo(N) /\ size = Cardinality(Taken(buckets))

\* The probe that find, insert and erase share tells whether there is an entry.
LEMMA HoldsIs ==
  ASSUME NEW N, NEW b, Good(N, b), NEW id \in Ids
  PROVE  /\ Stop(b, id) \in 0 .. N - 1
         /\ Holds(b, id) => /\ b[Stop(b, id)] # NoEntry /\ b[Stop(b, id)] \in Held(b)
                            /\ b[Stop(b, id)].id = id
         /\ ~Holds(b, id) => b[Stop(b, id)] = NoEntry /\ \A e \in Held(b) : e.id # id
<1>1. Shaped(N, b) /\ Cardinality(Taken(b)) < N /\ DOMAIN b = 0 .. N - 1
  BY DEF Good, Shaped
<1>2. Stop(b, id) \in 0 .. N - 1
  BY <1>1, StopIs
<1>3. CASE Holds(b, id)
  <2>1. b[Stop(b, id)].id = id
    BY <1>3 DEF Holds
  <2>2. b[Stop(b, id)] # NoEntry
    BY <2>1, IdMapAssumption DEF NoEntry
  <2>3. b[Stop(b, id)] \in Held(b)
    BY <1>1, <1>2, <2>2 DEF Held, Taken
  <2> QED
    BY <1>2, <1>3, <2>1, <2>2, <2>3
<1>4. CASE ~Holds(b, id)
  <2>1. b[Stop(b, id)] = NoEntry /\ \A i \in 0 .. N - 1 : b[i].id # id
    BY <1>4, AbsentIs
  <2>2. \A e \in Held(b) : e.id # id
    BY <1>1, <2>1 DEF Held, Taken
  <2> QED
    BY <1>2, <1>4, <2>1, <2>2
<1> QED
  BY <1>3, <1>4

LEMMA HeldIs ==
  ASSUME NEW N, NEW b, Good(N, b)
  PROVE  /\ \A e \in Held(b) : e \in Entries /\ e.id \in Ids /\ e.slot \in Slots
         /\ \A e, f \in Held(b) : e.id = f.id => e = f
<1>1. Shaped(N, b) /\ Unique(N, b) /\ DOMAIN b = 0 .. N - 1 /\ N \in Nat \ {0}
  BY DEF Good, Shaped
<1>2. \A i \in Taken(b) : i \in 0 .. N - 1 /\ b[i] # NoEntry
  BY <1>1 DEF Taken
<1>3. ASSUME NEW i \in Taken(b)
      PROVE  b[i] \in Entries /\ b[i].id \in Ids /\ b[i].slot \in Slots
  <2>1. i \in 0 .. N - 1 /\ b[i] # NoEntry
    BY <1>2
  <2>2. b[i] \in Entries
    BY <1>1, <2>1, BucketIs
  <2> QED
    BY <2>2 DEF Entries
<1>4. \A i, j \in Taken(b) : b[i].id = b[j].id => i = j
  BY <1>1, <1>2 DEF Unique
<1> QED
  BY <1>3, <1>4 DEF Held

\* A call leaves a good table with the entries H.
Leads(M, H) ==
  /\ Good(M, buckets') /\ PowerOfTwo(M) /\ size' = Cardinality(Taken(buckets'))
  /\ Held(buckets') = H /\ hash' = hash

LEMMA LeadsOn ==
  ASSUME NEW M, NEW H, Leads(M, H)
  PROVE  IndexInv'
<1>1. Capacity(buckets') = M
  BY ShapedIs DEF Leads, Good
<1>2. Shaped(M, buckets)'
  BY DEF Leads, Good, Shaped
<1>3. Unique(M, buckets)'
  BY DEF Leads, Good, Unique
<1>4. Runs(M, buckets)'
  BY DEF Leads, Good, Runs, Home
<1>5. Good(M, buckets)'
  BY <1>2, <1>3, <1>4 DEF Leads, Good
<1> QED
  BY <1>1, <1>5 DEF Leads, IndexInv

\* The table insert probes: grown, when this one is crowded.
Room == IF Crowded(size, Capacity(buckets)) THEN Grown(buckets) ELSE buckets

Roomy(M) ==
  /\ Good(M, Room) /\ PowerOfTwo(M) /\ Held(Room) = Held(buckets)
  /\ Cardinality(Taken(Room)) = size /\ size + 1 < M

LEMMA RoomIs ==
  ASSUME IndexInv
  PROVE  \E M : Roomy(M)
<1> DEFINE N == Capacity(buckets)
<1>1. Good(N, buckets) /\ PowerOfTwo(N) /\ size = Cardinality(Taken(buckets))
  BY DEF IndexInv
<1> HIDE DEF N
<1>2. N \in Nat \ {0} /\ size \in Nat /\ size < N
  BY <1>1, ShapedIs DEF Good, Shaped
<1>3. CASE Crowded(size, N)
  <2>1. Room = Grown(buckets)
    BY <1>3 DEF Room, N
  <2>2. /\ Good(2 * N, Room) /\ Held(Room) = Held(buckets)
        /\ Cardinality(Taken(Room)) = Cardinality(Taken(buckets))
    BY <1>1, <2>1, GrownIs
  <2>3. PowerOfTwo(2 * N)
    BY <1>1, DoubleIs
  <2>4. size + 1 < 2 * N
    BY <1>2
  <2>5. Roomy(2 * N)
    BY <1>1, <2>2, <2>3, <2>4 DEF Roomy
  <2> QED
    BY <2>5
<1>4. CASE ~Crowded(size, N)
  <2>1. Room = buckets
    BY <1>4 DEF Room, N
  <2>2. size + 1 < N
    BY <1>2, <1>4 DEF Crowded
  <2>3. Roomy(N)
    BY <1>1, <2>1, <2>2 DEF Roomy
  <2> QED
    BY <2>3
<1> QED
  BY <1>3, <1>4

Absent(id) == \A e \in Held(buckets) : e.id # id

LEMMA InsertIs ==
  ASSUME IndexInv, NEW id \in Ids, NEW slot \in Slots, Insert(id, slot)
  PROVE  /\ answer' = Absent(id)
         /\ \E M : Leads(M, IF Absent(id) THEN Held(buckets) \union {[id |-> id, slot |-> slot]}
                            ELSE Held(buckets))
<1> DEFINE b == Room
           e == [id |-> id, slot |-> slot]
<1>1. PICK M : Roomy(M)
  BY RoomIs
<1>2. /\ answer' = ~Holds(b, id) /\ hash' = hash
      /\ buckets' = IF ~Holds(b, id) THEN Put(b, e) ELSE b
      /\ size' = IF ~Holds(b, id) THEN size + 1 ELSE size
  BY DEF Insert, Room
<1> HIDE DEF b
<1>3. /\ Good(M, b) /\ PowerOfTwo(M) /\ Held(b) = Held(buckets)
      /\ Cardinality(Taken(b)) = size /\ size + 1 < M
  BY <1>1 DEF Roomy, b
<1>4. CASE Holds(b, id)
  <2>1. ~Absent(id)
    BY <1>3, <1>4, HoldsIs DEF Absent
  <2>2. Leads(M, Held(buckets))
    BY <1>2, <1>3, <1>4 DEF Leads
  <2>3. answer' = Absent(id)
    BY <1>2, <1>4, <2>1 DEF Absent
  <2> QED
    BY <2>1, <2>2, <2>3
<1>5. CASE ~Holds(b, id)
  <2>1. Absent(id)
    BY <1>3, <1>5, HoldsIs DEF Absent
  <2>2. e \in Entries /\ e.id = id
    BY DEF Entries
  <2>3. \A i \in 0 .. M - 1 : b[i].id # id
    BY <1>3, <1>5, AbsentIs
  <2> HIDE DEF e
  <2>4. \A i \in 0 .. M - 1 : b[i].id # e.id
    BY <2>2, <2>3
  <2>5. /\ Good(M, Put(b, e)) /\ Held(Put(b, e)) = Held(b) \union {e}
        /\ Cardinality(Taken(Put(b, e))) = Cardinality(Taken(b)) + 1
    BY <1>3, <2>2, <2>4, PutIs
  <2>6. buckets' = Put(b, e) /\ size' = size + 1
    BY <1>2, <1>5
  <2>7. Leads(M, Held(buckets) \union {e})
    BY <1>2, <1>3, <2>5, <2>6 DEF Leads
  <2>8. answer' = Absent(id)
    BY <1>2, <1>5, <2>1 DEF Absent
  <2> QED
    BY <2>1, <2>7, <2>8 DEF e
<1> QED
  BY <1>4, <1>5

\* What find and erase answer for id: the slot of its entry, or none.
Answers(id) ==
  \/ \E e \in Held(buckets) : e.id = id /\ answer' = e.slot
  \/ Absent(id) /\ answer' = NullSlot

LEMMA AnswerIs ==
  ASSUME IndexInv, NEW id \in Ids, answer' = buckets[Stop(buckets, id)].slot
  PROVE  Answers(id)
<1> DEFINE N == Capacity(buckets)
<1>1. Good(N, buckets)
  BY DEF IndexInv
<1> HIDE DEF N
<1>2. CASE Holds(buckets, id)
  BY <1>1, <1>2, HoldsIs DEF Answers
<1>3. CASE ~Holds(buckets, id)
  <2>1. buckets[Stop(buckets, id)] = NoEntry /\ Absent(id)
    BY <1>1, <1>3, HoldsIs DEF Absent
  <2> QED
    BY <2>1 DEF Answers, NoEntry
<1> QED
  BY <1>2, <1>3

LEMMA FindEraseIs ==
  ASSUME IndexInv, NEW id \in Ids
  PROVE  /\ Find(id) => Answers(id)
         /\ Erase(id) => /\ Answers(id)
                         /\ \E M : Leads(M, {e \in Held(buckets) : e.id # id})
<1> DEFINE N == Capacity(buckets)
           i == Stop(buckets, id)
<1>1. Good(N, buckets) /\ PowerOfTwo(N) /\ size = Cardinality(Taken(buckets))
  BY DEF IndexInv
<1> HIDE DEF N
<1>2. Find(id) => Answers(id)
  BY AnswerIs DEF Find
<1>3. ASSUME Erase(id)
      PROVE  Answers(id) /\ Leads(N, {e \in Held(buckets) : e.id # id})
  <2>1. /\ answer' = buckets[i].slot /\ hash' = hash
        /\ buckets' = IF Holds(buckets, id) THEN Without(buckets, i) ELSE buckets
        /\ size' = IF Holds(buckets, id) THEN size - 1 ELSE size
    BY <1>3 DEF Erase
  <2>2. Answers(id)
    BY <2>1, AnswerIs
  <2>3. CASE Holds(buckets, id)
    <3>1. /\ i \in 0 .. N - 1 /\ buckets[i] # NoEntry
          /\ buckets[i] \in Held(buckets) /\ buckets[i].id = id
      BY <1>1, <2>3, HoldsIs
    <3> HIDE DEF i
    <3>2. Loses(N, buckets, i, Without(buckets, i))
      BY <1>1, <3>1, WithoutIs
    <3>3. Held(buckets) \ {buckets[i]} = {e \in Held(buckets) : e.id # id}
      BY <1>1, <3>1, HeldIs
    <3>4. buckets' = Without(buckets, i) /\ size' = size - 1
      BY <2>1, <2>3
    <3>5. Leads(N, {e \in Held(buckets) : e.id # id})
      BY <1>1, <2>1, <3>2, <3>3, <3>4 DEF Loses, Leads
    <3> QED
      BY <2>2, <3>5
  <2>4. CASE ~Holds(buckets, id)
    <3>1. \A e \in Held(buckets) : e.id # id
      BY <1>1, <2>4, HoldsIs
    <3>2. Held(buckets) = {e \in Held(buckets) : e.id # id}
      BY <3>1
    <3>3. buckets' = buckets /\ size' = size
      BY <2>1, <2>4
    <3> HIDE DEF i
    <3>4. Leads(N, Held(buckets))
      BY <1>1, <2>1, <3>3 DEF Leads
    <3> QED
      BY <2>2, <3>2, <3>4
  <2> QED
    BY <2>3, <2>4
<1> QED
  BY <1>2, <1>3

LEMMA ClearIs ==
  ASSUME IndexInv, Clear
  PROVE  \E M : Leads(M, {})
<1> DEFINE N == Capacity(buckets)
<1>1. Good(N, buckets) /\ PowerOfTwo(N)
  BY DEF IndexInv
<1>2. buckets' = NoEntries(N) /\ size' = 0 /\ hash' = hash
  BY DEF Clear
<1> HIDE DEF N
<1>3. N \in Nat \ {0} /\ hash \in [Ids -> Nat]
  BY <1>1 DEF Good, Shaped
<1>4. Good(N, buckets') /\ Held(buckets') = {} /\ Cardinality(Taken(buckets')) = 0
  BY <1>2, <1>3, NoEntriesIs
<1>5. Leads(N, {})
  BY <1>1, <1>2, <1>4 DEF Leads
<1> QED
  BY <1>5

\* While grow reinserts, the new table is never crowded: insert does not grow again.
LEMMA GrowsOnce ==
  ASSUME IndexInv, NEW n \in Nat, n < size
  PROVE  ~Crowded(n, 2 * Capacity(buckets))
<1> DEFINE N == Capacity(buckets)
<1>1. N \in Nat \ {0} /\ size \in Nat /\ size < N
  BY ShapedIs DEF IndexInv, Good, Shaped
<1> HIDE DEF N
<1>2. ~((n + 1) * 10 >= (2 * N) * 7)
  BY <1>1
<1> QED
  BY <1>2 DEF Crowded, N

LEMMA StaysIs ==
  ASSUME IndexInv, UNCHANGED <<hash, buckets, size>>
  PROVE  \E M : Leads(M, Held(buckets))
<1> DEFINE N == Capacity(buckets)
<1>1. Good(N, buckets) /\ PowerOfTwo(N) /\ size = Cardinality(Taken(buckets))
  BY DEF IndexInv
<1> HIDE DEF N
<1>2. buckets' = buckets /\ size' = size /\ hash' = hash
  OBVIOUS
<1>3. Leads(N, Held(buckets))
  BY <1>1, <1>2 DEF Leads
<1> QED
  BY <1>3

\* The table is good at every moment: an id has one entry, a run no hole, and the
\* table a bucket to spare, which is what a run of erase or grow relies on.
THEOREM IdMapInvariant == Spec => []IndexInv
<1>1. Init => IndexInv
  <2> SUFFICES ASSUME Init PROVE IndexInv
    OBVIOUS
  <2>1. MinCapacity \in Nat \ {0} /\ PowerOfTwo(MinCapacity) /\ hash \in [Ids -> Nat]
    BY IdMapAssumption DEF PowerOfTwo, Init
  <2>2. buckets = NoEntries(MinCapacity) /\ size = 0
    BY DEF Init
  <2>3. Good(MinCapacity, buckets) /\ Cardinality(Taken(buckets)) = 0
    BY <2>1, <2>2, NoEntriesIs
  <2>4. Capacity(buckets) = MinCapacity
    BY <2>3, ShapedIs DEF Good
  <2> QED
    BY <2>1, <2>2, <2>3, <2>4 DEF IndexInv
<1>2. IndexInv /\ [Next]_vars => IndexInv'
  <2> SUFFICES ASSUME IndexInv, [Next]_vars PROVE IndexInv'
    OBVIOUS
  <2>1. ASSUME NEW id \in Ids, NEW slot \in Slots, Insert(id, slot)
        PROVE  IndexInv'
    BY <2>1, InsertIs, LeadsOn
  <2>2. ASSUME NEW id \in Ids, Find(id)
        PROVE  IndexInv'
    <3>1. UNCHANGED <<hash, buckets, size>>
      BY <2>2 DEF Find
    <3> QED
      BY <3>1, StaysIs, LeadsOn
  <2>3. ASSUME NEW id \in Ids, Erase(id)
        PROVE  IndexInv'
    BY <2>3, FindEraseIs, LeadsOn
  <2>4. ASSUME Clear
        PROVE  IndexInv'
    BY <2>4, ClearIs, LeadsOn
  <2>5. ASSUME UNCHANGED vars
        PROVE  IndexInv'
    <3>1. UNCHANGED <<hash, buckets, size>>
      BY <2>5 DEF vars
    <3> QED
      BY <3>1, StaysIs, LeadsOn
  <2> QED
    BY <2>1, <2>2, <2>3, <2>4, <2>5 DEF Next
<1> QED
  BY <1>1, <1>2, PTL DEF Spec

\* find and erase end: size_ counts the entries, and leaves a bucket empty.
THEOREM IdMapProbesEnd == Spec => []ProbesEnd
<1>1. IndexInv => ProbesEnd
  <2> SUFFICES ASSUME IndexInv PROVE ProbesEnd
    OBVIOUS
  <2>1. Occupied = Taken(buckets)
    BY DEF Occupied, Taken
  <2> QED
    BY <2>1 DEF ProbesEnd, IndexInv, Good
<1> QED
  BY <1>1, IdMapInvariant, PTL

\* From the bucket an entry hashes to up to its own, every bucket is taken.
THEOREM IdMapNoHoleInARun == Spec => []NoHoleInARun
<1>1. IndexInv => NoHoleInARun
  <2> SUFFICES ASSUME IndexInv, NEW i \in Occupied,
                      NEW k \in 0 .. Ahead(buckets, IndexOf(buckets, buckets[i].id), i)
               PROVE  Along(buckets, IndexOf(buckets, buckets[i].id), k) \in Occupied
    BY DEF NoHoleInARun
  <2> DEFINE N == Capacity(buckets)
             h == Home(N, buckets[i].id)
             j == Step(N, h, k)
  <2>1. Good(N, buckets)
    BY DEF IndexInv
  <2>2. Shaped(N, buckets) /\ N \in Nat \ {0} /\ DOMAIN buckets = 0 .. N - 1
    BY <2>1 DEF Good, Shaped
  <2>3. i \in 0 .. N - 1 /\ buckets[i] # NoEntry
    BY <2>2 DEF Occupied
  <2>4. buckets[i].id \in Ids
    BY <2>2, <2>3, BucketIs
  <2>5. h \in 0 .. N - 1 /\ IndexOf(buckets, buckets[i].id) = h
    BY <2>2, <2>4, ShapedIs
  <2>6. /\ Ahead(buckets, IndexOf(buckets, buckets[i].id), i) = (i - h) % N
        /\ Along(buckets, IndexOf(buckets, buckets[i].id), k) = (h + k) % N
    BY <2>5 DEF Ahead, Along, Wrap
  <2>7. (i - h) % N = Dist(N, h, i)
    <3> HIDE DEF N, h
    <3> QED
      BY <2>2, <2>3, <2>5, ModIs
  <2>8. k \in 0 .. Dist(N, h, i)
    BY <2>6, <2>7
  <2> HIDE DEF N
  <2>9. k \in 0 .. N - 1 /\ k <= Dist(N, h, i)
    <3> HIDE DEF h
    <3>1. Dist(N, h, i) \in Nat /\ Dist(N, h, i) < N
      BY <2>2, <2>3, <2>5, AheadIs
    <3> QED
      BY <2>2, <2>8, <3>1
  <2>10. (h + k) % N = j /\ j \in 0 .. N - 1 /\ Dist(N, h, j) = k
    <3> HIDE DEF h
    <3>1. k \in 0 .. N
      BY <2>2, <2>9
    <3>2. (h + k) % N = Step(N, h, k)
      BY <2>2, <2>5, <3>1, ModIs
    <3>3. Step(N, h, k) \in 0 .. N - 1 /\ Dist(N, h, Step(N, h, k)) = k
      BY <2>2, <2>5, <2>9, RoundIs
    <3> QED
      BY <3>2, <3>3
  <2> HIDE DEF j
  <2>11. buckets[j] # NoEntry
    BY <2>1, <2>3, <2>9, <2>10 DEF Good, Runs
  <2> QED
    BY <2>2, <2>6, <2>10, <2>11 DEF Occupied
<1> QED
  BY <1>1, IdMapInvariant, PTL

-----------------------------------------------------------------------------
(***************************************************************************)
(* The partial function from ids to slots.                                  *)
(***************************************************************************)

\* f takes the id of each entry of H, and nothing else, to its slot.
IsMap(f, H) ==
  /\ f = [id \in {e.id : e \in H} |-> f[id]]
  /\ \A e \in H : f[e.id] = e.slot

LEMMA SameMap ==
  ASSUME NEW f, NEW g, NEW H, IsMap(f, H), IsMap(g, H)
  PROVE  f = g
<1> DEFINE D == {e.id : e \in H}
<1>1. f = [id \in D |-> f[id]] /\ g = [id \in D |-> g[id]]
  BY DEF IsMap
<1>2. ASSUME NEW id \in D
      PROVE  f[id] = g[id]
  <2>1. PICK e \in H : id = e.id
    OBVIOUS
  <2> QED
    BY <2>1 DEF IsMap
<1> HIDE DEF D
<1>3. [id \in D |-> f[id]] = [id \in D |-> g[id]]
  BY <1>2
<1> QED
  BY <1>1, <1>3

LEMMA MapNone == IsMap(<<>>, {})
<1>1. {e.id : e \in {}} = {}
  OBVIOUS
<1>2. <<>> = [id \in {} |-> <<>>[id]]
  OBVIOUS
<1> QED
  BY <1>1, <1>2 DEF IsMap

LEMMA MapAdds ==
  ASSUME NEW f, NEW H, IsMap(f, H), NEW id, NEW slot, \A e \in H : e.id # id
  PROVE  IsMap([x \in DOMAIN f \union {id} |-> IF x = id THEN slot ELSE f[x]],
               H \union {[id |-> id, slot |-> slot]})
<1> DEFINE new == [id |-> id, slot |-> slot]
           g == [x \in DOMAIN f \union {id} |-> IF x = id THEN slot ELSE f[x]]
           D == {e.id : e \in H \union {new}}
<1>1. new.id = id /\ new.slot = slot
  OBVIOUS
<1> HIDE DEF new
<1>2. DOMAIN f = {e.id : e \in H}
  BY DEF IsMap
<1>3. D = DOMAIN f \union {id}
  BY <1>1, <1>2
<1>4. g = [x \in D |-> g[x]]
  BY <1>3
<1>5. ASSUME NEW e \in H \union {new}
      PROVE  g[e.id] = e.slot
  <2>1. CASE e = new
    BY <1>1, <2>1
  <2>2. CASE e \in H
    <3>1. e.id # id /\ e.id \in DOMAIN f /\ f[e.id] = e.slot
      BY <1>2, <2>2 DEF IsMap
    <3> QED
      BY <3>1
  <2> QED
    BY <2>1, <2>2
<1> HIDE DEF g
<1>6. IsMap(g, H \union {new})
  BY <1>4, <1>5 DEF IsMap
<1> QED
  BY <1>6 DEF g, new

LEMMA MapLoses ==
  ASSUME NEW f, NEW H, IsMap(f, H), NEW id
  PROVE  IsMap([x \in DOMAIN f \ {id} |-> f[x]], {e \in H : e.id # id})
<1> DEFINE g == [x \in DOMAIN f \ {id} |-> f[x]]
           L == {e \in H : e.id # id}
           D == {e.id : e \in L}
<1>1. DOMAIN f = {e.id : e \in H}
  BY DEF IsMap
<1>2. D = DOMAIN f \ {id}
  BY <1>1
<1>3. g = [x \in D |-> g[x]]
  BY <1>2
<1>4. ASSUME NEW e \in L
      PROVE  g[e.id] = e.slot
  <2>1. e.id \in DOMAIN f \ {id} /\ f[e.id] = e.slot
    BY <1>1 DEF IsMap
  <2> QED
    BY <2>1
<1> HIDE DEF g, L
<1>5. IsMap(g, L)
  BY <1>3, <1>4 DEF IsMap
<1> QED
  BY <1>5 DEF g, L

\* What a good table holds is such a function.
ContentsOf(b) ==
  [id \in {b[i].id : i \in Taken(b)} |->
     LET i == CHOOSE j \in Taken(b) : b[j].id = id IN b[i].slot]

LEMMA ContentsIs ==
  ASSUME NEW N, NEW b, Good(N, b)
  PROVE  IsMap(ContentsOf(b), Held(b))
<1> DEFINE f == ContentsOf(b)
           D == {e.id : e \in Held(b)}
<1>1. {b[i].id : i \in Taken(b)} = D
  BY DEF Held
<1>2. f = [id \in D |-> f[id]]
  <2> DEFINE S == {b[i].id : i \in Taken(b)}
             slot(id) == LET i == CHOOSE j \in Taken(b) : b[j].id = id IN b[i].slot
  <2>1. f = [id \in S |-> slot(id)]
    BY DEF ContentsOf
  <2> HIDE DEF f, slot
  <2>2. f = [id \in S |-> f[id]]
    BY <2>1
  <2> QED
    BY <1>1, <2>2
<1>3. ASSUME NEW e \in Held(b)
      PROVE  f[e.id] = e.slot
  <2>1. PICK i \in Taken(b) : e = b[i]
    BY DEF Held
  <2> DEFINE j == CHOOSE k \in Taken(b) : b[k].id = b[i].id
  <2>2. j \in Taken(b) /\ b[j].id = b[i].id
    OBVIOUS
  <2>3. f[b[i].id] = b[j].slot
    BY DEF ContentsOf
  <2> HIDE DEF j, f
  <2>4. b[j] = e
    <3>1. b[j] \in Held(b)
      BY <2>2 DEF Held
    <3> QED
      BY <2>1, <2>2, <3>1, HeldIs
  <2> QED
    BY <2>1, <2>3, <2>4
<1> HIDE DEF f
<1>4. IsMap(f, Held(b))
  BY <1>2, <1>3 DEF IsMap
<1> QED
  BY <1>4 DEF f

LEMMA ContentsNow ==
  ASSUME IndexInv
  PROVE  /\ IsMap(Contents, Held(buckets))
         /\ \A id \in Ids : id \notin DOMAIN Contents <=> Absent(id)
<1>1. Contents = ContentsOf(buckets)
  BY DEF Contents, ContentsOf, Occupied, Taken
<1>2. IsMap(Contents, Held(buckets))
  BY <1>1, ContentsIs DEF IndexInv
<1>3. DOMAIN Contents = {e.id : e \in Held(buckets)}
  BY <1>2 DEF IsMap
<1>4. ASSUME NEW id \in Ids
      PROVE  id \notin DOMAIN Contents <=> Absent(id)
  BY <1>3 DEF Absent
<1> QED
  BY <1>2, <1>4

LEMMA ContentsNext ==
  ASSUME NEW M, NEW H, Leads(M, H)
  PROVE  IsMap(Contents', H)
<1>1. Contents' = ContentsOf(buckets')
  BY DEF Contents, ContentsOf, Occupied, Taken
<1>2. IsMap(ContentsOf(buckets'), Held(buckets'))
  BY ContentsIs DEF Leads
<1> QED
  BY <1>1, <1>2 DEF Leads

-----------------------------------------------------------------------------
(***************************************************************************)
(* Each call keeps the promise.                                             *)
(***************************************************************************)

LEMMA PromiseInsert ==
  ASSUME IndexInv, NEW id \in Ids, NEW slot \in Slots, Insert(id, slot)
  PROVE  Promise!Insert(id, slot)
<1> DEFINE f == Contents
           g == [x \in DOMAIN f \union {id} |-> IF x = id THEN slot ELSE f[x]]
           H == Held(buckets)
<1>1. IsMap(f, H) /\ (id \notin DOMAIN f <=> Absent(id))
  BY ContentsNow
<1>2. answer' = (id \notin DOMAIN f)
  BY <1>1, InsertIs DEF Absent
<1>3. CASE Absent(id)
  <2>1. PICK M : Leads(M, H \union {[id |-> id, slot |-> slot]})
    BY <1>3, InsertIs
  <2>2. IsMap(Contents', H \union {[id |-> id, slot |-> slot]})
    BY <2>1, ContentsNext
  <2>3. IsMap(g, H \union {[id |-> id, slot |-> slot]})
    <3> HIDE DEF f
    <3> QED
      BY <1>1, <1>3, MapAdds DEF Absent
  <2>4. Contents' = g
    BY <2>2, <2>3, SameMap
  <2> QED
    BY <1>1, <1>2, <1>3, <2>4 DEF Promise!Insert, Promise!Present
<1>4. CASE ~Absent(id)
  <2>1. PICK M : Leads(M, H)
    BY <1>4, InsertIs
  <2>2. IsMap(Contents', H)
    BY <2>1, ContentsNext
  <2>3. Contents' = f
    BY <1>1, <2>2, SameMap
  <2> QED
    BY <1>1, <1>2, <1>4, <2>3 DEF Promise!Insert, Promise!Present
<1> QED
  BY <1>3, <1>4

\* What find and erase answer is the function's slot, if it has one.
LEMMA PromiseAnswer ==
  ASSUME IndexInv, NEW id \in Ids, Answers(id)
  PROVE  answer' = Promise!SlotOr(id)
<1>1. IsMap(Contents, Held(buckets)) /\ (id \notin DOMAIN Contents <=> Absent(id))
  BY ContentsNow
<1>2. CASE Absent(id)
  <2>1. answer' = NullSlot
    BY <1>2 DEF Answers, Absent
  <2> QED
    BY <1>1, <1>2, <2>1 DEF Promise!SlotOr, Promise!Present
<1>3. CASE ~Absent(id)
  <2>1. PICK e \in Held(buckets) : e.id = id /\ answer' = e.slot
    BY <1>3 DEF Answers
  <2>2. Contents[id] = answer'
    BY <1>1, <2>1 DEF IsMap
  <2> QED
    BY <1>1, <1>3, <2>2 DEF Promise!SlotOr, Promise!Present
<1> QED
  BY <1>2, <1>3

LEMMA PromiseErase ==
  ASSUME IndexInv, NEW id \in Ids, Erase(id)
  PROVE  Promise!Erase(id)
<1> DEFINE f == Contents
           g == [x \in DOMAIN f \ {id} |-> f[x]]
           L == {e \in Held(buckets) : e.id # id}
<1>1. Answers(id) /\ \E M : Leads(M, L)
  BY FindEraseIs
<1>2. answer' = Promise!SlotOr(id)
  BY <1>1, PromiseAnswer
<1>3. IsMap(f, Held(buckets))
  BY ContentsNow
<1>4. IsMap(Contents', L)
  BY <1>1, ContentsNext
<1>5. IsMap(g, L)
  <2> HIDE DEF f
  <2> QED
    BY <1>3, MapLoses
<1>6. Contents' = g
  BY <1>4, <1>5, SameMap
<1> QED
  BY <1>2, <1>6 DEF Promise!Erase, Promise!Restrict, Promise!Present

LEMMA PromiseStays ==
  ASSUME IndexInv, UNCHANGED <<hash, buckets, size>>
  PROVE  Contents' = Contents
BY DEF Contents, Occupied

\* The index is a partial function from ids to slots, whatever the hash: no entry is
\* lost when the table grows or a run closes up, none answers for another, and none
\* that was erased answers again.
THEOREM IdMapKeepsPromise == Spec => KeepsPromise
<1>1. Init => Promise!Init
  <2> SUFFICES ASSUME Init PROVE Promise!Init
    OBVIOUS
  <2>1. MinCapacity \in Nat \ {0} /\ hash \in [Ids -> Nat]
    BY IdMapAssumption DEF PowerOfTwo, Init
  <2>2. buckets = NoEntries(MinCapacity) /\ answer = NullSlot
    BY DEF Init
  <2>3. Good(MinCapacity, buckets) /\ Held(buckets) = {}
    BY <2>1, <2>2, NoEntriesIs
  <2>4. Contents = ContentsOf(buckets)
    BY DEF Contents, ContentsOf, Occupied, Taken
  <2>5. IsMap(Contents, {})
    BY <2>3, <2>4, ContentsIs
  <2>6. Contents = <<>>
    BY <2>5, MapNone, SameMap
  <2> QED
    BY <2>2, <2>6 DEF Promise!Init
<1>2. IndexInv /\ [Next]_vars => [Promise!Next]_(Promise!vars)
  <2> SUFFICES ASSUME IndexInv, [Next]_vars PROVE [Promise!Next]_(Promise!vars)
    OBVIOUS
  <2>1. ASSUME NEW id \in Ids, NEW slot \in Slots, Insert(id, slot)
        PROVE  Promise!Next
    <3>1. Promise!Insert(id, slot)
      BY <2>1, PromiseInsert
    <3> QED
      BY <3>1 DEF Promise!Next
  <2>2. ASSUME NEW id \in Ids, Find(id)
        PROVE  Promise!Next
    <3>1. answer' = Promise!SlotOr(id)
      BY <2>2, FindEraseIs, PromiseAnswer
    <3>2. UNCHANGED <<hash, buckets, size>>
      BY <2>2 DEF Find
    <3>3. Promise!Find(id)
      BY <3>1, <3>2, PromiseStays DEF Promise!Find
    <3> QED
      BY <3>3 DEF Promise!Next
  <2>3. ASSUME NEW id \in Ids, Erase(id)
        PROVE  Promise!Next
    <3>1. Promise!Erase(id)
      BY <2>3, PromiseErase
    <3> QED
      BY <3>1 DEF Promise!Next
  <2>4. ASSUME Clear
        PROVE  Promise!Next
    <3>1. IsMap(Contents', {})
      BY <2>4, ClearIs, ContentsNext
    <3>2. Contents' = <<>>
      BY <3>1, MapNone, SameMap
    <3>3. Promise!Clear
      BY <2>4, <3>2 DEF Clear, Promise!Clear
    <3> QED
      BY <3>3 DEF Promise!Next
  <2>5. ASSUME UNCHANGED vars
        PROVE  UNCHANGED Promise!vars
    <3>1. answer' = answer /\ UNCHANGED <<hash, buckets, size>>
      BY <2>5 DEF vars
    <3> QED
      BY <3>1, PromiseStays DEF Promise!vars
  <2> QED
    BY <2>1, <2>2, <2>3, <2>4, <2>5 DEF Next
<1> QED
  BY <1>1, <1>2, IdMapInvariant, PTL DEF Spec, KeepsPromise, Promise!Spec
=============================================================================
