-------------------------- MODULE OrderBookProofs ---------------------------
(***************************************************************************)
(* The pointer-level book keeps its structure, its best prices and its word *)
(* to whoever listens, for any range of prices, any size of the pool and of *)
(* a bitmap word, and any sequence of calls.                                *)
(*                                                                          *)
(* The links of a list say which slot is next.  What makes a set of links a *)
(* queue is a property of all of them, and no step sees it whole; so every  *)
(* slot is given an age, the number of the change that put it where it is,  *)
(* and the links are right when each names the next in age.  That is local: *)
(* the slots on both sides of an order are the ones unlink and link_back    *)
(* touch.  The same ages are the order of precedence an observer of the     *)
(* events has noted, and walking the links back out of an age-ordered set   *)
(* gives the queue.                                                         *)
(***************************************************************************)
EXTENDS OrderBook, FiniteSetTheorems, WellFoundedInduction, TLAPS


-----------------------------------------------------------------------------
(***************************************************************************)
(* Lists.  A list of slots is a set T of them and an age for each; its links *)
(* are right when each names the nearest slot in age, or NullSlot when there *)
(* is none.                                                                 *)
(***************************************************************************)

Links == Slots \union {NullSlot}

\* No two slots have the same age, and all are older than `now`.
Aged(age, now) ==
  /\ age \in [Slots -> Nat] /\ now \in Nat
  /\ \A s \in Slots : age[s] < now
  /\ \A r, s \in Slots : age[r] = age[s] => r = s

Oldest(T, age, x) ==
  IF x = NullSlot THEN T = {} ELSE x \in T /\ \A r \in T : age[x] <= age[r]
Youngest(T, age, x) ==
  IF x = NullSlot THEN T = {} ELSE x \in T /\ \A r \in T : age[r] <= age[x]

Later(T, age, s) == {r \in T : age[s] < age[r]}
Earlier(T, age, s) == {r \in T : age[r] < age[s]}

\* Slot s becomes the youngest.
Renewed(age, s, now) == [age EXCEPT ![s] = now]

\* Slots are numbers, and NullSlot is none of them.
LEMMA SlotsAre == NullSlot \notin Slots /\ Slots \subseteq Nat
BY BookAssumption DEF Slots, NullSlot

\* There is one slot at the end of a list.
LEMMA EndIsOne ==
  ASSUME NEW age, NEW now, Aged(age, now), NEW T \in SUBSET Slots, NEW x, NEW y
  PROVE  /\ Oldest(T, age, x) /\ Oldest(T, age, y) => x = y
         /\ Youngest(T, age, x) /\ Youngest(T, age, y) => x = y
BY DEF Aged, Oldest, Youngest

\* What follows x in a list is preceded by x.
LEMMA Neighbours ==
  ASSUME NEW age, NEW now, Aged(age, now), NEW T \in SUBSET Slots, NEW r \in T, NEW s \in T
  PROVE  Oldest(Later(T, age, r), age, s) <=> Youngest(Earlier(T, age, s), age, r)
<1>1. r \in Slots /\ s \in Slots /\ r # NullSlot /\ s # NullSlot
  BY SlotsAre
<1>2. \A u \in T : age[u] \in Nat
  BY DEF Aged
<1>3. Oldest(Later(T, age, r), age, s) <=>
        age[r] < age[s] /\ \A u \in T : age[r] < age[u] => age[s] <= age[u]
  BY <1>1 DEF Oldest, Later
<1>4. Youngest(Earlier(T, age, s), age, r) <=>
        age[r] < age[s] /\ \A u \in T : age[u] < age[s] => age[u] <= age[r]
  BY <1>1 DEF Youngest, Earlier
<1> QED
  BY <1>2, <1>3, <1>4

\* A list that loses s: the link that named s names what s linked to.
LEMMA OldestLess ==
  ASSUME NEW age, NEW now, Aged(age, now), NEW T \in SUBSET Slots, NEW s \in T,
         NEW x, Oldest(T, age, x), NEW n, Oldest(Later(T, age, s), age, n)
  PROVE  Oldest(T \ {s}, age, IF x = s THEN n ELSE x)
<1>1. s \in Slots /\ s # NullSlot /\ x # NullSlot /\ x \in T
  BY SlotsAre DEF Oldest
<1>2. \A r \in T : age[r] \in Nat /\ (age[r] = age[s] => r = s)
  BY DEF Aged
<1>3. CASE x = s
  <2>1. T \ {s} = Later(T, age, s)
    BY <1>1, <1>2, <1>3 DEF Oldest, Later
  <2> QED
    BY <1>3, <2>1
<1>4. CASE x # s
  BY <1>1, <1>4 DEF Oldest
<1> QED
  BY <1>3, <1>4

\* Its youngest slot.
LEMMA YoungestLess ==
  ASSUME NEW age, NEW now, Aged(age, now), NEW T \in SUBSET Slots, NEW s \in T,
         NEW x, Youngest(T, age, x), NEW n, Youngest(Earlier(T, age, s), age, n)
  PROVE  Youngest(T \ {s}, age, IF x = s THEN n ELSE x)
<1>1. s \in Slots /\ s # NullSlot /\ x # NullSlot /\ x \in T
  BY SlotsAre DEF Youngest
<1>2. \A r \in T : age[r] \in Nat /\ (age[r] = age[s] => r = s)
  BY DEF Aged
<1>3. CASE x = s
  <2>1. T \ {s} = Earlier(T, age, s)
    BY <1>1, <1>2, <1>3 DEF Youngest, Earlier
  <2> QED
    BY <1>3, <2>1
<1>4. CASE x # s
  BY <1>1, <1>4 DEF Youngest
<1> QED
  BY <1>3, <1>4

\* The same for the link of another slot r of the list.
LEMMA NextLess ==
  ASSUME NEW age, NEW now, Aged(age, now), NEW T \in SUBSET Slots, NEW s \in T,
         NEW r \in T \ {s}, NEW x, Oldest(Later(T, age, r), age, x),
         NEW n, Oldest(Later(T, age, s), age, n)
  PROVE  Oldest(Later(T \ {s}, age, r), age, IF x = s THEN n ELSE x)
<1>1. \A u \in T : age[u] \in Nat /\ (age[u] = age[s] => u = s)
  BY DEF Aged
<1>2. Later(T \ {s}, age, r) = Later(T, age, r) \ {s}
  BY DEF Later
<1>3. CASE age[r] < age[s]
  <2>1. s \in Later(T, age, r) /\ Later(T, age, r) \in SUBSET Slots
    BY <1>3 DEF Later
  <2>2. Later(Later(T, age, r), age, s) = Later(T, age, s)
    BY <1>1, <1>3 DEF Later
  <2> QED
    BY <1>2, <2>1, <2>2, OldestLess
<1>4. CASE ~(age[r] < age[s])
  <2>1. s \notin Later(T, age, r)
    BY <1>4 DEF Later
  <2>2. Later(T \ {s}, age, r) = Later(T, age, r)
    BY <1>2, <2>1
  <2>3. x # s
    BY <2>1, SlotsAre DEF Oldest
  <2> QED
    BY <2>2, <2>3
<1> QED
  BY <1>3, <1>4

\* The slot before each of the others.
LEMMA PrevLess ==
  ASSUME NEW age, NEW now, Aged(age, now), NEW T \in SUBSET Slots, NEW s \in T,
         NEW r \in T \ {s}, NEW x, Youngest(Earlier(T, age, r), age, x),
         NEW p, Youngest(Earlier(T, age, s), age, p)
  PROVE  Youngest(Earlier(T \ {s}, age, r), age, IF x = s THEN p ELSE x)
<1>1. \A u \in T : age[u] \in Nat /\ (age[u] = age[s] => u = s)
  BY DEF Aged
<1>2. Earlier(T \ {s}, age, r) = Earlier(T, age, r) \ {s}
  BY DEF Earlier
<1>3. CASE age[s] < age[r]
  <2>1. s \in Earlier(T, age, r) /\ Earlier(T, age, r) \in SUBSET Slots
    BY <1>3 DEF Earlier
  <2>2. Earlier(Earlier(T, age, r), age, s) = Earlier(T, age, s)
    BY <1>1, <1>3 DEF Earlier
  <2> QED
    BY <1>2, <2>1, <2>2, YoungestLess
<1>4. CASE ~(age[s] < age[r])
  <2>1. s \notin Earlier(T, age, r)
    BY <1>4 DEF Earlier
  <2>2. Earlier(T \ {s}, age, r) = Earlier(T, age, r)
    BY <1>2, <2>1
  <2>3. x # s
    BY <2>1, SlotsAre DEF Youngest
  <2> QED
    BY <2>2, <2>3
<1> QED
  BY <1>3, <1>4

\* The slot that just became the youngest goes to the end of a list it was not in.
LEMMA RenewedIs ==
  ASSUME NEW age, NEW now, Aged(age, now), NEW s \in Slots
  PROVE  /\ Aged(Renewed(age, s, now), now + 1)
         /\ Renewed(age, s, now)[s] = now
         /\ \A r \in Slots : r # s => Renewed(age, s, now)[r] = age[r]
<1>1. /\ Renewed(age, s, now) \in [Slots -> Nat]
      /\ Renewed(age, s, now)[s] = now
      /\ \A r \in Slots : r # s => Renewed(age, s, now)[r] = age[r]
  BY DEF Renewed, Aged
<1> QED
  BY <1>1 DEF Aged

\* A list that s is not in does not see that s became the youngest.
LEMMA SameEnds ==
  ASSUME NEW age, NEW now, Aged(age, now), NEW s \in Slots, NEW T \in SUBSET Slots, s \notin T,
         NEW x
  PROVE  LET new == Renewed(age, s, now) IN
         /\ Oldest(T, new, x) <=> Oldest(T, age, x)
         /\ Youngest(T, new, x) <=> Youngest(T, age, x)
         /\ \A r \in T : /\ Later(T, new, r) = Later(T, age, r)
                         /\ Earlier(T, new, r) = Earlier(T, age, r)
<1> DEFINE new == Renewed(age, s, now)
<1>1. \A r \in T : new[r] = age[r]
  BY RenewedIs
<1> HIDE DEF new
<1>2. \A r \in T : Later(T, new, r) = Later(T, age, r) /\ Earlier(T, new, r) = Earlier(T, age, r)
  BY <1>1 DEF Later, Earlier
<1>3. Oldest(T, new, x) <=> Oldest(T, age, x)
  BY <1>1 DEF Oldest
<1>4. Youngest(T, new, x) <=> Youngest(T, age, x)
  BY <1>1 DEF Youngest
<1> QED
  BY <1>2, <1>3, <1>4 DEF new

\* s stands behind all of T, which keeps its order.
Behind(T, age, s, new) ==
  /\ Youngest(T \union {s}, new, s)
  /\ Later(T \union {s}, new, s) = {}
  /\ Earlier(T \union {s}, new, s) = T
  /\ \A r \in T : /\ Later(T \union {s}, new, r) = Later(T, age, r) \union {s}
                  /\ Earlier(T \union {s}, new, r) = Earlier(T, age, r)

\* It goes to the end of the list it joins.
LEMMA JoinedEnds ==
  ASSUME NEW age, NEW now, Aged(age, now), NEW s \in Slots, NEW T \in SUBSET Slots, s \notin T
  PROVE  Behind(T, age, s, Renewed(age, s, now))
<1> DEFINE new == Renewed(age, s, now)
<1>1. /\ new[s] = now /\ now \in Nat
      /\ \A r \in T : new[r] = age[r] /\ age[r] \in Nat /\ age[r] < now
  <2>1. new[s] = now /\ \A r \in Slots : r # s => new[r] = age[r]
    BY RenewedIs
  <2>2. now \in Nat /\ \A r \in Slots : age[r] \in Nat /\ age[r] < now
    BY DEF Aged
  <2> QED
    BY <2>1, <2>2
<1>2. s # NullSlot
  BY SlotsAre
<1> HIDE DEF new
<1>3. Youngest(T \union {s}, new, s)
  BY <1>1, <1>2 DEF Youngest
<1>4. Later(T \union {s}, new, s) = {} /\ Earlier(T \union {s}, new, s) = T
  BY <1>1 DEF Later, Earlier
<1>5. \A r \in T : /\ Later(T \union {s}, new, r) = Later(T, age, r) \union {s}
                   /\ Earlier(T \union {s}, new, r) = Earlier(T, age, r)
  BY <1>1 DEF Later, Earlier
<1> QED
  BY <1>3, <1>4, <1>5 DEF Behind, new

\* Where a list had no slot to name, it names the one that joined.
LEMMA OldestMore ==
  ASSUME NEW age, NEW now, Aged(age, now), NEW s \in Slots, NEW T \in SUBSET Slots, s \notin T,
         NEW x, Oldest(T, age, x)
  PROVE  Oldest(T \union {s}, Renewed(age, s, now), IF x = NullSlot THEN s ELSE x)
<1> DEFINE new == Renewed(age, s, now)
<1>1. /\ new[s] = now /\ now \in Nat
      /\ \A r \in T : new[r] = age[r] /\ age[r] \in Nat /\ age[r] < now
  <2>1. new[s] = now /\ \A r \in Slots : r # s => new[r] = age[r]
    BY RenewedIs
  <2>2. now \in Nat /\ \A r \in Slots : age[r] \in Nat /\ age[r] < now
    BY DEF Aged
  <2> QED
    BY <2>1, <2>2
<1>2. s # NullSlot
  BY SlotsAre
<1> HIDE DEF new
<1>3. Oldest(T \union {s}, new, IF x = NullSlot THEN s ELSE x)
  <2>1. CASE x = NullSlot
    BY <1>1, <1>2, <2>1 DEF Oldest
  <2>2. CASE x # NullSlot
    BY <1>1, <1>2, <2>2 DEF Oldest
  <2> QED
    BY <2>1, <2>2
<1> QED
  BY <1>3 DEF new

-----------------------------------------------------------------------------
(***************************************************************************)
(* Numbers.                                                                 *)
(***************************************************************************)

\* A set of numbers has a least one: the form induction takes here.
LEMMA LeastNat ==
  ASSUME NEW T, T \subseteq Nat, T # {}
  PROVE  \E x \in T : \A y \in T : x <= y
<1>1. IsWellFoundedOn(OpToRel(<, Nat), Nat)
  BY NatLessThanWellFounded
<1>2. PICK x \in T : \A y \in T : <<y, x>> \notin OpToRel(<, Nat)
  BY <1>1, WFMin
<1>3. \A y \in T : ~ (y < x)
  BY <1>2 DEF OpToRel
<1> QED
  BY <1>3

\* Min and Max of a set that is bounded, and need not be known to be finite.
LEMMA MinIs ==
  ASSUME NEW T, T \subseteq Int, T # {}, NEW n \in Int, \A x \in T : n <= x
  PROVE  Min(T) \in T /\ \A y \in T : Min(T) <= y
<1> DEFINE U == {x - n : x \in T}
<1>1. \A x \in T : x - n \in Nat /\ x - n \in U
  OBVIOUS
<1>2. U \subseteq Nat /\ U # {}
  BY <1>1
<1>3. PICK u \in U : \A y \in U : u <= y
  BY <1>2, LeastNat
<1>4. PICK x \in T : u = x - n
  OBVIOUS
<1>5. ASSUME NEW y \in T
      PROVE  x <= y
  <2>1. x - n <= y - n
    BY <1>1, <1>3, <1>4
  <2>2. x \in Int /\ y \in Int
    OBVIOUS
  <2> QED
    BY <2>1, <2>2
<1> QED
  BY <1>4, <1>5 DEF Min

\* The greatest of a set of numbers bounded above.
LEMMA MaxIs ==
  ASSUME NEW T, T \subseteq Int, T # {}, NEW n \in Int, \A x \in T : x <= n
  PROVE  Max(T) \in T /\ \A y \in T : y <= Max(T)
<1> DEFINE U == {n - x : x \in T}
<1>1. \A x \in T : n - x \in Nat /\ n - x \in U
  OBVIOUS
<1>2. U \subseteq Nat /\ U # {}
  BY <1>1
<1>3. PICK u \in U : \A y \in U : u <= y
  BY <1>2, LeastNat
<1>4. PICK x \in T : u = n - x
  OBVIOUS
<1>5. ASSUME NEW y \in T
      PROVE  x >= y
  <2>1. n - x <= n - y
    BY <1>1, <1>3, <1>4
  <2>2. x \in Int /\ y \in Int
    OBVIOUS
  <2> QED
    BY <2>1, <2>2
<1> QED
  BY <1>4, <1>5 DEF Max

-----------------------------------------------------------------------------
(***************************************************************************)
(* The bitmap.                                                              *)
(***************************************************************************)

Levels == 0 .. LevelCount - 1
Words == 0 .. WordsOf(LevelCount) - 1
Bits == 0 .. WordBits - 1

\* The bit of a level.
Place(w, k) == w * WordBits + k

\* The bitmap b.occupied marks the levels of X and no others.
Marks(b, X) ==
  /\ b.occupied \in [Words -> SUBSET Bits]
  /\ \A w \in Words, k \in Bits : k \in b.occupied[w] <=> Place(w, k) \in X

NearestUp(X, from, r) ==
  IF r = Npos THEN \A i \in X : i < from
  ELSE r \in X /\ from <= r /\ \A i \in X : from <= i => r <= i
NearestDown(X, from, r) ==
  IF r = Npos THEN \A i \in X : from < i
  ELSE r \in X /\ r <= from /\ \A i \in X : i <= from => i <= r

\* Bits of a lower word come first.
LEMMA PlaceOrder ==
  ASSUME NEW w \in Nat, NEW v \in Nat, NEW k \in Bits, NEW j \in Bits, w < v
  PROVE  Place(w, k) < Place(v, j)
<1>0. WordBits \in Nat /\ 0 < WordBits /\ k \in Nat /\ j \in Nat /\ k < WordBits
  BY WordAssumption DEF Bits
<1>1. PICK d \in Nat : v = w + 1 + d
  <2>1. v - w - 1 \in Nat /\ v = w + 1 + (v - w - 1)
    OBVIOUS
  <2> QED
    BY <2>1
<1>2. d * WordBits \in Nat
  BY <1>0
<1>3. v * WordBits = w * WordBits + WordBits + d * WordBits
  BY <1>0, <1>1
<1>4. w * WordBits \in Nat
  BY <1>0
<1> QED
  BY <1>0, <1>2, <1>3, <1>4 DEF Place

\* Every level has a word and a bit: the shift and the mask of the code.
LEMMA PlaceIs ==
  ASSUME NEW i \in Nat
  PROVE  /\ i \div WordBits \in Nat /\ i % WordBits \in Bits
         /\ Place(i \div WordBits, i % WordBits) = i
<1>0. WordBits \in Nat /\ 0 < WordBits
  BY WordAssumption
<1> DEFINE q == i \div WordBits
           r == i % WordBits
<1>1. q \in Int /\ r \in Int /\ 0 <= r /\ r < WordBits /\ i = WordBits * q + r
  BY <1>0
<1>2. q >= 0
  <2>1. SUFFICES ASSUME q <= -1 PROVE FALSE
    BY <1>1
  <2>2. WordBits * q <= WordBits * (-1)
    <3>1. PICK d \in Nat : q = -1 - d
      <4>1. -1 - q \in Nat /\ q = -1 - (-1 - q)
        BY <1>1, <2>1
      <4> QED
        BY <4>1
    <3>2. WordBits * q = WordBits * (-1) - WordBits * d /\ WordBits * d \in Nat
      BY <1>0, <3>1
    <3> QED
      BY <1>0, <3>2
  <2> QED
    BY <1>0, <1>1, <2>2
<1>3. WordBits * q = q * WordBits
  BY <1>0, <1>1
<1> QED
  BY <1>0, <1>1, <1>2, <1>3 DEF Place, Bits

\* A bit stands for one level, and bits are in the order of the levels.
LEMMA PlaceIsOne ==
  ASSUME NEW w \in Nat, NEW v \in Nat, NEW k \in Bits, NEW j \in Bits
  PROVE  /\ Place(w, k) \in Nat
         /\ Place(w, k) = Place(v, j) <=> w = v /\ k = j
         /\ Place(w, k) <= Place(v, j) <=> w < v \/ (w = v /\ k <= j)
<1>0. WordBits \in Nat /\ k \in Nat /\ j \in Nat
  BY WordAssumption DEF Bits
<1>1. w * WordBits \in Nat /\ v * WordBits \in Nat
  BY <1>0
<1>2. w < v => Place(w, k) < Place(v, j)
  BY PlaceOrder
<1>3. v < w => Place(v, j) < Place(w, k)
  BY PlaceOrder
<1>4. w = v => w * WordBits = v * WordBits
  OBVIOUS
<1> QED
  BY <1>0, <1>1, <1>2, <1>3, <1>4 DEF Place

\* Ticks and levels correspond.
LEMMA LevelsAre ==
  /\ LevelCount \in Nat \ {0}
  /\ Levels \subseteq Nat
  /\ \A i \in Levels : TickOf(i) \in Ticks /\ Idx(TickOf(i)) = i
  /\ \A t \in Ticks : Idx(t) \in Levels /\ TickOf(Idx(t)) = t
BY BookAssumption DEF LevelCount, Levels, TickOf, Idx, Ticks

\* Every level has its word.
LEMMA WordOf ==
  ASSUME NEW i \in Levels
  PROVE  /\ i \div WordBits \in Words
         /\ i % WordBits \in Bits
         /\ Place(i \div WordBits, i % WordBits) = i
<1>0. WordBits \in Nat /\ 0 < WordBits /\ LevelCount \in Nat /\ i \in Nat /\ i < LevelCount
  BY WordAssumption, LevelsAre DEF Levels
<1>1. /\ i \div WordBits \in Nat /\ i % WordBits \in Bits
      /\ Place(i \div WordBits, i % WordBits) = i
  BY <1>0, PlaceIs
<1> DEFINE n == LevelCount + WordBits - 1
           q == i \div WordBits
           v == n \div WordBits
<1>2. n \in Nat /\ i + WordBits <= n
  BY <1>0
<1>3. v \in Nat /\ n % WordBits \in Bits /\ Place(v, n % WordBits) = n
  BY <1>2, PlaceIs
<1>4. q + 1 \in Nat /\ Place(q + 1, i % WordBits) = i + WordBits
  <2>1. (q + 1) * WordBits = q * WordBits + WordBits
    BY <1>0, <1>1
  <2>2. q * WordBits \in Nat /\ i % WordBits \in Nat
    BY <1>0, <1>1 DEF Bits
  <2> QED
    BY <1>0, <1>1, <2>1, <2>2 DEF Place
<1>5. q + 1 <= v
  <2>1. Place(q + 1, i % WordBits) <= Place(v, n % WordBits)
    BY <1>2, <1>3, <1>4
  <2> HIDE DEF n, q, v
  <2>2. q + 1 < v \/ q + 1 = v
    BY <1>1, <1>3, <1>4, <2>1, PlaceIsOne
  <2> QED
    BY <1>3, <1>4, <2>2
<1>6. v = WordsOf(LevelCount)
  BY DEF WordsOf
<1> QED
  BY <1>1, <1>3, <1>5, <1>6 DEF Words

\* The words of the bitmap are numbered from 0.
LEMMA WordsAre ==
  /\ WordsOf(LevelCount) \in Nat
  /\ Words \subseteq Nat
  /\ \A w \in Words, v \in Nat : v <= w => v \in Words
<1>1. LevelCount + WordBits - 1 \in Nat
  BY LevelsAre, WordAssumption
<1>2. WordsOf(LevelCount) \in Nat
  BY <1>1, PlaceIs DEF WordsOf
<1> QED
  BY <1>2 DEF Words

\* Marking a level and unmarking one.
LEMMA MarkedIs ==
  ASSUME NEW occ, NEW X \in SUBSET Levels, NEW i \in Levels,
         occ \in [Words -> SUBSET Bits],
         \A w \in Words, k \in Bits : k \in occ[w] <=> Place(w, k) \in X
  PROVE  LET w0 == i \div WordBits
             k0 == i % WordBits
             on == [occ EXCEPT ![w0] = @ \union {k0}]
             off == [occ EXCEPT ![w0] = @ \ {k0}]
         IN /\ on \in [Words -> SUBSET Bits] /\ off \in [Words -> SUBSET Bits]
            /\ \A w \in Words, k \in Bits : k \in on[w] <=> Place(w, k) \in X \union {i}
            /\ \A w \in Words, k \in Bits : k \in off[w] <=> Place(w, k) \in X \ {i}
<1> DEFINE w0 == i \div WordBits
           k0 == i % WordBits
           on == [occ EXCEPT ![w0] = @ \union {k0}]
           off == [occ EXCEPT ![w0] = @ \ {k0}]
<1>1. w0 \in Words /\ k0 \in Bits /\ Place(w0, k0) = i
  BY WordOf
<1> HIDE DEF w0, k0
<1>2. \A w \in Words, k \in Bits : Place(w, k) = i <=> w = w0 /\ k = k0
  BY <1>1, WordsAre, PlaceIsOne
<1>3. on \in [Words -> SUBSET Bits] /\ off \in [Words -> SUBSET Bits]
  BY <1>1
<1>4. \A w \in Words : /\ on[w] = IF w = w0 THEN occ[w] \union {k0} ELSE occ[w]
                       /\ off[w] = IF w = w0 THEN occ[w] \ {k0} ELSE occ[w]
  BY <1>1
<1> HIDE DEF on, off
<1>5. \A w \in Words, k \in Bits : k \in on[w] <=> Place(w, k) \in X \union {i}
  BY <1>2, <1>4
<1>6. \A w \in Words, k \in Bits : k \in off[w] <=> Place(w, k) \in X \ {i}
  BY <1>2, <1>4
<1> QED
  BY <1>3, <1>5, <1>6 DEF w0, k0, on, off

\* scan_up finds the nearest marked level at or above `from`, across the words.
LEMMA ScanUpIs ==
  ASSUME NEW b, NEW X \in SUBSET Levels, Marks(b, X), NEW from \in 0 .. LevelCount
  PROVE  NearestUp(X, from, ScanUp(b, from))
<1>0. /\ LevelCount \in Nat /\ from \in Nat /\ X \subseteq Nat /\ \A i \in X : i < LevelCount
      /\ Npos \notin Nat
  BY LevelsAre DEF Levels, Npos
<1>1. CASE from >= LevelCount
  <2>1. ScanUp(b, from) = Npos
    BY <1>1 DEF ScanUp
  <2>2. from = LevelCount
    BY <1>0, <1>1
  <2> QED
    BY <1>0, <2>1, <2>2 DEF NearestUp
<1>2. CASE ~(from >= LevelCount)
  <2> DEFINE w0 == from \div WordBits
             k0 == from % WordBits
             word(w) == IF w = w0 THEN {k \in b.occupied[w] : k >= k0} ELSE b.occupied[w]
             hits == {w \in w0 .. WordsOf(LevelCount) - 1 : word(w) # {}}
  <2>0. from \in Levels
    BY <1>0, <1>2 DEF Levels
  <2>1. w0 \in Words /\ k0 \in Bits /\ Place(w0, k0) = from
    BY <2>0, WordOf
  <2>2. ScanUp(b, from) = IF hits = {} THEN Npos ELSE Place(Min(hits), Min(word(Min(hits))))
    BY <1>2 DEF ScanUp, Place
  <2> HIDE DEF w0, k0
  <2>3. w0 \in Nat /\ k0 \in Nat /\ Bits \subseteq Nat
    BY <2>1, WordsAre, WordAssumption DEF Bits
  <2>4. ASSUME NEW w \in Words, w0 <= w, NEW k \in Bits
        PROVE  k \in word(w) <=> Place(w, k) \in X /\ from <= Place(w, k)
    <3>1. w \in Nat /\ k \in Nat
      BY <2>3, WordsAre
    <3>2. from <= Place(w, k) <=> w0 < w \/ (w0 = w /\ k0 <= k)
      BY <2>1, <2>3, <3>1, PlaceIsOne
    <3>3. k \in b.occupied[w] <=> Place(w, k) \in X
      BY DEF Marks
    <3> QED
      BY <2>3, <2>4, <3>1, <3>2, <3>3
  <2>5. \A w \in w0 .. WordsOf(LevelCount) - 1 : w \in Words /\ word(w) \subseteq Bits
    BY <2>3, WordsAre DEF Words, Marks
  <2>6. ASSUME NEW i \in X, from <= i
        PROVE  \E w \in hits, k \in Bits : k \in word(w) /\ i = Place(w, k)
    <3> DEFINE w == i \div WordBits
               k == i % WordBits
    <3>1. w \in Words /\ k \in Bits /\ Place(w, k) = i
      BY WordOf
    <3> HIDE DEF w, k
    <3>2. w \in Nat
      BY <3>1, WordsAre
    <3>3. w0 <= w
      <4>1. Place(w0, k0) <= Place(w, k)
        BY <2>1, <2>6, <3>1
      <4>2. w0 < w \/ w0 = w
        BY <2>1, <2>3, <3>1, <3>2, <4>1, PlaceIsOne
      <4> QED
        BY <2>3, <3>2, <4>2
    <3>4. k \in word(w)
      BY <2>4, <2>6, <3>1, <3>3
    <3>5. w \in w0 .. WordsOf(LevelCount) - 1
      BY <2>3, <3>1, <3>2, <3>3, WordsAre DEF Words
    <3> QED
      BY <3>1, <3>4, <3>5
  <2>7. CASE hits = {}
    <3>1. \A i \in X : ~(from <= i)
      BY <2>6, <2>7
    <3>2. \A i \in X : i < from
      BY <1>0, <3>1
    <3> QED
      BY <2>2, <2>7, <3>2 DEF NearestUp
  <2>8. CASE hits # {}
    <3> DEFINE w == Min(hits)
               k == Min(word(w))
    <3>1. w \in hits /\ \A v \in hits : w <= v
      <4>1. hits \subseteq Int /\ \A v \in hits : w0 <= v
        BY <2>3, WordsAre
      <4>2. w0 \in Int
        BY <2>3
      <4> HIDE DEF hits, word, k
      <4> QED
        BY <2>8, <4>1, <4>2, MinIs
    <3>2. w \in Words /\ w \in Nat /\ w0 <= w /\ word(w) # {} /\ word(w) \subseteq Bits
      <4>1. w \in w0 .. WordsOf(LevelCount) - 1 /\ word(w) # {}
        BY <3>1
      <4> HIDE DEF w, word, hits, k
      <4> QED
        BY <2>3, <2>5, <4>1, WordsAre
    <3>3. k \in word(w) /\ \A j \in word(w) : k <= j
      <4> HIDE DEF word, w, hits
      <4>1. word(w) \subseteq Int /\ \A j \in word(w) : 0 <= j
        <5>1. \A j \in word(w) : j \in Nat
          BY <2>3, <3>2
        <5> QED
          BY <5>1
      <4>2. 0 \in Int
        OBVIOUS
      <4> QED
        BY <3>2, <4>1, <4>2, MinIs
    <3> HIDE DEF w, k, word, hits
    <3>4. Place(w, k) \in X /\ from <= Place(w, k)
      BY <2>4, <3>2, <3>3
    <3>5. ASSUME NEW i \in X, from <= i
          PROVE  Place(w, k) <= i
      <4>1. PICK v \in hits, j \in Bits : j \in word(v) /\ i = Place(v, j)
        BY <2>6, <3>5
      <4>2. v \in Nat /\ w <= v /\ (w = v => k <= j)
        <5>1. v \in w0 .. WordsOf(LevelCount) - 1
          BY DEF hits
        <5>2. v \in Nat
          BY <2>3, <5>1, WordsAre
        <5> QED
          BY <3>1, <3>3, <4>1, <5>2
      <4>3. w < v \/ (w = v /\ k <= j)
        BY <3>2, <4>2
      <4> QED
        BY <3>2, <3>3, <4>1, <4>2, <4>3, PlaceIsOne
    <3>6. ScanUp(b, from) = Place(w, k)
      BY <2>2, <2>8 DEF w, k
    <3>7. Place(w, k) # Npos
      BY <1>0, <3>4
    <3> QED
      BY <3>4, <3>5, <3>6, <3>7 DEF NearestUp
  <2> QED
    BY <2>7, <2>8
<1> QED
  BY <1>1, <1>2

\* scan_down finds the nearest marked level at or below `from`.
LEMMA ScanDownIs ==
  ASSUME NEW b, NEW X \in SUBSET Levels, Marks(b, X), NEW from \in Levels
  PROVE  NearestDown(X, from, ScanDown(b, from))
<1>0. /\ LevelCount \in Nat /\ from \in Nat /\ X \subseteq Nat /\ \A i \in X : i < LevelCount
      /\ Npos \notin Nat /\ from # Npos
  BY LevelsAre DEF Levels, Npos
<1> DEFINE w0 == from \div WordBits
           k0 == from % WordBits
           word(w) == IF w = w0 THEN {k \in b.occupied[w] : k <= k0} ELSE b.occupied[w]
           hits == {w \in 0 .. w0 : word(w) # {}}
<1>1. w0 \in Words /\ k0 \in Bits /\ Place(w0, k0) = from
  BY WordOf
<1>2. ScanDown(b, from) = IF hits = {} THEN Npos ELSE Place(Max(hits), Max(word(Max(hits))))
  BY <1>0 DEF ScanDown, Place
<1> HIDE DEF w0, k0
<1>3. w0 \in Nat /\ k0 \in Nat /\ Bits \subseteq Nat
  BY <1>1, WordsAre, WordAssumption DEF Bits
<1>4. ASSUME NEW w \in Words, w <= w0, NEW k \in Bits
      PROVE  k \in word(w) <=> Place(w, k) \in X /\ Place(w, k) <= from
  <2>1. w \in Nat /\ k \in Nat
    BY <1>3, WordsAre
  <2>2. Place(w, k) <= from <=> w < w0 \/ (w0 = w /\ k <= k0)
    BY <1>1, <1>3, <2>1, PlaceIsOne
  <2>3. k \in b.occupied[w] <=> Place(w, k) \in X
    BY DEF Marks
  <2> QED
    BY <1>3, <1>4, <2>1, <2>2, <2>3
<1>5. \A w \in 0 .. w0 : w \in Words /\ word(w) \subseteq Bits
  BY <1>1, <1>3, WordsAre DEF Marks
<1>6. ASSUME NEW i \in X, i <= from
      PROVE  \E w \in hits, k \in Bits : k \in word(w) /\ i = Place(w, k)
  <2> DEFINE w == i \div WordBits
             k == i % WordBits
  <2>1. w \in Words /\ k \in Bits /\ Place(w, k) = i
    BY WordOf
  <2> HIDE DEF w, k
  <2>2. w \in Nat
    BY <2>1, WordsAre
  <2>3. w <= w0
    <3>1. Place(w, k) <= Place(w0, k0)
      BY <1>1, <1>6, <2>1
    <3>2. w < w0 \/ w0 = w
      BY <1>1, <1>3, <2>1, <2>2, <3>1, PlaceIsOne
    <3> QED
      BY <1>3, <2>2, <3>2
  <2>4. k \in word(w)
    BY <1>4, <1>6, <2>1, <2>3
  <2>5. w \in 0 .. w0
    BY <1>3, <2>2, <2>3
  <2> QED
    BY <2>1, <2>4, <2>5
<1>7. CASE hits = {}
  <2>1. \A i \in X : ~(i <= from)
    BY <1>6, <1>7
  <2>2. \A i \in X : from < i
    BY <1>0, <2>1
  <2> QED
    BY <1>2, <1>7, <2>2 DEF NearestDown
<1>8. CASE hits # {}
  <2> DEFINE w == Max(hits)
             k == Max(word(w))
  <2>1. w \in hits /\ \A v \in hits : v <= w
    <3>1. hits \subseteq Int /\ \A v \in hits : v <= w0
      BY <1>3
    <3>2. w0 \in Int
      BY <1>3
    <3> HIDE DEF hits, word, k
    <3> QED
      BY <1>8, <3>1, <3>2, MaxIs
  <2>2. w \in Words /\ w \in Nat /\ w <= w0 /\ word(w) # {} /\ word(w) \subseteq Bits
    <3>1. w \in 0 .. w0 /\ word(w) # {}
      BY <2>1
    <3> HIDE DEF w, word, hits, k
    <3> QED
      BY <1>3, <1>5, <3>1, WordsAre
  <2>3. k \in word(w) /\ \A j \in word(w) : j <= k
    <3> HIDE DEF word, w, hits
    <3>1. word(w) \subseteq Int /\ \A j \in word(w) : j <= WordBits
      BY <1>3, <2>2, WordAssumption DEF Bits
    <3>2. WordBits \in Int
      BY WordAssumption
    <3> QED
      BY <2>2, <3>1, <3>2, MaxIs
  <2> HIDE DEF w, k, word, hits
  <2>4. Place(w, k) \in X /\ Place(w, k) <= from
    BY <1>4, <2>2, <2>3
  <2>5. ASSUME NEW i \in X, i <= from
        PROVE  i <= Place(w, k)
    <3>1. PICK v \in hits, j \in Bits : j \in word(v) /\ i = Place(v, j)
      BY <1>6, <2>5
    <3>2. v \in Nat /\ v <= w /\ (w = v => j <= k)
      <4>1. v \in 0 .. w0
        BY DEF hits
      <4>2. v \in Nat
        BY <1>3, <4>1
      <4> QED
        BY <2>1, <2>3, <3>1, <4>2
    <3>3. v < w \/ (v = w /\ j <= k)
      BY <2>2, <3>2
    <3> QED
      BY <2>2, <2>3, <3>1, <3>2, <3>3, PlaceIsOne
  <2>6. ScanDown(b, from) = Place(w, k)
    BY <1>2, <1>8 DEF w, k
  <2>7. Place(w, k) # Npos
    BY <1>0, <2>4
  <2> QED
    BY <2>4, <2>5, <2>6, <2>7 DEF NearestDown
<1> QED
  BY <1>7, <1>8

-----------------------------------------------------------------------------
(***************************************************************************)
(* The book.                                                                *)
(***************************************************************************)

SlotType == [id : AnyId, qty : Int, tick : Int, side : Sides, live : BOOLEAN,
             prev : Links, next : Links]
LevelType == [qty : Int, head : Links, tail : Links, orders : Int]
Index == UNION {[D -> Slots] : D \in SUBSET Ids}

Book == [levels : [Levels -> LevelType], occupied : [Words -> SUBSET Bits],
         pool : [Slots -> SlotType], free_head : Links, pool_used : Int, ids : Index,
         best_bid : Int, best_ask : Int]

Dead(b) == Slots \ LiveSlots(b)

\* The orders of level i, and the levels that have some.
At(b, i) == {s \in LiveSlots(b) : b.pool[s].tick = TickOf(i)}
Taken(b) == {i \in Levels : At(b, i) # {}}

\* M says what any set of slots weighs.
Weighs(M, b) ==
  /\ M \in [SUBSET Slots -> Nat]
  /\ M[{}] = 0
  /\ \A S \in SUBSET Slots : \A s \in Slots \ S : M[S \union {s}] = M[S] + b.pool[s].qty

\* What slot s weighs goes from q to r.
Reweighed(M, s, q, r) == [S \in SUBSET Slots |-> IF s \in S THEN M[S] - q + r ELSE M[S]]

\* Live orders are what the range and the callers allow, under one id each.
Sound(b) ==
  \A s \in LiveSlots(b) :
    /\ b.pool[s].id \in DOMAIN b.ids /\ b.ids[b.pool[s].id] = s
    /\ b.pool[s].tick \in Ticks
    /\ b.pool[s].qty > 0
Indexed(b) == \A i \in DOMAIN b.ids : b.ids[i] \in LiveSlots(b) /\ b.pool[b.ids[i]].id = i

\* The queue of a level: its ends, and the links both ways.
Ends(b, age, i) ==
  /\ Oldest(At(b, i), age, b.levels[i].head)
  /\ Youngest(At(b, i), age, b.levels[i].tail)
Linked(b, age, i) ==
  \A s \in At(b, i) : /\ Oldest(Later(At(b, i), age, s), age, b.pool[s].next)
                      /\ Youngest(Earlier(At(b, i), age, s), age, b.pool[s].prev)
Queued(b, age) == \A i \in Levels : Ends(b, age, i) /\ Linked(b, age, i)

\* The free list, last freed first.
Spare(b, age) ==
  /\ Youngest(Dead(b), age, b.free_head)
  /\ \A s \in Dead(b) : Youngest(Earlier(Dead(b), age, s), age, b.pool[s].next)

Counted(b, M) ==
  /\ b.pool_used = Cardinality(LiveSlots(b))
  /\ \A i \in Levels : /\ b.levels[i].orders = Cardinality(At(b, i))
                       /\ b.levels[i].qty = M[At(b, i)]

\* Everything about the book but the bitmap and the best prices.
Kept(b, age, now, M) ==
  /\ b \in Book
  /\ Aged(age, now) /\ Weighs(M, b)
  /\ Sound(b) /\ Indexed(b)
  /\ Queued(b, age) /\ Spare(b, age) /\ Counted(b, M)

\* The id index is a function from some ids to slots.
LEMMA IndexIs ==
  ASSUME NEW f
  PROVE  f \in Index <=> f \in [DOMAIN f -> Slots] /\ DOMAIN f \subseteq Ids
BY DEF Index

\* Sets of slots are finite, and count as sets do.
LEMMA SetsOfSlots ==
  ASSUME NEW T \in SUBSET Slots
  PROVE  /\ IsFiniteSet(T) /\ Cardinality(T) \in Nat /\ Cardinality(T) <= PoolSize
         /\ Cardinality(T) = 0 <=> T = {}
         /\ \A s \in T : Cardinality(T \ {s}) = Cardinality(T) - 1
         /\ \A s \in Slots \ T : Cardinality(T \union {s}) = Cardinality(T) + 1
<1>1. IsFiniteSet(Slots) /\ Cardinality(Slots) = PoolSize
  <2>1. 1 \in Int /\ PoolSize \in Int
    BY BookAssumption
  <2>2. IsFiniteSet(1 .. PoolSize)
        /\ Cardinality(1 .. PoolSize) = IF 1 > PoolSize THEN 0 ELSE PoolSize - 1 + 1
    BY <2>1, FS_Interval
  <2> QED
    BY <2>2, BookAssumption DEF Slots
<1>2. IsFiniteSet(T) /\ Cardinality(T) <= Cardinality(Slots)
  BY <1>1, FS_Subset
<1>3. Cardinality(T) \in Nat
  BY <1>2, FS_CardinalityType
<1>4. Cardinality(T) = 0 <=> T = {}
  BY <1>2, FS_EmptySet
<1>5. \A s \in T : Cardinality(T \ {s}) = Cardinality(T) - 1
  BY <1>2, FS_RemoveElement
<1>6. \A s \in Slots \ T : Cardinality(T \union {s}) = Cardinality(T) + 1
  BY <1>2, FS_AddElement
<1> QED
  BY <1>1, <1>2, <1>3, <1>4, <1>5, <1>6

\* What a set weighs is what it weighs without a slot, and the slot.
LEMMA WeighsPart ==
  ASSUME NEW b \in Book, NEW M, Weighs(M, b), NEW T \in SUBSET Slots, NEW s \in T
  PROVE  M[T] = M[T \ {s}] + b.pool[s].qty /\ b.pool[s].qty \in Int
<1>1. T \ {s} \in SUBSET Slots /\ s \in Slots \ (T \ {s}) /\ (T \ {s}) \union {s} = T
  OBVIOUS
<1>2. M[(T \ {s}) \union {s}] = M[T \ {s}] + b.pool[s].qty
  BY <1>1 DEF Weighs
<1> QED
  BY <1>1, <1>2 DEF Book, SlotType

\* When one order changes its size only the sets it is in change their weight.
LEMMA ReweighedIs ==
  ASSUME NEW b \in Book, NEW M, Weighs(M, b), NEW s \in Slots, NEW c \in Book,
         c.pool[s].qty >= 0, \A r \in Slots : r # s => c.pool[r].qty = b.pool[r].qty
  PROVE  LET N == Reweighed(M, s, b.pool[s].qty, c.pool[s].qty) IN
         /\ Weighs(N, c)
         /\ \A T \in SUBSET Slots : s \notin T => N[T] = M[T]
         /\ \A T \in SUBSET Slots : s \in T => N[T] = M[T] - b.pool[s].qty + c.pool[s].qty
<1> DEFINE q == b.pool[s].qty
           r == c.pool[s].qty
           N == Reweighed(M, s, q, r)
<1>1. q \in Int /\ r \in Int /\ 0 <= r
  BY DEF Book, SlotType
<1>2. \A T \in SUBSET Slots : N[T] = IF s \in T THEN M[T] - q + r ELSE M[T]
  BY DEF Reweighed
<1>3. \A T \in SUBSET Slots : M[T] \in Nat
  BY DEF Weighs
<1>4. ASSUME NEW T \in SUBSET Slots
      PROVE  N[T] \in Nat
  <2>1. CASE s \in T
    <3>1. M[T] = M[T \ {s}] + q
      BY <2>1, WeighsPart
    <3>2. M[T \ {s}] \in Nat /\ M[T] \in Nat
      BY <1>3
    <3> HIDE DEF q, r, N
    <3> QED
      BY <1>1, <1>2, <2>1, <3>1, <3>2
  <2>2. CASE s \notin T
    BY <1>2, <1>3, <2>2
  <2> QED
    BY <2>1, <2>2
<1>5. N \in [SUBSET Slots -> Nat]
  BY <1>4 DEF Reweighed
<1>6. N[{}] = 0
  BY <1>2 DEF Weighs
<1>7. ASSUME NEW T \in SUBSET Slots, NEW x \in Slots \ T
      PROVE  N[T \union {x}] = N[T] + c.pool[x].qty
  <2>1. M[T \union {x}] = M[T] + b.pool[x].qty /\ T \union {x} \in SUBSET Slots
    BY DEF Weighs
  <2>2. M[T] \in Nat /\ M[T \union {x}] \in Nat
    BY <1>3, <2>1
  <2>3. b.pool[x].qty \in Int
    BY DEF Book, SlotType
  <2> HIDE DEF N
  <2>4. CASE x = s
    <3>1. s \notin T /\ s \in T \union {x}
      BY <2>4
    <3>2. N[T] = M[T] /\ N[T \union {x}] = M[T \union {x}] - q + r
      BY <1>2, <2>1, <3>1
    <3>3. M[T \union {x}] = M[T] + q
      BY <2>1, <2>4
    <3> HIDE DEF q, r
    <3>4. N[T \union {x}] = N[T] + r
      BY <1>1, <2>2, <3>2, <3>3
    <3> QED
      BY <2>4, <3>4 DEF r
  <2>5. CASE x # s
    <3>1. c.pool[x].qty = b.pool[x].qty /\ (s \in T \union {x} <=> s \in T)
      BY <2>5
    <3>2. CASE s \in T
      <4>1. N[T] = M[T] - q + r /\ N[T \union {x}] = M[T \union {x}] - q + r
        BY <1>2, <2>1, <3>1, <3>2
      <4> HIDE DEF q, r
      <4> QED
        BY <1>1, <2>1, <2>2, <2>3, <3>1, <4>1
    <3>3. CASE s \notin T
      <4>1. N[T] = M[T] /\ N[T \union {x}] = M[T \union {x}]
        BY <1>2, <2>1, <3>1, <3>3
      <4> QED
        BY <2>1, <3>1, <4>1
    <3> QED
      BY <3>2, <3>3
  <2> QED
    BY <2>4, <2>5
<1> HIDE DEF N
<1>8. Weighs(N, c)
  BY <1>5, <1>6, <1>7 DEF Weighs
<1> QED
  BY <1>2, <1>8 DEF N

-----------------------------------------------------------------------------
(***************************************************************************)
(* An order leaves.                                                         *)
(***************************************************************************)

\* The neighbours of s close up, its slot goes to the free list.
Closed(b, s) ==
  LET o == b.pool[s] IN
  [r \in Slots |->
     IF r = s THEN Blank(b.free_head)
     ELSE IF r = o.prev THEN [b.pool[r] EXCEPT !.next = o.next]
     ELSE IF r = o.next THEN [b.pool[r] EXCEPT !.prev = o.prev]
     ELSE b.pool[r]]

Lowered(b, s) ==
  LET o  == b.pool[s]
      lv == b.levels[Idx(o.tick)]
  IN [b.levels EXCEPT
        ![Idx(o.tick)] = [qty    |-> lv.qty - o.qty,
                          head   |-> IF o.prev = NullSlot THEN o.next ELSE lv.head,
                          tail   |-> IF o.next = NullSlot THEN o.prev ELSE lv.tail,
                          orders |-> lv.orders - 1]]

Removal(b, s) ==
  [b EXCEPT !.pool = Closed(b, s), !.levels = Lowered(b, s), !.free_head = s,
            !.pool_used = @ - 1,
            !.ids = [i \in DOMAIN @ \ {b.pool[s].id} |-> @[i]]]

\* The live orders of c are those of b in X, each with the place and size it had.
SameOrders(b, c, X) ==
  /\ LiveSlots(c) = X
  /\ \A s \in X : /\ c.pool[s].id = b.pool[s].id
                  /\ c.pool[s].side = b.pool[s].side
                  /\ c.pool[s].tick = b.pool[s].tick
                  /\ c.pool[s].qty = b.pool[s].qty

\* What a book in order says of a resting order.
LEMMA OrderIs ==
  ASSUME NEW b \in Book, Sound(b), NEW s \in LiveSlots(b)
  PROVE  /\ s \in Slots /\ b.pool[s] \in SlotType /\ b.pool[s].live
         /\ b.pool[s].tick \in Ticks /\ Idx(b.pool[s].tick) \in Levels
         /\ TickOf(Idx(b.pool[s].tick)) = b.pool[s].tick
         /\ s \in At(b, Idx(b.pool[s].tick))
         /\ b.pool[s].qty \in Nat \ {0}
         /\ b.pool[s].id \in DOMAIN b.ids /\ b.ids[b.pool[s].id] = s
<1>1. s \in Slots /\ b.pool[s] \in SlotType /\ b.pool[s].live
  BY DEF LiveSlots, Book
<1>2. b.pool[s].tick \in Ticks /\ b.pool[s].qty > 0
      /\ b.pool[s].id \in DOMAIN b.ids /\ b.ids[b.pool[s].id] = s
  BY DEF Sound
<1>3. Idx(b.pool[s].tick) \in Levels /\ TickOf(Idx(b.pool[s].tick)) = b.pool[s].tick
  BY <1>2, LevelsAre
<1>4. b.pool[s].qty \in Nat \ {0}
  BY <1>1, <1>2 DEF SlotType
<1> QED
  BY <1>1, <1>2, <1>3, <1>4 DEF At

\* A level holds live slots.
LEMMA AtIs ==
  ASSUME NEW b, NEW i
  PROVE  At(b, i) \in SUBSET Slots /\ At(b, i) \subseteq LiveSlots(b)
BY DEF At, LiveSlots

\* What a freed slot holds.
LEMMA BlankIs ==
  ASSUME NEW x \in Links
  PROVE  /\ Blank(x) \in SlotType
         /\ Blank(x).live = FALSE /\ Blank(x).qty = 0 /\ Blank(x).next = x
BY DEF Blank, SlotType, AnyId, Sides, Links, NullSlot

\* The pool when the neighbours of s have closed up.
LEMMA ClosedIs ==
  ASSUME NEW b \in Book, NEW s \in Slots
  PROVE  /\ Closed(b, s) \in [Slots -> SlotType]
         /\ Closed(b, s)[s] = Blank(b.free_head)
         /\ \A r \in Slots \ {s} :
              /\ Closed(b, s)[r].id = b.pool[r].id
              /\ Closed(b, s)[r].qty = b.pool[r].qty
              /\ Closed(b, s)[r].tick = b.pool[r].tick
              /\ Closed(b, s)[r].side = b.pool[r].side
              /\ Closed(b, s)[r].live = b.pool[r].live
              /\ Closed(b, s)[r].next =
                   IF r = b.pool[s].prev THEN b.pool[s].next ELSE b.pool[r].next
              /\ Closed(b, s)[r].prev =
                   IF r = b.pool[s].next /\ r # b.pool[s].prev
                     THEN b.pool[s].prev ELSE b.pool[r].prev
<1>1. b.pool \in [Slots -> SlotType] /\ b.free_head \in Links
  BY DEF Book
<1>2. Blank(b.free_head) \in SlotType
  BY <1>1, BlankIs
<1>3. ASSUME NEW r \in Slots
      PROVE  Closed(b, s)[r] \in SlotType
  <2>1. b.pool[r] \in SlotType /\ b.pool[s].next \in Links /\ b.pool[s].prev \in Links
    BY <1>1 DEF SlotType
  <2>2. [b.pool[r] EXCEPT !.next = b.pool[s].next] \in SlotType
        /\ [b.pool[r] EXCEPT !.prev = b.pool[s].prev] \in SlotType
    BY <2>1 DEF SlotType
  <2> QED
    BY <1>2, <2>1, <2>2 DEF Closed
<1>4. Closed(b, s) \in [Slots -> SlotType]
  BY <1>3 DEF Closed
<1>5. ASSUME NEW r \in Slots \ {s}
      PROVE  /\ Closed(b, s)[r].id = b.pool[r].id
             /\ Closed(b, s)[r].qty = b.pool[r].qty
             /\ Closed(b, s)[r].tick = b.pool[r].tick
             /\ Closed(b, s)[r].side = b.pool[r].side
             /\ Closed(b, s)[r].live = b.pool[r].live
             /\ Closed(b, s)[r].next =
                  IF r = b.pool[s].prev THEN b.pool[s].next ELSE b.pool[r].next
             /\ Closed(b, s)[r].prev =
                  IF r = b.pool[s].next /\ r # b.pool[s].prev
                    THEN b.pool[s].prev ELSE b.pool[r].prev
  BY <1>1 DEF Closed, SlotType
<1> QED
  BY <1>4, <1>5 DEF Closed

\* The levels when s has left its own.
LEMMA LoweredIs ==
  ASSUME NEW b \in Book, Sound(b), NEW s \in LiveSlots(b)
  PROVE  LET li == Idx(b.pool[s].tick) IN
         /\ Lowered(b, s) \in [Levels -> LevelType]
         /\ \A i \in Levels \ {li} : Lowered(b, s)[i] = b.levels[i]
         /\ Lowered(b, s)[li].qty = b.levels[li].qty - b.pool[s].qty
         /\ Lowered(b, s)[li].orders = b.levels[li].orders - 1
         /\ Lowered(b, s)[li].head =
              IF b.pool[s].prev = NullSlot THEN b.pool[s].next ELSE b.levels[li].head
         /\ Lowered(b, s)[li].tail =
              IF b.pool[s].next = NullSlot THEN b.pool[s].prev ELSE b.levels[li].tail
<1> DEFINE li == Idx(b.pool[s].tick)
           lv == b.levels[li]
           new == [qty |-> lv.qty - b.pool[s].qty,
                   head |-> IF b.pool[s].prev = NullSlot THEN b.pool[s].next ELSE lv.head,
                   tail |-> IF b.pool[s].next = NullSlot THEN b.pool[s].prev ELSE lv.tail,
                   orders |-> lv.orders - 1]
<1>1. li \in Levels /\ b.pool[s] \in SlotType
  BY OrderIs
<1>2. b.levels \in [Levels -> LevelType] /\ lv \in LevelType
  BY <1>1 DEF Book
<1>3. new \in LevelType
  BY <1>1, <1>2 DEF LevelType, SlotType
<1>4. Lowered(b, s) = [b.levels EXCEPT ![li] = new]
  BY DEF Lowered
<1> HIDE DEF li, new
<1>5. /\ Lowered(b, s) \in [Levels -> LevelType]
      /\ \A i \in Levels \ {li} : Lowered(b, s)[i] = b.levels[i]
      /\ Lowered(b, s)[li] = new
  BY <1>1, <1>2, <1>3, <1>4
<1> QED
  BY <1>5 DEF new, li

\* The fields of the book that has lost s.
LEMMA RemovalFields ==
  ASSUME NEW b \in Book, Sound(b), Indexed(b), NEW s \in LiveSlots(b)
  PROVE  LET c == Removal(b, s) IN
         /\ c \in Book
         /\ c.pool = Closed(b, s) /\ c.levels = Lowered(b, s)
         /\ c.free_head = s /\ c.pool_used = b.pool_used - 1
         /\ DOMAIN c.ids = DOMAIN b.ids \ {b.pool[s].id}
         /\ \A i \in DOMAIN c.ids : c.ids[i] = b.ids[i]
         /\ c.occupied = b.occupied /\ c.best_bid = b.best_bid /\ c.best_ask = b.best_ask
<1> DEFINE D == DOMAIN b.ids \ {b.pool[s].id}
           ids == [i \in D |-> b.ids[i]]
           c == Removal(b, s)
<1>1. s \in Slots /\ s \in Links
  BY DEF LiveSlots, Links
<1>2. Closed(b, s) \in [Slots -> SlotType] /\ Lowered(b, s) \in [Levels -> LevelType]
  BY <1>1, ClosedIs, LoweredIs
<1>3. b.ids \in [DOMAIN b.ids -> Slots] /\ DOMAIN b.ids \subseteq Ids
  BY IndexIs DEF Book
<1>4. ids \in Index /\ DOMAIN ids = D
  BY <1>3, IndexIs
<1>5. c = [b EXCEPT !.pool = Closed(b, s), !.levels = Lowered(b, s), !.free_head = s,
                    !.pool_used = b.pool_used - 1, !.ids = ids]
  BY DEF Removal, Book
<1>6. b.pool_used - 1 \in Int
  BY DEF Book
<1> HIDE DEF ids, c
<1>7. /\ c \in Book
      /\ c.pool = Closed(b, s) /\ c.levels = Lowered(b, s)
      /\ c.free_head = s /\ c.pool_used = b.pool_used - 1 /\ c.ids = ids
      /\ c.occupied = b.occupied /\ c.best_bid = b.best_bid /\ c.best_ask = b.best_ask
  BY <1>1, <1>2, <1>4, <1>5, <1>6 DEF Book
<1>8. \A i \in D : ids[i] = b.ids[i]
  BY DEF ids
<1> QED
  BY <1>4, <1>7, <1>8 DEF c

\* The orders of the book that has lost s.
LEMMA RemovalOrders ==
  ASSUME NEW b \in Book, Sound(b), Indexed(b), NEW s \in LiveSlots(b)
  PROVE  LET c == Removal(b, s) IN
         /\ SameOrders(b, c, LiveSlots(b) \ {s})
         /\ Dead(c) = Dead(b) \union {s} /\ s \notin Dead(b)
         /\ \A i \in Levels : At(c, i) = At(b, i) \ {s}
         /\ \A i \in Levels : i # Idx(b.pool[s].tick) => s \notin At(b, i)
<1> DEFINE c == Removal(b, s)
<1>1. s \in Slots /\ c.pool = Closed(b, s)
  BY RemovalFields DEF LiveSlots
<1>2. /\ c.pool[s].live = FALSE
      /\ \A r \in Slots \ {s} : /\ c.pool[r].id = b.pool[r].id
                                /\ c.pool[r].qty = b.pool[r].qty
                                /\ c.pool[r].tick = b.pool[r].tick
                                /\ c.pool[r].side = b.pool[r].side
                                /\ c.pool[r].live = b.pool[r].live
  <2>1. b.free_head \in Links
    BY DEF Book
  <2>2. Blank(b.free_head).live = FALSE
    BY <2>1, BlankIs
  <2> HIDE DEF c
  <2> QED
    BY <1>1, <2>2, ClosedIs
<1> HIDE DEF c
<1>3. LiveSlots(c) = LiveSlots(b) \ {s}
  BY <1>2 DEF LiveSlots
<1>4. SameOrders(b, c, LiveSlots(b) \ {s})
  BY <1>2, <1>3 DEF SameOrders, LiveSlots
<1>5. \A i \in Levels : At(c, i) = At(b, i) \ {s}
  BY <1>3, <1>4 DEF At, SameOrders
<1>6. ASSUME NEW i \in Levels, s \in At(b, i)
      PROVE  i = Idx(b.pool[s].tick)
  <2>1. b.pool[s].tick = TickOf(i)
    BY <1>6 DEF At
  <2> QED
    BY <2>1, LevelsAre
<1>7. Dead(c) = Dead(b) \union {s} /\ s \notin Dead(b)
  BY <1>1, <1>3 DEF Dead
<1> QED
  BY <1>4, <1>5, <1>6, <1>7 DEF c

\* The queue that s leaves closes up round it.
LEMMA RemovalQueue ==
  ASSUME NEW b \in Book, Sound(b), Indexed(b), NEW s \in LiveSlots(b),
         NEW age, NEW now, Aged(age, now), Queued(b, age)
  PROVE  Queued(Removal(b, s), Renewed(age, s, now))
<1> DEFINE c == Removal(b, s)
           new == Renewed(age, s, now)
           li == Idx(b.pool[s].tick)
           T == At(b, li)
           p == b.pool[s].prev
           n == b.pool[s].next
<1>1. /\ c.pool = Closed(b, s) /\ c.levels = Lowered(b, s)
      /\ \A i \in Levels : At(c, i) = At(b, i) \ {s}
      /\ \A i \in Levels : i # li => s \notin At(b, i)
  BY RemovalFields, RemovalOrders
<1>2. /\ s \in Slots /\ li \in Levels /\ T \in SUBSET Slots /\ s \in T
      /\ p \in Links /\ n \in Links
  BY OrderIs, AtIs DEF SlotType
<1>3. /\ Oldest(T, age, b.levels[li].head) /\ Youngest(T, age, b.levels[li].tail)
      /\ \A r \in T : /\ Oldest(Later(T, age, r), age, b.pool[r].next)
                      /\ Youngest(Earlier(T, age, r), age, b.pool[r].prev)
  BY <1>2 DEF Queued, Ends, Linked
<1>4. Oldest(Later(T, age, s), age, n) /\ Youngest(Earlier(T, age, s), age, p)
  BY <1>2, <1>3
<1>5. \A r \in Slots \ {s} : /\ c.pool[r].next = IF r = p THEN n ELSE b.pool[r].next
                             /\ c.pool[r].prev = IF r = n /\ r # p THEN p ELSE b.pool[r].prev
  BY <1>1, <1>2, ClosedIs
<1>6. /\ c.levels[li].head = IF p = NullSlot THEN n ELSE b.levels[li].head
      /\ c.levels[li].tail = IF n = NullSlot THEN p ELSE b.levels[li].tail
      /\ \A i \in Levels \ {li} : c.levels[i] = b.levels[i]
  BY <1>1, LoweredIs
<1>7. /\ n # NullSlot => n \in T /\ age[s] < age[n]
      /\ p # NullSlot => p \in T /\ age[p] < age[s]
  BY <1>4 DEF Oldest, Youngest, Later, Earlier
<1>8. p = n => p = NullSlot
  BY <1>2, <1>7 DEF Aged
<1>9. \A r \in T \ {s} : /\ r = p <=> b.pool[r].next = s
                         /\ r = n <=> b.pool[r].prev = s
  <2>1. SUFFICES ASSUME NEW r \in T \ {s}
                 PROVE  /\ r = p <=> b.pool[r].next = s
                        /\ r = n <=> b.pool[r].prev = s
    OBVIOUS
  <2>2. /\ Oldest(Later(T, age, r), age, b.pool[r].next)
        /\ Youngest(Earlier(T, age, r), age, b.pool[r].prev)
    BY <1>3
  <2>3. Later(T, age, r) \in SUBSET Slots /\ Earlier(T, age, s) \in SUBSET Slots
        /\ Earlier(T, age, r) \in SUBSET Slots /\ Later(T, age, s) \in SUBSET Slots
    BY <1>2 DEF Later, Earlier
  <2> HIDE DEF T, p, n, li, c, new
  <2>4. Oldest(Later(T, age, r), age, s) <=> Youngest(Earlier(T, age, s), age, r)
    BY <1>2, Neighbours
  <2>5. Oldest(Later(T, age, s), age, r) <=> Youngest(Earlier(T, age, r), age, s)
    BY <1>2, Neighbours
  <2>6. Youngest(Earlier(T, age, s), age, r) <=> r = p
    BY <1>4, <2>3, EndIsOne
  <2>7. Oldest(Later(T, age, r), age, s) <=> b.pool[r].next = s
    BY <2>2, <2>3, EndIsOne
  <2>8. Oldest(Later(T, age, s), age, r) <=> r = n
    BY <1>4, <2>3, EndIsOne
  <2>9. Youngest(Earlier(T, age, r), age, s) <=> b.pool[r].prev = s
    BY <2>2, <2>3, EndIsOne
  <2> QED
    BY <2>4, <2>5, <2>6, <2>7, <2>8, <2>9
<1>10. /\ p = NullSlot <=> b.levels[li].head = s
       /\ n = NullSlot <=> b.levels[li].tail = s
  <2>1. /\ s # NullSlot
        /\ \A r \in T : age[r] \in Nat /\ (age[r] = age[s] => r = s)
    BY <1>2, SlotsAre DEF Aged
  <2>2. p = NullSlot <=> Earlier(T, age, s) = {}
    BY <1>2, <1>4, SlotsAre DEF Youngest
  <2>3. n = NullSlot <=> Later(T, age, s) = {}
    BY <1>2, <1>4, SlotsAre DEF Oldest
  <2> HIDE DEF T, p, n, li, c, new
  <2>4. Earlier(T, age, s) = {} <=> Oldest(T, age, s)
    BY <1>2, <2>1 DEF Earlier, Oldest
  <2>5. Later(T, age, s) = {} <=> Youngest(T, age, s)
    BY <1>2, <2>1 DEF Later, Youngest
  <2>6. Oldest(T, age, s) <=> b.levels[li].head = s
    BY <1>2, <1>3, EndIsOne
  <2>7. Youngest(T, age, s) <=> b.levels[li].tail = s
    BY <1>2, <1>3, EndIsOne
  <2> QED
    BY <2>2, <2>3, <2>4, <2>5, <2>6, <2>7
<1>11. ASSUME NEW i \in Levels, i # li
       PROVE  Ends(c, new, i) /\ Linked(c, new, i)
  <2> DEFINE U == At(b, i)
  <2>1. U \in SUBSET Slots /\ s \notin U /\ At(c, i) = U /\ c.levels[i] = b.levels[i]
    BY <1>1, <1>6, <1>11, AtIs
  <2>2. Oldest(U, age, b.levels[i].head) /\ Youngest(U, age, b.levels[i].tail)
    BY DEF Queued, Ends
  <2>3. \A r \in U : /\ Oldest(Later(U, age, r), age, b.pool[r].next)
                     /\ Youngest(Earlier(U, age, r), age, b.pool[r].prev)
    BY DEF Queued, Linked
  <2>4. \A r \in U : r \notin T
    BY <1>2, <1>11, LevelsAre DEF At
  <2>5. \A r \in U : c.pool[r].next = b.pool[r].next /\ c.pool[r].prev = b.pool[r].prev
    <3>1. \A r \in U : r # p /\ r # n /\ r \in Slots \ {s}
      BY <1>2, <1>7, <2>1, <2>4, SlotsAre
    <3> QED
      BY <1>5, <3>1
  <2> HIDE DEF U, T, p, n, li, c, new
  <2>6. Ends(c, new, i)
    BY <1>2, <2>1, <2>2, SameEnds DEF Ends, new
  <2>7. ASSUME NEW r \in U
        PROVE  /\ Oldest(Later(U, new, r), new, b.pool[r].next)
               /\ Youngest(Earlier(U, new, r), new, b.pool[r].prev)
    <3>1. Later(U, new, r) = Later(U, age, r) /\ Earlier(U, new, r) = Earlier(U, age, r)
      BY <1>2, <2>1, SameEnds DEF new
    <3>2. /\ Later(U, age, r) \in SUBSET Slots /\ s \notin Later(U, age, r)
          /\ Earlier(U, age, r) \in SUBSET Slots /\ s \notin Earlier(U, age, r)
      BY <2>1 DEF Later, Earlier
    <3> QED
      BY <1>2, <2>3, <3>1, <3>2, SameEnds DEF new
  <2> QED
    BY <2>1, <2>5, <2>6, <2>7 DEF Linked
<1>12. Ends(c, new, li) /\ Linked(c, new, li)
  <2> DEFINE U == T \ {s}
  <2>1. U \in SUBSET Slots /\ s \notin U /\ At(c, li) = U
    BY <1>1, <1>2
  <2> HIDE DEF T, p, n, li, c, new, U
  <2>2. Oldest(U, age, c.levels[li].head)
    BY <1>2, <1>3, <1>4, <1>6, <1>10, OldestLess DEF U
  <2>3. Youngest(U, age, c.levels[li].tail)
    BY <1>2, <1>3, <1>4, <1>6, <1>10, YoungestLess DEF U
  <2>4. Ends(c, new, li)
    BY <1>2, <2>1, <2>2, <2>3, SameEnds DEF Ends, new
  <2>5. ASSUME NEW r \in U
        PROVE  /\ Oldest(Later(U, new, r), new, c.pool[r].next)
               /\ Youngest(Earlier(U, new, r), new, c.pool[r].prev)
    <3>1. r \in T \ {s} /\ r \in Slots \ {s} /\ r # NullSlot
      BY <2>1, SlotsAre DEF U
    <3>2. c.pool[r].next = IF b.pool[r].next = s THEN n ELSE b.pool[r].next
      BY <1>5, <1>9, <3>1
    <3>3. c.pool[r].prev = IF b.pool[r].prev = s THEN p ELSE b.pool[r].prev
      BY <1>5, <1>8, <1>9, <3>1
    <3>4. Oldest(Later(U, age, r), age, c.pool[r].next)
      BY <1>2, <1>3, <1>4, <3>1, <3>2, NextLess DEF U
    <3>5. Youngest(Earlier(U, age, r), age, c.pool[r].prev)
      BY <1>2, <1>3, <1>4, <3>1, <3>3, PrevLess DEF U
    <3>6. Later(U, new, r) = Later(U, age, r) /\ Earlier(U, new, r) = Earlier(U, age, r)
      BY <1>2, <2>1, SameEnds DEF new
    <3>7. /\ Later(U, age, r) \in SUBSET Slots /\ s \notin Later(U, age, r)
          /\ Earlier(U, age, r) \in SUBSET Slots /\ s \notin Earlier(U, age, r)
      BY <2>1 DEF Later, Earlier
    <3> QED
      BY <1>2, <3>4, <3>5, <3>6, <3>7, SameEnds DEF new
  <2> QED
    BY <2>1, <2>4, <2>5 DEF Linked
<1> QED
  BY <1>11, <1>12 DEF Queued

\* Its slot goes on top of the free list.
LEMMA RemovalSpare ==
  ASSUME NEW b \in Book, Sound(b), Indexed(b), NEW s \in LiveSlots(b),
         NEW age, NEW now, Aged(age, now), Queued(b, age), Spare(b, age)
  PROVE  Spare(Removal(b, s), Renewed(age, s, now))
<1> DEFINE c == Removal(b, s)
           new == Renewed(age, s, now)
           D == Dead(b)
           p == b.pool[s].prev
           n == b.pool[s].next
<1>1. /\ c.pool = Closed(b, s) /\ c.free_head = s
      /\ Dead(c) = D \union {s} /\ s \notin D /\ D \in SUBSET Slots /\ s \in Slots
  BY RemovalFields, RemovalOrders DEF Dead, LiveSlots
<1>2. /\ Youngest(D, age, b.free_head)
      /\ \A r \in D : Youngest(Earlier(D, age, r), age, b.pool[r].next)
  BY DEF Spare
<1>3. \A r \in D : c.pool[r].next = b.pool[r].next
  <2>1. p # NullSlot => p \in LiveSlots(b)
    <3>1. /\ Idx(b.pool[s].tick) \in Levels /\ s \in At(b, Idx(b.pool[s].tick))
      BY OrderIs
    <3>2. Youngest(Earlier(At(b, Idx(b.pool[s].tick)), age, s), age, p)
      BY <3>1 DEF Queued, Linked
    <3> QED
      BY <3>2, AtIs DEF Youngest, Earlier
  <2>2. \A r \in D : r \in Slots \ {s} /\ r # p
    BY <1>1, <2>1, SlotsAre DEF Dead
  <2>3. \A r \in Slots \ {s} : c.pool[r].next = IF r = p THEN n ELSE b.pool[r].next
    BY <1>1, ClosedIs
  <2> QED
    BY <2>2, <2>3
<1>4. c.pool[s].next = b.free_head
  <2>1. b.free_head \in Links
    BY DEF Book
  <2>2. Blank(b.free_head).next = b.free_head
    BY <2>1, BlankIs
  <2> HIDE DEF c
  <2> QED
    BY <1>1, <2>2, ClosedIs
<1> HIDE DEF c, new, D, p, n
<1>5. /\ Youngest(D \union {s}, new, s)
      /\ Earlier(D \union {s}, new, s) = D
      /\ \A r \in D : Earlier(D \union {s}, new, r) = Earlier(D, age, r)
  <2>1. Behind(D, age, s, new)
    BY <1>1, JoinedEnds DEF new
  <2> QED
    BY <2>1 DEF Behind
<1>6. Youngest(D, new, b.free_head)
  BY <1>1, <1>2, SameEnds DEF new
<1>7. ASSUME NEW r \in D
      PROVE  Youngest(Earlier(D, age, r), new, b.pool[r].next)
  <2>1. Earlier(D, age, r) \in SUBSET Slots /\ s \notin Earlier(D, age, r)
    BY <1>1 DEF Earlier
  <2> QED
    BY <1>1, <1>2, <2>1, SameEnds DEF new
<1>8. \A r \in D \union {s} : Youngest(Earlier(D \union {s}, new, r), new, c.pool[r].next)
  BY <1>3, <1>4, <1>5, <1>6, <1>7
<1>9. Spare(c, new)
  BY <1>1, <1>5, <1>8 DEF Spare
<1> QED
  BY <1>9 DEF c, new

\* A book that loses an order stays in order: its slot becomes the youngest dead one.
LEMMA RemovalIs ==
  ASSUME NEW b, NEW age, NEW now, NEW M, Kept(b, age, now, M), NEW s \in LiveSlots(b)
  PROVE  Kept(Removal(b, s), Renewed(age, s, now), now + 1, Reweighed(M, s, b.pool[s].qty, 0))
<1> DEFINE c == Removal(b, s)
           new == Renewed(age, s, now)
           li == Idx(b.pool[s].tick)
           N == Reweighed(M, s, b.pool[s].qty, 0)
<1>0. /\ b \in Book /\ Aged(age, now) /\ Weighs(M, b) /\ Sound(b) /\ Indexed(b)
      /\ Queued(b, age) /\ Spare(b, age) /\ Counted(b, M)
  BY DEF Kept
<1>1. /\ c \in Book /\ c.pool = Closed(b, s) /\ c.levels = Lowered(b, s)
      /\ c.pool_used = b.pool_used - 1
      /\ DOMAIN c.ids = DOMAIN b.ids \ {b.pool[s].id}
      /\ \A i \in DOMAIN c.ids : c.ids[i] = b.ids[i]
  BY <1>0, RemovalFields
<1>2. /\ SameOrders(b, c, LiveSlots(b) \ {s})
      /\ \A i \in Levels : At(c, i) = At(b, i) \ {s}
      /\ \A i \in Levels : i # li => s \notin At(b, i)
  BY <1>0, RemovalOrders
<1>3. s \in Slots /\ s \in At(b, li) /\ li \in Levels
  BY <1>0, OrderIs
<1>4. Aged(new, now + 1)
  BY <1>0, <1>3, RenewedIs
<1>5. /\ c.pool[s].qty = 0
      /\ \A r \in Slots \ {s} : c.pool[r].qty = b.pool[r].qty
  <2>1. b.free_head \in Links
    BY <1>0 DEF Book
  <2>2. Blank(b.free_head).qty = 0
    BY <2>1, BlankIs
  <2> HIDE DEF c
  <2> QED
    BY <1>0, <1>1, <1>3, <2>2, ClosedIs
<1>6. /\ Weighs(N, c)
      /\ \A T \in SUBSET Slots : s \notin T => N[T] = M[T]
  <2> HIDE DEF c
  <2>1. c.pool[s].qty >= 0 /\ \A r \in Slots : r # s => c.pool[r].qty = b.pool[r].qty
    BY <1>5
  <2> QED
    BY <1>0, <1>1, <1>3, <1>5, <2>1, ReweighedIs
<1>7. Sound(c)
  <2>1. ASSUME NEW r \in LiveSlots(b) \ {s}
        PROVE  /\ b.pool[r].id \in DOMAIN c.ids /\ c.ids[b.pool[r].id] = r
               /\ b.pool[r].tick \in Ticks /\ b.pool[r].qty > 0
    BY <1>0, <1>1 DEF Sound
  <2> HIDE DEF c
  <2> QED
    BY <1>2, <2>1 DEF Sound, SameOrders
<1>8. Indexed(c)
  <2>1. ASSUME NEW i \in DOMAIN c.ids
        PROVE  c.ids[i] \in LiveSlots(b) \ {s} /\ b.pool[c.ids[i]].id = i
    BY <1>0, <1>1 DEF Indexed
  <2> HIDE DEF c
  <2> QED
    BY <1>2, <2>1 DEF Indexed, SameOrders
<1>9. Queued(c, new) /\ Spare(c, new)
  BY <1>0, RemovalQueue, RemovalSpare
<1>10. Counted(c, N)
  <2>1. c.pool_used = Cardinality(LiveSlots(c))
    <3>1. LiveSlots(b) \in SUBSET Slots
      BY DEF LiveSlots
    <3>2. Cardinality(LiveSlots(b) \ {s}) = Cardinality(LiveSlots(b)) - 1
      BY <3>1, SetsOfSlots
    <3> QED
      BY <1>0, <1>1, <1>2, <3>2 DEF Counted, SameOrders
  <2>2. ASSUME NEW i \in Levels, i # li
        PROVE  c.levels[i].orders = Cardinality(At(c, i)) /\ c.levels[i].qty = N[At(c, i)]
    <3>1. At(b, i) \in SUBSET Slots /\ s \notin At(b, i) /\ At(c, i) = At(b, i)
      BY <1>2, <2>2, AtIs
    <3>2. c.levels[i] = b.levels[i]
      BY <1>0, <1>1, <2>2, LoweredIs
    <3>3. N[At(b, i)] = M[At(b, i)]
      BY <1>6, <3>1
    <3> QED
      BY <1>0, <3>1, <3>2, <3>3 DEF Counted
  <2>3. c.levels[li].orders = Cardinality(At(c, li)) /\ c.levels[li].qty = N[At(c, li)]
    <3> DEFINE T == At(b, li)
    <3>1. T \in SUBSET Slots /\ T \ {s} \in SUBSET Slots /\ s \notin T \ {s} /\ At(c, li) = T \ {s}
      BY <1>2, <1>3, AtIs
    <3>2. /\ c.levels[li].qty = b.levels[li].qty - b.pool[s].qty
          /\ c.levels[li].orders = b.levels[li].orders - 1
      BY <1>0, <1>1, LoweredIs
    <3>3. b.levels[li].orders = Cardinality(T) /\ b.levels[li].qty = M[T]
      BY <1>0, <1>3 DEF Counted
    <3>4. Cardinality(T \ {s}) = Cardinality(T) - 1
      BY <1>3, <3>1, SetsOfSlots
    <3>5. N[T \ {s}] = M[T \ {s}] /\ M[T \ {s}] \in Nat
      BY <1>0, <1>6, <3>1 DEF Weighs
    <3>6. M[T] = M[T \ {s}] + b.pool[s].qty /\ b.pool[s].qty \in Int
      BY <1>0, <1>3, <3>1, WeighsPart
    <3> HIDE DEF T, N, c
    <3> QED
      BY <3>1, <3>2, <3>3, <3>4, <3>5, <3>6
  <2> HIDE DEF c, N, li
  <2> QED
    BY <2>1, <2>2, <2>3 DEF Counted
<1> HIDE DEF c, new, N
<1>11. Kept(c, new, now + 1, N)
  BY <1>1, <1>4, <1>6, <1>7, <1>8, <1>9, <1>10 DEF Kept
<1> QED
  BY <1>11 DEF c, new, N

-----------------------------------------------------------------------------
(***************************************************************************)
(* The bitmap and the best prices.                                          *)
(***************************************************************************)

\* Whom a taker trades with.
Makers(b, taker) == {s \in LiveSlots(b) : b.pool[s].side = Opposite(taker)}

\* No maker is priced better than x.
NoneBetter(b, taker, x) == \A s \in Makers(b, taker) : ~Better(taker, b.pool[s].tick, x)

SomeoneAt(b, taker, x) == \E s \in Makers(b, taker) : b.pool[s].tick = x

TopIs(b, taker) ==
  IF BestFor(b, taker) = InvalidTick THEN Makers(b, taker) = {}
  ELSE NoneBetter(b, taker, BestFor(b, taker)) /\ SomeoneAt(b, taker, BestFor(b, taker))

Apart(b) ==
  \A r, s \in LiveSlots(b) :
    b.pool[r].side = "Buy" /\ b.pool[s].side = "Sell" => b.pool[r].tick < b.pool[s].tick

\* Between two calls.
Settled(b) ==
  /\ Marks(b, Taken(b))
  /\ TopIs(b, "Buy") /\ TopIs(b, "Sell")
  /\ Apart(b)

\* While level li loses orders: its bit is set and its price may be the best,
\* whether or not somebody is left there.
Loose(b, taker, li) ==
  /\ Marks(b, Taken(b) \union {li})
  /\ TopIs(b, Opposite(taker))
  /\ Apart(b)
  /\ \A s \in Makers(b, Opposite(taker)) : Better(taker, b.pool[s].tick, TickOf(li))
  /\ BestFor(b, taker) \in Ticks
  /\ NoneBetter(b, taker, BestFor(b, taker))
  /\ BestFor(b, taker) = TickOf(li) \/ SomeoneAt(b, taker, BestFor(b, taker))

\* The orders are those in X, each where it was.
SamePlaces(b, c, X) ==
  /\ LiveSlots(c) = X
  /\ \A s \in X : c.pool[s].side = b.pool[s].side /\ c.pool[s].tick = b.pool[s].tick

SameMarks(b, c) ==
  c.occupied = b.occupied /\ c.best_bid = b.best_bid /\ c.best_ask = b.best_ask

\* There are two sides.
LEMMA OppositeIs ==
  /\ Opposite("Buy") = "Sell" /\ Opposite("Sell") = "Buy"
  /\ \A t \in Sides : Opposite(t) \in Sides /\ Opposite(t) # t /\ Opposite(Opposite(t)) = t
BY DEF Opposite, Sides

\* Two orders on one level are on one side.
LEMMA OneSide ==
  ASSUME NEW b \in Book, Apart(b), NEW r \in LiveSlots(b), NEW s \in LiveSlots(b),
         b.pool[r].tick = b.pool[s].tick
  PROVE  b.pool[r].side = b.pool[s].side
<1>1. b.pool[r] \in SlotType /\ b.pool[s] \in SlotType
  BY DEF Book, LiveSlots
<1> QED
  BY <1>1 DEF Apart, SlotType, Sides

\* Between two calls any level that holds an order may start to lose it.
LEMMA SettledIsLoose ==
  ASSUME NEW b \in Book, Sound(b), Settled(b), NEW s \in LiveSlots(b)
  PROVE  Loose(b, Opposite(b.pool[s].side), Idx(b.pool[s].tick))
<1> DEFINE t == Opposite(b.pool[s].side)
           li == Idx(b.pool[s].tick)
           x == BestFor(b, t)
<1>1. /\ b.pool[s].side \in Sides /\ li \in Levels /\ TickOf(li) = b.pool[s].tick
      /\ s \in At(b, li)
  BY OrderIs DEF SlotType
<1>2. t \in Sides /\ Opposite(t) = b.pool[s].side
  BY <1>1, OppositeIs
<1>3. s \in Makers(b, t)
  BY <1>2 DEF Makers
<1>4. TopIs(b, t) /\ TopIs(b, Opposite(t)) /\ Apart(b)
  BY <1>1, <1>2 DEF Settled, Sides, Opposite
<1>5. Taken(b) \union {li} = Taken(b)
  BY <1>1 DEF Taken
<1>6. x # InvalidTick /\ NoneBetter(b, t, x) /\ SomeoneAt(b, t, x)
  BY <1>3, <1>4 DEF TopIs
<1>7. x \in Ticks
  BY <1>6, OrderIs DEF SomeoneAt, Makers
<1>8. ASSUME NEW r \in Makers(b, Opposite(t))
      PROVE  Better(t, b.pool[r].tick, TickOf(li))
  <2>1. r \in LiveSlots(b) /\ b.pool[r].side = t
    BY <1>2, OppositeIs DEF Makers
  <2> QED
    BY <1>1, <1>2, <1>4, <2>1 DEF Apart, Better, Sides, Opposite
<1> HIDE DEF t, li, x
<1>9. Loose(b, t, li)
  BY <1>4, <1>5, <1>6, <1>7, <1>8 DEF Loose, Settled, x
<1> QED
  BY <1>9 DEF t, li

\* A level may lose any of its orders.
LEMMA LooseStays ==
  ASSUME NEW b \in Book, NEW c \in Book, NEW X \in SUBSET LiveSlots(b),
         NEW t \in Sides, NEW li \in Levels, Loose(b, t, li),
         SamePlaces(b, c, X), SameMarks(b, c), LiveSlots(b) \ X \subseteq At(b, li)
  PROVE  Loose(c, t, li)
<1>1. /\ LiveSlots(c) = X
      /\ \A s \in X : c.pool[s].side = b.pool[s].side /\ c.pool[s].tick = b.pool[s].tick
  BY DEF SamePlaces
<1>2. \A i \in Levels : i # li => At(c, i) = At(b, i)
  <2>1. SUFFICES ASSUME NEW i \in Levels, i # li
                 PROVE  At(c, i) = At(b, i)
    OBVIOUS
  <2>2. \A s \in At(b, i) : s \in X
    <3>1. \A s \in At(b, i) : b.pool[s].tick # TickOf(li)
      BY <2>1, LevelsAre DEF At
    <3> QED
      BY <3>1 DEF At
  <2> QED
    BY <1>1, <2>2 DEF At
<1>3. Taken(c) \union {li} = Taken(b) \union {li}
  BY <1>2 DEF Taken
<1>4. Marks(c, Taken(c) \union {li})
  BY <1>3 DEF Loose, Marks, SameMarks
<1>5. Makers(c, Opposite(t)) = Makers(b, Opposite(t))
  <2>1. ASSUME NEW s \in Makers(b, Opposite(t))
        PROVE  s \in X
    <3>1. Better(t, b.pool[s].tick, TickOf(li))
      BY DEF Loose
    <3>2. TickOf(li) \in Int /\ b.pool[s].tick # TickOf(li)
      BY <3>1, LevelsAre DEF Better, Ticks
    <3> QED
      BY <3>2 DEF At, Makers
  <2> QED
    BY <1>1, <2>1 DEF Makers
<1>6. Makers(c, t) \subseteq Makers(b, t)
  BY <1>1 DEF Makers
<1>7. \A s \in Makers(c, t) \union Makers(c, Opposite(t)) : c.pool[s].tick = b.pool[s].tick
  BY <1>1 DEF Makers
<1>8. \A v \in Sides : BestFor(c, v) = BestFor(b, v)
  BY DEF BestFor, SameMarks
<1>9. TopIs(c, Opposite(t))
  <2>1. TopIs(b, Opposite(t)) /\ BestFor(c, Opposite(t)) = BestFor(b, Opposite(t))
    BY <1>8, OppositeIs DEF Loose
  <2> QED
    BY <1>5, <1>7, <2>1 DEF TopIs, NoneBetter, SomeoneAt
<1>10. Apart(c)
  BY <1>1 DEF Loose, Apart
<1>11. \A s \in Makers(c, Opposite(t)) : Better(t, c.pool[s].tick, TickOf(li))
  BY <1>5, <1>7 DEF Loose
<1>12. BestFor(c, t) \in Ticks /\ NoneBetter(c, t, BestFor(c, t))
  BY <1>6, <1>7, <1>8 DEF Loose, NoneBetter
<1>13. BestFor(c, t) = TickOf(li) \/ SomeoneAt(c, t, BestFor(c, t))
  <2>1. SUFFICES ASSUME BestFor(b, t) # TickOf(li)
                 PROVE  SomeoneAt(c, t, BestFor(b, t))
    BY <1>8
  <2>2. PICK s \in Makers(b, t) : b.pool[s].tick = BestFor(b, t)
    BY <2>1 DEF Loose, SomeoneAt
  <2>3. s \in X
    BY <2>1, <2>2 DEF At, Makers
  <2>4. s \in Makers(c, t)
    BY <1>1, <2>3 DEF Makers
  <2> QED
    BY <1>7, <2>2, <2>4 DEF SomeoneAt
<1> QED
  BY <1>4, <1>9, <1>10, <1>11, <1>12, <1>13 DEF Loose

\* kInvalidTick is no price.
LEMMA TicksAre == InvalidTick \notin Ticks /\ Ticks \subseteq Int /\ InvalidTick \in Int
BY BookAssumption DEF InvalidTick, Ticks

\* With somebody left on it the level is as good as any other.
LEMMA LooseSettles ==
  ASSUME NEW b \in Book, Sound(b), NEW t \in Sides, NEW li \in Levels, Loose(b, t, li),
         At(b, li) # {}
  PROVE  Settled(b)
<1>1. Taken(b) \union {li} = Taken(b)
  BY DEF Taken
<1>2. SomeoneAt(b, t, BestFor(b, t))
  <2>1. CASE BestFor(b, t) = TickOf(li)
    <3>1. PICK s \in LiveSlots(b) : b.pool[s].tick = TickOf(li)
      BY DEF At
    <3>2. b.pool[s].side \in Sides
      BY OrderIs DEF SlotType
    <3>3. b.pool[s].side # t
      <4>1. SUFFICES ASSUME b.pool[s].side = t PROVE FALSE
        OBVIOUS
      <4>2. s \in Makers(b, Opposite(t))
        BY <4>1, OppositeIs DEF Makers
      <4>3. Better(t, TickOf(li), TickOf(li)) /\ TickOf(li) \in Int
        BY <3>1, <4>2, LevelsAre, TicksAre DEF Loose
      <4> QED
        BY <4>3 DEF Better
    <3>4. s \in Makers(b, t)
      BY <3>2, <3>3 DEF Makers, Sides, Opposite
    <3> QED
      BY <2>1, <3>1, <3>4 DEF SomeoneAt
  <2> QED
    BY <2>1 DEF Loose
<1>3. TopIs(b, t)
  BY <1>2, TicksAre DEF Loose, TopIs
<1>4. TopIs(b, "Buy") /\ TopIs(b, "Sell")
  BY <1>3, OppositeIs DEF Loose, Sides
<1> QED
  BY <1>1, <1>4 DEF Loose, Settled

\* The fields a dropped level leaves alone.
SameStore(b, c) ==
  /\ c.levels = b.levels /\ c.pool = b.pool /\ c.free_head = b.free_head
  /\ c.pool_used = b.pool_used /\ c.ids = b.ids

\* Kept says nothing of the bitmap and the best prices.
LEMMA StoreIs ==
  ASSUME NEW b, NEW c \in Book, SameStore(b, c), NEW age, NEW now, NEW M, Kept(b, age, now, M)
  PROVE  Kept(c, age, now, M)
<1>1. LiveSlots(c) = LiveSlots(b)
  BY DEF LiveSlots, SameStore
<1>2. Dead(c) = Dead(b) /\ \A i : At(c, i) = At(b, i)
  BY <1>1 DEF Dead, At, SameStore
<1>3. Weighs(M, c)
  BY DEF Kept, Weighs, SameStore
<1>4. Sound(c) /\ Indexed(c)
  BY <1>1 DEF Kept, Sound, Indexed, SameStore
<1>5. Queued(c, age)
  BY <1>2 DEF Kept, Queued, Ends, Linked, SameStore
<1>6. Spare(c, age) /\ Counted(c, M)
  BY <1>1, <1>2 DEF Kept, Spare, Counted, SameStore
<1> QED
  BY <1>3, <1>4, <1>5, <1>6 DEF Kept

\* The other fields decide who rests where.
LEMMA StorePlaces ==
  ASSUME NEW b, NEW c, SameStore(b, c)
  PROVE  /\ LiveSlots(c) = LiveSlots(b) /\ Taken(c) = Taken(b)
         /\ SameOrders(b, c, LiveSlots(b))
         /\ \A t : Makers(c, t) = Makers(b, t)
         /\ \A i : At(c, i) = At(b, i)
<1>1. c.pool = b.pool
  BY DEF SameStore
<1>2. LiveSlots(c) = LiveSlots(b)
  BY <1>1 DEF LiveSlots
<1>3. \A i : At(c, i) = At(b, i)
  BY <1>1, <1>2 DEF At
<1> QED
  BY <1>1, <1>2, <1>3 DEF Taken, SameOrders, Makers

\* bit_clear takes one level out of the bitmap.
LEMMA ClearedIs ==
  ASSUME NEW b \in Book, NEW i \in Levels, NEW X \in SUBSET Levels, Marks(b, X)
  PROVE  /\ BitClear(b, i) \in Book /\ SameStore(b, BitClear(b, i))
         /\ Marks(BitClear(b, i), X \ {i})
         /\ BitClear(b, i).best_bid = b.best_bid /\ BitClear(b, i).best_ask = b.best_ask
<1> DEFINE off == [b.occupied EXCEPT ![i \div WordBits] = @ \ {i % WordBits}]
           c == BitClear(b, i)
<1>1. /\ off \in [Words -> SUBSET Bits]
      /\ \A w \in Words, k \in Bits : k \in off[w] <=> Place(w, k) \in X \ {i}
  BY MarkedIs DEF Marks
<1>2. c = [b EXCEPT !.occupied = off]
  BY DEF BitClear, Book
<1> HIDE DEF off, c
<1>3. c \in Book /\ c.occupied = off /\ SameStore(b, c)
      /\ c.best_bid = b.best_bid /\ c.best_ask = b.best_ask
  BY <1>1, <1>2 DEF Book, SameStore
<1>4. Marks(c, X \ {i})
  BY <1>1, <1>3 DEF Marks
<1> QED
  BY <1>3, <1>4 DEF c

\* bit_set puts one level into the bitmap.
LEMMA SetIs ==
  ASSUME NEW b \in Book, NEW i \in Levels, NEW X \in SUBSET Levels, Marks(b, X)
  PROVE  /\ BitSet(b, i) \in Book /\ SameStore(b, BitSet(b, i))
         /\ Marks(BitSet(b, i), X \union {i})
         /\ BitSet(b, i).best_bid = b.best_bid /\ BitSet(b, i).best_ask = b.best_ask
<1> DEFINE on == [b.occupied EXCEPT ![i \div WordBits] = @ \union {i % WordBits}]
           c == BitSet(b, i)
<1>1. /\ on \in [Words -> SUBSET Bits]
      /\ \A w \in Words, k \in Bits : k \in on[w] <=> Place(w, k) \in X \union {i}
  <2>1. /\ b.occupied \in [Words -> SUBSET Bits]
        /\ \A w \in Words, k \in Bits : k \in b.occupied[w] <=> Place(w, k) \in X
    BY DEF Marks
  <2> QED
    BY <2>1, MarkedIs
<1>2. c = [b EXCEPT !.occupied = on]
  BY DEF BitSet, Book
<1> HIDE DEF on, c
<1>3. c \in Book /\ c.occupied = on /\ SameStore(b, c)
      /\ c.best_bid = b.best_bid /\ c.best_ask = b.best_ask
  BY <1>1, <1>2 DEF Book, SameStore
<1>4. Marks(c, X \union {i})
  BY <1>1, <1>3 DEF Marks
<1> QED
  BY <1>3, <1>4 DEF c

\* The best price from the side's orders: the nearest taken level behind li.
LEMMA NearestIsTop ==
  ASSUME NEW b \in Book, Sound(b), NEW t \in Sides, NEW li \in Levels, Loose(b, t, li),
         At(b, li) = {}, BestFor(b, t) = TickOf(li),
         NEW r, NEW from,
         t = "Buy" => from = li + 1 /\ NearestUp(Taken(b), from, r),
         t = "Sell" => from = li - 1 /\ NearestDown(Taken(b), from, r)
  PROVE  IF r = Npos THEN Makers(b, t) = {}
         ELSE /\ TickOf(r) \in Ticks
              /\ NoneBetter(b, t, TickOf(r)) /\ SomeoneAt(b, t, TickOf(r))
<1>1. Taken(b) \subseteq Levels /\ Levels \subseteq Int /\ li \notin Taken(b) /\ li \in Int
  BY LevelsAre DEF Taken
<1>2. \A i, j \in Levels : /\ TickOf(i) < TickOf(j) <=> i < j
                           /\ TickOf(i) \in Ticks
  BY <1>1, LevelsAre, BookAssumption DEF TickOf
<1>3. ASSUME NEW s \in Makers(b, t)
      PROVE  \E i \in Taken(b) : /\ b.pool[s].tick = TickOf(i)
                                 /\ IF t = "Buy" THEN li + 1 <= i ELSE i <= li - 1
  <2> DEFINE i == Idx(b.pool[s].tick)
  <2>1. i \in Levels /\ TickOf(i) = b.pool[s].tick /\ s \in At(b, i)
    BY OrderIs DEF Makers
  <2>2. i \in Taken(b)
    BY <2>1 DEF Taken
  <2>3. ~Better(t, TickOf(i), TickOf(li))
    BY <2>1 DEF Loose, NoneBetter
  <2> HIDE DEF i
  <2>4. i # li /\ i \in Int
    BY <1>1, <2>1, <2>2
  <2>5. IF t = "Buy" THEN ~(i < li) ELSE ~(li < i)
    BY <1>2, <2>1, <2>3, TicksAre DEF Better, Sides
  <2> QED
    BY <1>1, <2>1, <2>2, <2>4, <2>5
<1>4. ASSUME NEW i \in Taken(b), IF t = "Buy" THEN li + 1 <= i ELSE i <= li - 1
      PROVE  SomeoneAt(b, t, TickOf(i))
  <2>1. PICK s \in LiveSlots(b) : b.pool[s].tick = TickOf(i)
    BY DEF Taken, At
  <2>2. b.pool[s].side \in Sides
    BY OrderIs DEF SlotType
  <2>3. CASE b.pool[s].side = t
    <3>1. Better(t, TickOf(i), TickOf(li))
      BY <2>1, <2>3, OppositeIs DEF Loose, Makers
    <3>2. IF t = "Buy" THEN TickOf(i) < TickOf(li) ELSE TickOf(li) < TickOf(i)
      BY <1>1, <1>2, <3>1, TicksAre DEF Better
    <3>3. i \in Int /\ li \in Int /\ i \in Levels
      BY <1>1
    <3>4. IF t = "Buy" THEN i < li ELSE li < i
      BY <1>2, <3>2, <3>3
    <3> QED
      BY <1>4, <3>3, <3>4
  <2>4. CASE b.pool[s].side # t
    BY <2>1, <2>2, <2>4 DEF SomeoneAt, Makers, Opposite, Sides
  <2> QED
    BY <2>3, <2>4
<1>5. CASE r = Npos
  <2>1. ASSUME NEW i \in Taken(b)
        PROVE  IF t = "Buy" THEN i < li + 1 ELSE li - 1 < i
    BY <1>5 DEF NearestUp, NearestDown, Sides
  <2>2. ASSUME NEW i \in Taken(b)
        PROVE  ~(IF t = "Buy" THEN li + 1 <= i ELSE i <= li - 1)
    <3>1. i \in Int /\ li \in Int
      BY <1>1
    <3> QED
      BY <2>1, <3>1
  <2> QED
    BY <1>3, <1>5, <2>2
<1>6. CASE r # Npos
  <2>1. /\ r \in Taken(b) /\ IF t = "Buy" THEN li + 1 <= r ELSE r <= li - 1
        /\ \A i \in Taken(b) : IF t = "Buy" THEN li + 1 <= i => r <= i
                                             ELSE i <= li - 1 => i <= r
    BY <1>6 DEF NearestUp, NearestDown, Sides
  <2>2. SomeoneAt(b, t, TickOf(r))
    BY <1>4, <2>1
  <2>3. TickOf(r) \in Ticks
    BY <1>1, <1>2, <2>1
  <2>4. ASSUME NEW s \in Makers(b, t)
        PROVE  ~Better(t, b.pool[s].tick, TickOf(r))
    <3>1. PICK i \in Taken(b) : /\ b.pool[s].tick = TickOf(i)
                                /\ IF t = "Buy" THEN li + 1 <= i ELSE i <= li - 1
      BY <1>3
    <3>2. IF t = "Buy" THEN r <= i ELSE i <= r
      BY <2>1, <3>1
    <3>3. i \in Int /\ r \in Int /\ i \in Levels /\ r \in Levels
      BY <1>1, <2>1
    <3>4. IF t = "Buy" THEN ~(TickOf(i) < TickOf(r)) ELSE ~(TickOf(r) < TickOf(i))
      BY <1>2, <3>2, <3>3
    <3> QED
      BY <1>2, <3>1, <3>3, <3>4, TicksAre DEF Better
  <2> QED
    BY <1>6, <2>2, <2>3, <2>4 DEF NoneBetter
<1> QED
  BY <1>5, <1>6

\* A level that nobody is left on looks as if nobody ever was.
LEMMA EmptyLevelIs ==
  ASSUME NEW b, NEW age, NEW now, NEW M, Kept(b, age, now, M), NEW li \in Levels, At(b, li) = {}
  PROVE  b.levels[li] = EmptyLevel /\ [b EXCEPT !.levels[li] = EmptyLevel] = b
<1>1. b \in Book /\ b.levels \in [Levels -> LevelType] /\ b.levels[li] \in LevelType
  BY DEF Kept, Book
<1>2. b.levels[li].orders = 0 /\ b.levels[li].qty = 0
  <2>1. Cardinality({}) = 0
    BY FS_EmptySet
  <2> QED
    BY <2>1 DEF Kept, Counted, Weighs
<1>3. b.levels[li].head = NullSlot /\ b.levels[li].tail = NullSlot
  BY DEF Kept, Queued, Ends, Oldest, Youngest
<1>4. b.levels[li] = EmptyLevel
  BY <1>1, <1>2, <1>3 DEF LevelType, EmptyLevel
<1>5. [b.levels EXCEPT ![li] = EmptyLevel] = b.levels
  BY <1>1, <1>4
<1>6. [b EXCEPT !.levels = b.levels] = b
  BY <1>1 DEF Book
<1>7. [b EXCEPT !.levels[li] = EmptyLevel]
        = [b EXCEPT !.levels = [b.levels EXCEPT ![li] = EmptyLevel]]
  BY <1>1 DEF Book
<1> QED
  BY <1>4, <1>5, <1>6, <1>7

\* The best price of the makers of t.
Priced(b, t, x) == IF t = "Buy" THEN [b EXCEPT !.best_ask = x] ELSE [b EXCEPT !.best_bid = x]

\* Writing one cached price leaves the other.
LEMMA PricedIs ==
  ASSUME NEW b \in Book, NEW t \in Sides, NEW x \in Int
  PROVE  /\ Priced(b, t, x) \in Book /\ SameStore(b, Priced(b, t, x))
         /\ Priced(b, t, x).occupied = b.occupied
         /\ BestFor(Priced(b, t, x), t) = x
         /\ BestFor(Priced(b, t, x), Opposite(t)) = BestFor(b, Opposite(t))
BY DEF Priced, Book, SameStore, BestFor, Opposite, Sides

\* What holds of the places of the orders and of the marks that concern them.
LEMMA MarksAgree ==
  ASSUME NEW b, NEW c, SameStore(b, c), NEW t \in Sides
  PROVE  /\ \A X : c.occupied = b.occupied /\ Marks(b, X) => Marks(c, X)
         /\ BestFor(c, t) = BestFor(b, t) /\ TopIs(b, t) => TopIs(c, t)
         /\ Apart(b) => Apart(c)
         /\ \A x : NoneBetter(b, t, x) => NoneBetter(c, t, x)
         /\ \A x : SomeoneAt(b, t, x) => SomeoneAt(c, t, x)
<1>1. c.pool = b.pool /\ LiveSlots(c) = LiveSlots(b) /\ \A v : Makers(c, v) = Makers(b, v)
  BY StorePlaces DEF SameStore
<1>2. \A x : NoneBetter(b, t, x) <=> NoneBetter(c, t, x)
  BY <1>1 DEF NoneBetter
<1>3. \A x : SomeoneAt(b, t, x) <=> SomeoneAt(c, t, x)
  BY <1>1 DEF SomeoneAt
<1>4. BestFor(c, t) = BestFor(b, t) /\ TopIs(b, t) => TopIs(c, t)
  BY <1>1, <1>2, <1>3 DEF TopIs
<1>5. Apart(b) => Apart(c)
  BY <1>1 DEF Apart
<1>6. \A X : c.occupied = b.occupied /\ Marks(b, X) => Marks(c, X)
  BY DEF Marks
<1> QED
  BY <1>2, <1>3, <1>4, <1>5, <1>6

\* A level that lost its last order is dropped, and the book is settled again.
LEMMA DropIs ==
  ASSUME NEW b, NEW age, NEW now, NEW M, Kept(b, age, now, M), NEW t \in Sides, NEW li \in Levels,
         Loose(b, t, li), At(b, li) = {}
  PROVE  LET c == DropLevel(b, Opposite(t), li) IN
         c \in Book /\ SameStore(b, c) /\ Settled(c)
<1> DEFINE a == BitClear(b, li)
           down == IF li = 0 THEN Npos ELSE ScanDown(a, li - 1)
           up   == ScanUp(a, li + 1)
           r == IF t = "Buy" THEN up ELSE down
           x == IF r = Npos THEN InvalidTick ELSE TickOf(r)
           c == DropLevel(b, Opposite(t), li)
<1>0. b \in Book /\ Sound(b) /\ Marks(b, Taken(b) \union {li})
  BY DEF Kept, Loose
<1>1. Taken(b) \in SUBSET Levels /\ (Taken(b) \union {li}) \ {li} = Taken(b)
      /\ Taken(b) \union {li} \in SUBSET Levels
  BY DEF Taken
<1>2. /\ a \in Book /\ SameStore(b, a) /\ Marks(a, Taken(b))
      /\ a.best_bid = b.best_bid /\ a.best_ask = b.best_ask
  BY <1>0, <1>1, ClearedIs
<1>3. c = RefreshBestAfterRemoval(a, Opposite(t), li)
  BY EmptyLevelIs DEF DropLevel
<1>4. c = IF TickOf(li) # BestFor(a, t) THEN a ELSE Priced(a, t, x)
  BY <1>3 DEF RefreshBestAfterRemoval, BestFor, Priced, Opposite, Sides
<1>5. /\ BestFor(a, t) = BestFor(b, t)
      /\ BestFor(a, Opposite(t)) = BestFor(b, Opposite(t))
  BY <1>2 DEF BestFor
<1> HIDE DEF a, c
<1>6. CASE TickOf(li) # BestFor(a, t)
  <2>1. c = a
    BY <1>4, <1>6
  <2>2. /\ BestFor(b, t) # InvalidTick
        /\ SomeoneAt(b, t, BestFor(b, t)) /\ NoneBetter(b, t, BestFor(b, t))
    BY <1>5, <1>6, TicksAre DEF Loose
  <2>3. TopIs(a, t)
    BY <1>2, <1>5, <2>2, MarksAgree DEF TopIs
  <2>4. TopIs(a, Opposite(t)) /\ Apart(a)
    BY <1>2, <1>5, OppositeIs, MarksAgree DEF Loose
  <2>5. Settled(a)
    BY <1>2, <2>3, <2>4, StorePlaces, OppositeIs DEF Settled, Sides
  <2> QED
    BY <1>2, <2>1, <2>5 DEF c
<1>7. CASE TickOf(li) = BestFor(a, t)
  <2>1. t = "Buy" => NearestUp(Taken(b), li + 1, up)
    <3>1. li + 1 \in 0 .. LevelCount
      BY LevelsAre DEF Levels
    <3> QED
      BY <1>1, <1>2, <3>1, ScanUpIs
  <2>2. t = "Sell" => NearestDown(Taken(b), li - 1, down)
    <3>1. CASE li = 0
      <4>1. \A i \in Taken(b) : li - 1 < i
        <5>1. Taken(b) \subseteq Nat
          BY <1>1, LevelsAre
        <5> HIDE DEF down, up, r
        <5> QED
          BY <3>1, <5>1
      <4> QED
        BY <3>1, <4>1 DEF NearestDown
    <3>2. CASE li # 0
      <4>1. li - 1 \in Levels
        BY <3>2, LevelsAre DEF Levels
      <4> QED
        BY <1>1, <1>2, <3>2, <4>1, ScanDownIs
    <3> QED
      BY <3>1, <3>2
  <2> DEFINE from == IF t = "Buy" THEN li + 1 ELSE li - 1
  <2>3. /\ t = "Buy" => from = li + 1 /\ NearestUp(Taken(b), from, r)
        /\ t = "Sell" => from = li - 1 /\ NearestDown(Taken(b), from, r)
    BY <2>1, <2>2
  <2> HIDE DEF r, from
  <2>4. IF r = Npos THEN Makers(b, t) = {}
        ELSE /\ TickOf(r) \in Ticks
             /\ NoneBetter(b, t, TickOf(r)) /\ SomeoneAt(b, t, TickOf(r))
    BY <1>0, <1>5, <1>7, <2>3, NearestIsTop
  <2>5. x \in Int
    BY <2>4, TicksAre
  <2>6. c = Priced(a, t, x)
    BY <1>4, <1>7
  <2>7. /\ c \in Book /\ SameStore(a, c) /\ c.occupied = a.occupied /\ BestFor(c, t) = x
        /\ BestFor(c, Opposite(t)) = BestFor(a, Opposite(t))
    BY <1>2, <2>5, <2>6, PricedIs
  <2>8. SameStore(b, c)
    BY <1>2, <2>7 DEF SameStore
  <2>9. TopIs(c, t)
    <3>1. CASE r = Npos
      <4>1. BestFor(c, t) = InvalidTick /\ Makers(c, t) = {}
        BY <2>4, <2>7, <2>8, <3>1, StorePlaces
      <4> QED
        BY <4>1 DEF TopIs
    <3>2. CASE r # Npos
      <4>1. /\ BestFor(c, t) = TickOf(r) /\ TickOf(r) # InvalidTick
            /\ NoneBetter(b, t, TickOf(r)) /\ SomeoneAt(b, t, TickOf(r))
        BY <2>4, <2>7, <3>2, TicksAre
      <4> QED
        BY <2>8, <4>1, MarksAgree DEF TopIs
    <3> QED
      BY <3>1, <3>2
  <2>10. TopIs(c, Opposite(t)) /\ Apart(c)
    BY <1>5, <2>7, <2>8, OppositeIs, MarksAgree DEF Loose
  <2>11. Marks(c, Taken(c))
    <3>1. Marks(c, Taken(b))
      BY <1>2, <2>7 DEF Marks
    <3> QED
      BY <2>8, <3>1, StorePlaces
  <2>12. Settled(c)
    BY <2>9, <2>10, <2>11, OppositeIs DEF Settled, Sides
  <2> QED
    BY <2>7, <2>8, <2>12 DEF c
<1> QED
  BY <1>6, <1>7

-----------------------------------------------------------------------------
(***************************************************************************)
(* An order shrinks.                                                        *)
(***************************************************************************)

Shrunk(b, s, d) ==
  [b EXCEPT !.pool[s].qty = @ - d, !.levels[Idx(b.pool[s].tick)].qty = @ - d]

\* All of a slot but its size.
SameSlot(o, p) ==
  /\ o.id = p.id /\ o.tick = p.tick /\ o.side = p.side /\ o.live = p.live
  /\ o.prev = p.prev /\ o.next = p.next
SameLevelEnds(k, l) == k.head = l.head /\ k.tail = l.tail /\ k.orders = l.orders

\* The fields of the book in which s gave up d.
LEMMA ShrunkFields ==
  ASSUME NEW b \in Book, Sound(b), NEW s \in LiveSlots(b), NEW d \in Int
  PROVE  LET c == Shrunk(b, s, d)
             li == Idx(b.pool[s].tick)
         IN /\ c \in Book
            /\ c.pool[s].qty = b.pool[s].qty - d /\ SameSlot(c.pool[s], b.pool[s])
            /\ \A r \in Slots \ {s} : c.pool[r] = b.pool[r]
            /\ c.levels[li].qty = b.levels[li].qty - d
            /\ SameLevelEnds(c.levels[li], b.levels[li])
            /\ \A i \in Levels \ {li} : c.levels[i] = b.levels[i]
            /\ c.free_head = b.free_head /\ c.pool_used = b.pool_used /\ c.ids = b.ids
            /\ SameMarks(b, c)
<1> DEFINE li == Idx(b.pool[s].tick)
           o == [b.pool[s] EXCEPT !.qty = b.pool[s].qty - d]
           lv == [b.levels[li] EXCEPT !.qty = b.levels[li].qty - d]
           pool == [b.pool EXCEPT ![s] = o]
           levels == [b.levels EXCEPT ![li] = lv]
           c == Shrunk(b, s, d)
<1>1. s \in Slots /\ li \in Levels /\ b.pool[s] \in SlotType
  BY OrderIs
<1>2. b.levels[li] \in LevelType /\ b.levels \in [Levels -> LevelType]
      /\ b.pool \in [Slots -> SlotType]
  BY <1>1 DEF Book
<1>3. o \in SlotType /\ o.qty = b.pool[s].qty - d /\ SameSlot(o, b.pool[s])
  BY <1>1 DEF SlotType, SameSlot
<1>4. lv \in LevelType /\ lv.qty = b.levels[li].qty - d /\ SameLevelEnds(lv, b.levels[li])
  BY <1>2 DEF LevelType, SameLevelEnds
<1>5. c = [b EXCEPT !.pool = pool, !.levels = levels]
  BY <1>1, <1>2 DEF Shrunk, Book
<1> HIDE DEF o, lv
<1>6. pool \in [Slots -> SlotType] /\ pool[s] = o /\ \A r \in Slots \ {s} : pool[r] = b.pool[r]
  BY <1>1, <1>2, <1>3
<1> HIDE DEF li
<1>7. levels \in [Levels -> LevelType] /\ levels[li] = lv
      /\ \A i \in Levels \ {li} : levels[i] = b.levels[i]
  BY <1>1, <1>2, <1>4
<1> HIDE DEF pool, levels, c
<1>8. /\ c \in Book /\ c.pool = pool /\ c.levels = levels
      /\ c.free_head = b.free_head /\ c.pool_used = b.pool_used /\ c.ids = b.ids
      /\ SameMarks(b, c)
  BY <1>5, <1>6, <1>7 DEF Book, SameMarks
<1> QED
  BY <1>3, <1>4, <1>6, <1>7, <1>8 DEF c, li

\* Nobody moves when an order shrinks.
LEMMA ShrunkPlaces ==
  ASSUME NEW b \in Book, Sound(b), NEW s \in LiveSlots(b), NEW d \in Int
  PROVE  LET c == Shrunk(b, s, d) IN
         /\ SamePlaces(b, c, LiveSlots(b))
         /\ Dead(c) = Dead(b)
         /\ \A i : At(c, i) = At(b, i)
         /\ \A r \in Slots : SameSlot(c.pool[r], b.pool[r])
<1> DEFINE c == Shrunk(b, s, d)
<1>1. \A r \in Slots : SameSlot(c.pool[r], b.pool[r])
  BY ShrunkFields DEF SameSlot
<1> HIDE DEF c
<1>2. LiveSlots(c) = LiveSlots(b)
  BY <1>1 DEF LiveSlots, SameSlot
<1>3. \A r \in LiveSlots(b) : SameSlot(c.pool[r], b.pool[r])
  BY <1>1 DEF LiveSlots
<1>4. SamePlaces(b, c, LiveSlots(b))
  BY <1>2, <1>3 DEF SamePlaces, SameSlot
<1>5. \A i : At(c, i) = At(b, i)
  BY <1>2, <1>3 DEF At, SameSlot
<1> QED
  BY <1>1, <1>2, <1>4, <1>5 DEF Dead, c

\* A book in which an order shrinks, and keeps some, stays in order.
LEMMA ShrunkIs ==
  ASSUME NEW b, NEW age, NEW now, NEW M, Kept(b, age, now, M), NEW s \in LiveSlots(b),
         NEW d \in Nat, d < b.pool[s].qty
  PROVE  Kept(Shrunk(b, s, d), age, now,
              Reweighed(M, s, b.pool[s].qty, b.pool[s].qty - d))
<1> DEFINE c == Shrunk(b, s, d)
           li == Idx(b.pool[s].tick)
           N == Reweighed(M, s, b.pool[s].qty, b.pool[s].qty - d)
<1>0. /\ b \in Book /\ Aged(age, now) /\ Weighs(M, b) /\ Sound(b) /\ Indexed(b)
      /\ Queued(b, age) /\ Spare(b, age) /\ Counted(b, M)
  BY DEF Kept
<1>1. /\ c \in Book
      /\ c.pool[s].qty = b.pool[s].qty - d
      /\ \A r \in Slots \ {s} : c.pool[r] = b.pool[r]
      /\ c.levels[li].qty = b.levels[li].qty - d
      /\ SameLevelEnds(c.levels[li], b.levels[li])
      /\ \A i \in Levels \ {li} : c.levels[i] = b.levels[i]
      /\ c.free_head = b.free_head /\ c.pool_used = b.pool_used /\ c.ids = b.ids
  BY <1>0, ShrunkFields
<1>2. /\ LiveSlots(c) = LiveSlots(b) /\ Dead(c) = Dead(b)
      /\ \A i : At(c, i) = At(b, i)
      /\ \A r \in Slots : SameSlot(c.pool[r], b.pool[r])
  BY <1>0, ShrunkPlaces DEF SamePlaces
<1>3. s \in Slots /\ li \in Levels /\ s \in At(b, li) /\ b.pool[s].qty \in Nat
  BY <1>0, OrderIs
<1>4. /\ Weighs(N, c)
      /\ \A T \in SUBSET Slots : s \notin T => N[T] = M[T]
      /\ \A T \in SUBSET Slots : s \in T => N[T] = M[T] - b.pool[s].qty + (b.pool[s].qty - d)
  <2> HIDE DEF c
  <2>1. c.pool[s].qty >= 0 /\ \A r \in Slots : r # s => c.pool[r].qty = b.pool[r].qty
    BY <1>1, <1>3
  <2> QED
    BY <1>0, <1>1, <1>3, <2>1, ReweighedIs
<1> HIDE DEF c, N, li
<1>5. Sound(c)
  <2>1. ASSUME NEW r \in LiveSlots(b)
        PROVE  /\ c.pool[r].id \in DOMAIN c.ids /\ c.ids[c.pool[r].id] = r
               /\ c.pool[r].tick \in Ticks
               /\ c.pool[r].qty > 0
    <3>1. r \in Slots /\ SameSlot(c.pool[r], b.pool[r])
      BY <1>2 DEF LiveSlots
    <3>2. c.pool[r].qty > 0
      BY <1>0, <1>1, <1>3, <3>1 DEF Sound
    <3> QED
      BY <1>0, <1>1, <3>1, <3>2 DEF Sound, SameSlot
  <2> QED
    BY <1>2, <2>1 DEF Sound
<1>6. Indexed(c)
  <2>1. \A r \in LiveSlots(b) : c.pool[r].id = b.pool[r].id
    BY <1>2 DEF LiveSlots, SameSlot
  <2> QED
    BY <1>0, <1>1, <1>2, <2>1 DEF Indexed
<1>7. Queued(c, age)
  <2>1. ASSUME NEW i \in Levels
        PROVE  Ends(c, age, i) /\ Linked(c, age, i)
    <3>1. SameLevelEnds(c.levels[i], b.levels[i])
      BY <1>1 DEF SameLevelEnds
    <3>2. \A r \in At(b, i) : c.pool[r].next = b.pool[r].next /\ c.pool[r].prev = b.pool[r].prev
      BY <1>2, AtIs DEF SameSlot
    <3>3. Ends(b, age, i) /\ Linked(b, age, i)
      BY <1>0 DEF Queued
    <3> QED
      BY <1>2, <3>1, <3>2, <3>3 DEF Ends, Linked, SameLevelEnds
  <2> QED
    BY <2>1 DEF Queued
<1>8. Spare(c, age)
  <2>1. \A r \in Dead(b) : c.pool[r].next = b.pool[r].next
    BY <1>2 DEF SameSlot, Dead
  <2> QED
    BY <1>0, <1>1, <1>2, <2>1 DEF Spare
<1>9. Counted(c, N)
  <2>1. ASSUME NEW i \in Levels
        PROVE  c.levels[i].orders = Cardinality(At(c, i)) /\ c.levels[i].qty = N[At(c, i)]
    <3>1. /\ b.levels[i].orders = Cardinality(At(b, i)) /\ b.levels[i].qty = M[At(b, i)]
          /\ At(b, i) \in SUBSET Slots /\ At(c, i) = At(b, i)
      BY <1>0, <1>2, AtIs DEF Counted
    <3>2. CASE i = li
      <4>1. N[At(b, i)] = M[At(b, i)] - b.pool[s].qty + (b.pool[s].qty - d)
        BY <1>3, <1>4, <3>1, <3>2
      <4>2. M[At(b, i)] \in Nat
        BY <1>0, <3>1 DEF Weighs
      <4>3. N[At(b, i)] = M[At(b, i)] - d
        BY <1>3, <4>1, <4>2
      <4> QED
        BY <1>1, <3>1, <3>2, <4>3 DEF SameLevelEnds
    <3>3. CASE i # li
      <4>1. s \notin At(b, i)
        <5>1. \A j \in Levels : TickOf(i) = TickOf(j) => i = j
          BY LevelsAre
        <5> QED
          BY <1>3, <3>3, <5>1 DEF At
      <4> QED
        BY <1>1, <1>4, <3>1, <3>3, <4>1
    <3> QED
      BY <3>2, <3>3
  <2> QED
    BY <1>0, <1>1, <1>2, <2>1 DEF Counted
<1>10. Kept(c, age, now, N)
  BY <1>0, <1>1, <1>4, <1>5, <1>6, <1>7, <1>8, <1>9 DEF Kept
<1> QED
  BY <1>10 DEF c, N

\* The marks stand for the places of the orders, whatever their sizes.
LEMMA SettledStays ==
  ASSUME NEW b \in Book, NEW c \in Book, SamePlaces(b, c, LiveSlots(b)), SameMarks(b, c),
         Settled(b)
  PROVE  Settled(c)
<1>1. /\ LiveSlots(c) = LiveSlots(b)
      /\ \A s \in LiveSlots(b) : /\ c.pool[s].side = b.pool[s].side
                                 /\ c.pool[s].tick = b.pool[s].tick
  BY DEF SamePlaces
<1>2. \A i : At(c, i) = At(b, i)
  BY <1>1 DEF At
<1>3. Marks(c, Taken(c))
  BY <1>2 DEF Settled, Marks, SameMarks, Taken
<1>4. \A t \in Sides : Makers(c, t) = Makers(b, t) /\ BestFor(c, t) = BestFor(b, t)
  BY <1>1 DEF Makers, BestFor, SameMarks
<1>5. \A t \in Sides : \A s \in Makers(b, t) : c.pool[s].tick = b.pool[s].tick
  BY <1>1 DEF Makers
<1>6. \A t \in Sides : TopIs(b, t) => TopIs(c, t)
  BY <1>4, <1>5 DEF TopIs, NoneBetter, SomeoneAt
<1>7. Apart(c)
  BY <1>1 DEF Settled, Apart
<1> QED
  BY <1>3, <1>6, <1>7 DEF Settled, Sides

-----------------------------------------------------------------------------
(***************************************************************************)
(* The code's ways to take an order out all come to Removal.                *)
(***************************************************************************)

\* Books are equal when their fields are.
LEMMA BookIs ==
  ASSUME NEW b \in Book, NEW c \in Book,
         c.levels = b.levels, c.occupied = b.occupied, c.pool = b.pool,
         c.free_head = b.free_head, c.pool_used = b.pool_used, c.ids = b.ids,
         c.best_bid = b.best_bid, c.best_ask = b.best_ask
  PROVE  c = b
BY DEF Book

\* An order's neighbours in its queue are other orders, and two of them.
LEMMA NeighboursDiffer ==
  ASSUME NEW b \in Book, Sound(b), NEW s \in LiveSlots(b),
         NEW age, NEW now, Aged(age, now), Queued(b, age)
  PROVE  LET p == b.pool[s].prev
             n == b.pool[s].next
         IN /\ p # s /\ n # s
            /\ p = n => p = NullSlot
<1> DEFINE li == Idx(b.pool[s].tick)
           T == At(b, li)
           p == b.pool[s].prev
           n == b.pool[s].next
<1>1. s \in Slots /\ li \in Levels /\ T \in SUBSET Slots /\ s \in T
  BY OrderIs, AtIs
<1>2. Oldest(Later(T, age, s), age, n) /\ Youngest(Earlier(T, age, s), age, p)
  BY <1>1 DEF Queued, Linked
<1> HIDE DEF T, li, p, n
<1>3. /\ n # NullSlot => n \in T /\ age[s] < age[n]
      /\ p # NullSlot => p \in T /\ age[p] < age[s]
  BY <1>2 DEF Oldest, Youngest, Later, Earlier
<1>4. s # NullSlot /\ \A r \in T : age[r] \in Nat
  BY <1>1, SlotsAre DEF Aged
<1> QED
  BY <1>1, <1>3, <1>4 DEF p, n

\* h is b with the quantity of s already taken off its level, whatever is left
\* in the slot.
Emptied(b, s, h) ==
  /\ h \in Book
  /\ \A r \in Slots \ {s} : h.pool[r] = b.pool[r]
  /\ SameSlot(h.pool[s], b.pool[s])
  /\ \A i \in Levels \ {Idx(b.pool[s].tick)} : h.levels[i] = b.levels[i]
  /\ LET li == Idx(b.pool[s].tick) IN
       /\ SameLevelEnds(h.levels[li], b.levels[li])
       /\ h.levels[li].qty = b.levels[li].qty - b.pool[s].qty
  /\ h.free_head = b.free_head /\ h.pool_used = b.pool_used /\ h.ids = b.ids
  /\ SameMarks(b, h)

\* The pool after Unlink and FreeSlot.
LEMMA ClosesUp ==
  ASSUME NEW b \in Book, Sound(b), NEW s \in LiveSlots(b),
         NEW age, NEW now, Aged(age, now), Queued(b, age), NEW h, Emptied(b, s, h)
  PROVE  LET p == b.pool[s].prev
             n == b.pool[s].next
             cut == [r \in Slots |->
                       CASE r = p -> [h.pool[r] EXCEPT !.next = n]
                         [] r = n -> [h.pool[r] EXCEPT !.prev = p]
                         [] OTHER -> h.pool[r]]
         IN [cut EXCEPT ![s] = Blank(b.free_head)] = Closed(b, s)
<1> DEFINE p == b.pool[s].prev
           n == b.pool[s].next
           cut == [r \in Slots |->
                     CASE r = p -> [h.pool[r] EXCEPT !.next = n]
                       [] r = n -> [h.pool[r] EXCEPT !.prev = p]
                       [] OTHER -> h.pool[r]]
           new == [cut EXCEPT ![s] = Blank(b.free_head)]
<1>1. s \in Slots
  BY DEF LiveSlots
<1>2. NullSlot \notin Slots /\ (p = n => p = NullSlot)
  BY SlotsAre, NeighboursDiffer
<1>3. \A r \in Slots \ {s} : h.pool[r] = b.pool[r]
  BY DEF Emptied
<1> HIDE DEF p, n
<1>4. ASSUME NEW r \in Slots \ {s}
      PROVE  new[r] = IF r = p THEN [b.pool[r] EXCEPT !.next = n]
                      ELSE IF r = n THEN [b.pool[r] EXCEPT !.prev = p]
                      ELSE b.pool[r]
  <2>1. new[r] = cut[r]
    BY <1>1
  <2>2. cut[r] = CASE r = p -> [h.pool[r] EXCEPT !.next = n]
                   [] r = n -> [h.pool[r] EXCEPT !.prev = p]
                   [] OTHER -> h.pool[r]
    OBVIOUS
  <2>3. h.pool[r] = b.pool[r] /\ ~(r = p /\ r = n)
    BY <1>2, <1>3
  <2> HIDE DEF new, cut
  <2>4. CASE r = p
    BY <2>1, <2>2, <2>3, <2>4
  <2>5. CASE r # p /\ r = n
    BY <2>1, <2>2, <2>3, <2>5
  <2>6. CASE r # p /\ r # n
    BY <2>1, <2>2, <2>3, <2>6
  <2> QED
    BY <2>4, <2>5, <2>6
<1>5. new[s] = Blank(b.free_head)
  BY <1>1
<1>6. new = [r \in Slots |-> new[r]]
  <2>1. DOMAIN cut = Slots
    OBVIOUS
  <2> HIDE DEF cut
  <2> QED
    BY <2>1
<1> HIDE DEF new
<1>7. \A r \in Slots : new[r] = Closed(b, s)[r]
  BY <1>4, <1>5 DEF Closed, p, n
<1>8. Closed(b, s) = [r \in Slots |-> Closed(b, s)[r]]
  BY DEF Closed
<1>9. new = Closed(b, s)
  <2> HIDE DEF cut
  <2> QED
    BY <1>6, <1>7, <1>8
<1> QED
  BY <1>9 DEF new, p, n

\* A level with its ends and its count written.
LEMMA LevelIs ==
  ASSUME NEW lv \in LevelType, NEW x \in Links, NEW y \in Links, NEW z \in Int
  PROVE  [lv EXCEPT !.head = x, !.tail = y, !.orders = z]
           = [qty |-> lv.qty, head |-> x, tail |-> y, orders |-> z]
<1> DEFINE one == [lv EXCEPT !.head = x, !.tail = y, !.orders = z]
           two == [qty |-> lv.qty, head |-> x, tail |-> y, orders |-> z]
<1>1. /\ one \in LevelType /\ two \in LevelType
      /\ one.qty = two.qty /\ one.head = two.head /\ one.tail = two.tail
      /\ one.orders = two.orders
  BY DEF LevelType
<1> HIDE DEF one, two
<1>2. one = two
  BY <1>1 DEF LevelType
<1> QED
  BY <1>2 DEF one, two

\* The level after Unlink.
LEMMA Lowers ==
  ASSUME NEW b \in Book, Sound(b), NEW s \in LiveSlots(b), NEW h, Emptied(b, s, h)
  PROVE  LET p == b.pool[s].prev
             n == b.pool[s].next
             li == Idx(b.pool[s].tick)
             lv == h.levels[li]
         IN [h.levels EXCEPT ![li] = [lv EXCEPT !.head = IF p = NullSlot THEN n ELSE lv.head,
                                                !.tail = IF n = NullSlot THEN p ELSE lv.tail,
                                                !.orders = lv.orders - 1]]
            = Lowered(b, s)
<1> DEFINE p == b.pool[s].prev
           n == b.pool[s].next
           li == Idx(b.pool[s].tick)
           lv == h.levels[li]
           cut == [lv EXCEPT !.head = IF p = NullSlot THEN n ELSE lv.head,
                             !.tail = IF n = NullSlot THEN p ELSE lv.tail,
                             !.orders = lv.orders - 1]
           one == [qty    |-> b.levels[li].qty - b.pool[s].qty,
                   head   |-> IF p = NullSlot THEN n ELSE b.levels[li].head,
                   tail   |-> IF n = NullSlot THEN p ELSE b.levels[li].tail,
                   orders |-> b.levels[li].orders - 1]
<1>1. li \in Levels
  BY OrderIs
<1>2. /\ h.levels \in [Levels -> LevelType] /\ b.levels \in [Levels -> LevelType]
      /\ lv \in LevelType
  BY <1>1 DEF Emptied, Book
<1>3. SameLevelEnds(lv, b.levels[li]) /\ lv.qty = b.levels[li].qty - b.pool[s].qty
  BY DEF Emptied
<1> HIDE DEF li
<1>4. cut = one
  <2> DEFINE old == b.levels[li]
  <2>1. lv \in LevelType /\ SameLevelEnds(lv, old) /\ lv.qty = old.qty - b.pool[s].qty
    BY <1>2, <1>3
  <2>4. p \in Links /\ n \in Links
    BY OrderIs DEF SlotType
  <2>5. lv.head \in Links /\ lv.tail \in Links /\ lv.orders - 1 \in Int
    BY <1>2 DEF LevelType
  <2> HIDE DEF p, n, lv, old
  <2>2. cut = [qty    |-> lv.qty,
               head   |-> IF p = NullSlot THEN n ELSE lv.head,
               tail   |-> IF n = NullSlot THEN p ELSE lv.tail,
               orders |-> lv.orders - 1]
    BY <2>1, <2>4, <2>5, LevelIs
  <2>3. lv.head = old.head /\ lv.tail = old.tail /\ lv.orders = old.orders
    BY <2>1 DEF SameLevelEnds
  <2> QED
    BY <2>1, <2>2, <2>3 DEF old
<1>5. [h.levels EXCEPT ![li] = cut] = [b.levels EXCEPT ![li] = one]
  <2>1. \A i \in Levels \ {li} : h.levels[i] = b.levels[i]
    BY DEF Emptied, li
  <2> HIDE DEF cut, one
  <2> QED
    BY <1>1, <1>2, <1>4, <2>1
<1> QED
  BY <1>5 DEF Lowered, li

\* Unlink, then EraseId and FreeSlot.
LEMMA GoneIs ==
  ASSUME NEW b \in Book, Sound(b), Indexed(b), NEW s \in LiveSlots(b),
         NEW age, NEW now, Aged(age, now), Queued(b, age), NEW h, Emptied(b, s, h)
  PROVE  LET u == Unlink(h, Idx(b.pool[s].tick), s) IN
         /\ u \in Book /\ SameMarks(b, u)
         /\ u.levels = Lowered(b, s)
         /\ FreeSlot(EraseId(u, b.pool[s].id), s) = Removal(b, s)
<1> DEFINE p == b.pool[s].prev
           n == b.pool[s].next
           li == Idx(b.pool[s].tick)
           cut == [r \in Slots |->
                     CASE r = p -> [h.pool[r] EXCEPT !.next = n]
                       [] r = n -> [h.pool[r] EXCEPT !.prev = p]
                       [] OTHER -> h.pool[r]]
           u == Unlink(h, li, s)
           ids == [i \in DOMAIN b.ids \ {b.pool[s].id} |-> b.ids[i]]
<1>1. h \in Book /\ h.pool[s].prev = p /\ h.pool[s].next = n
  BY DEF Emptied, SameSlot
<1>2. [cut EXCEPT ![s] = Blank(b.free_head)] = Closed(b, s)
  BY ClosesUp
<1>3. u = [h EXCEPT !.pool = cut, !.levels = Lowered(b, s)]
  <2> DEFINE old == h.levels[li]
             lv == [h.levels EXCEPT
                      ![li] = [old EXCEPT !.head = IF p = NullSlot THEN n ELSE old.head,
                                          !.tail = IF n = NullSlot THEN p ELSE old.tail,
                                          !.orders = old.orders - 1]]
  <2>1. u = [h EXCEPT !.pool = cut, !.levels = lv]
    BY <1>1 DEF Unlink, Book
  <2>2. lv = Lowered(b, s)
    BY Lowers
  <2> HIDE DEF lv, cut, u
  <2> QED
    BY <2>1, <2>2
<1>4. h.free_head = b.free_head /\ h.pool_used = b.pool_used /\ h.ids = b.ids
      /\ h.occupied = b.occupied /\ h.best_bid = b.best_bid /\ h.best_ask = b.best_ask
  BY DEF Emptied, SameMarks
<1>0. cut \in [Slots -> SlotType]
  <2>1. h.pool \in [Slots -> SlotType] /\ p \in Links /\ n \in Links
    BY <1>1, OrderIs DEF Book, SlotType
  <2> HIDE DEF p, n
  <2>2. \A r \in Slots : /\ [h.pool[r] EXCEPT !.next = n] \in SlotType
                         /\ [h.pool[r] EXCEPT !.prev = p] \in SlotType
                         /\ h.pool[r] \in SlotType
    BY <2>1 DEF SlotType
  <2> QED
    BY <2>2
<1> HIDE DEF cut, u, p, n, li
<1>5. u \in Book /\ SameMarks(b, u) /\ u.levels = Lowered(b, s)
  <2>1. Lowered(b, s) \in [Levels -> LevelType]
    BY LoweredIs
  <2> QED
    BY <1>0, <1>1, <1>3, <1>4, <2>1 DEF Book, SameMarks
<1>6. EraseId(u, b.pool[s].id) = [h EXCEPT !.pool = cut, !.levels = Lowered(b, s), !.ids = ids]
  BY <1>1, <1>3, <1>4 DEF Book, EraseId
<1> HIDE DEF ids
<1>7. FreeSlot(EraseId(u, b.pool[s].id), s)
        = [h EXCEPT !.pool = Closed(b, s), !.levels = Lowered(b, s), !.ids = ids,
                    !.free_head = s, !.pool_used = b.pool_used - 1]
  <2> DEFINE e == EraseId(u, b.pool[s].id)
             back == [cut EXCEPT ![s] = Blank(b.free_head)]
  <2>1. /\ e.pool = cut /\ e.free_head = b.free_head /\ e.pool_used = b.pool_used
        /\ e = [h EXCEPT !.pool = cut, !.levels = Lowered(b, s), !.ids = ids]
    BY <1>1, <1>4, <1>6 DEF Book
  <2> HIDE DEF e
  <2>2. FreeSlot(e, s) = [e EXCEPT !.pool = back, !.free_head = s, !.pool_used = b.pool_used - 1]
    BY <1>1, <2>1 DEF FreeSlot, Book
  <2> HIDE DEF back
  <2>3. FreeSlot(e, s) = [h EXCEPT !.pool = back, !.levels = Lowered(b, s), !.ids = ids,
                                   !.free_head = s, !.pool_used = b.pool_used - 1]
    BY <1>1, <2>1, <2>2 DEF Book
  <2> QED
    BY <1>2, <2>3 DEF e, back
<1>8. Removal(b, s) = [b EXCEPT !.pool = Closed(b, s), !.levels = Lowered(b, s), !.ids = ids,
                                !.free_head = s, !.pool_used = b.pool_used - 1]
  BY DEF Book, Removal, ids
<1>9. [h EXCEPT !.pool = Closed(b, s), !.levels = Lowered(b, s), !.ids = ids,
                    !.free_head = s, !.pool_used = b.pool_used - 1]
      = [b EXCEPT !.pool = Closed(b, s), !.levels = Lowered(b, s), !.ids = ids,
                                !.free_head = s, !.pool_used = b.pool_used - 1]
  BY <1>1, <1>4 DEF Book
<1> QED
  BY <1>5, <1>7, <1>8, <1>9 DEF u, li

\* A scan has one result.
LEMMA NearestIsOne ==
  ASSUME NEW X \in SUBSET Levels, NEW from \in Int, NEW q, NEW r
  PROVE  /\ NearestUp(X, from, q) /\ NearestUp(X, from, r) => q = r
         /\ NearestDown(X, from, q) /\ NearestDown(X, from, r) => q = r
<1>1. X \subseteq Nat
  BY LevelsAre
<1>2. ASSUME NearestUp(X, from, q), NearestUp(X, from, r)
      PROVE  q = r
  <2>1. q = Npos \/ (q \in X /\ from <= q /\ \A i \in X : from <= i => q <= i)
    BY <1>2 DEF NearestUp
  <2>2. r = Npos \/ (r \in X /\ from <= r /\ \A i \in X : from <= i => r <= i)
    BY <1>2 DEF NearestUp
  <2>3. q = Npos \/ r = Npos => \A i \in X : i < from
    BY <1>2 DEF NearestUp
  <2>4. \A i \in X : i \in Int
    BY <1>1
  <2>5. CASE q = Npos \/ r = Npos
    <3>1. \A i \in X : ~(from <= i)
      BY <2>3, <2>4, <2>5
    <3> QED
      BY <2>1, <2>2, <3>1
  <2>6. CASE q # Npos /\ r # Npos
    <3>1. q \in X /\ r \in X /\ q <= r /\ r <= q
      BY <2>1, <2>2, <2>6
    <3> QED
      BY <2>4, <3>1
  <2> QED
    BY <2>5, <2>6
<1>3. ASSUME NearestDown(X, from, q), NearestDown(X, from, r)
      PROVE  q = r
  <2>1. q = Npos \/ (q \in X /\ q <= from /\ \A i \in X : i <= from => i <= q)
    BY <1>3 DEF NearestDown
  <2>2. r = Npos \/ (r \in X /\ r <= from /\ \A i \in X : i <= from => i <= r)
    BY <1>3 DEF NearestDown
  <2>3. q = Npos \/ r = Npos => \A i \in X : from < i
    BY <1>3 DEF NearestDown
  <2>4. \A i \in X : i \in Int
    BY <1>1
  <2>5. CASE q = Npos \/ r = Npos
    <3>1. \A i \in X : ~(i <= from)
      BY <2>3, <2>4, <2>5
    <3> QED
      BY <2>1, <2>2, <3>1
  <2>6. CASE q # Npos /\ r # Npos
    <3>1. q \in X /\ r \in X /\ q <= r /\ r <= q
      BY <2>1, <2>2, <2>6
    <3> QED
      BY <2>4, <3>1
  <2> QED
    BY <2>5, <2>6
<1> QED
  BY <1>2, <1>3

\* What DropLevel does to any book whose bitmap says X.
Behindmost(X, m, li, x) ==
  \E r : /\ m = "Sell" => NearestUp(X \ {li}, li + 1, r)
         /\ m = "Buy" => NearestDown(X \ {li}, li - 1, r)
         /\ x = IF r = Npos THEN InvalidTick ELSE TickOf(r)

Dropped(b, X, m, li, c) ==
  /\ c \in Book
  /\ c.pool = b.pool /\ c.free_head = b.free_head /\ c.pool_used = b.pool_used /\ c.ids = b.ids
  /\ c.levels = [b.levels EXCEPT ![li] = EmptyLevel]
  /\ c.occupied = [b.occupied EXCEPT ![li \div WordBits] = @ \ {li % WordBits}]
  /\ BestFor(c, m) = BestFor(b, m)
  /\ BestFor(b, Opposite(m)) # TickOf(li) => BestFor(c, Opposite(m)) = BestFor(b, Opposite(m))
  /\ BestFor(b, Opposite(m)) = TickOf(li) => Behindmost(X, m, li, BestFor(c, Opposite(m)))

\* What DropLevel leaves alone.
LEMMA DroppedIs ==
  ASSUME NEW b \in Book, NEW X \in SUBSET Levels, Marks(b, X), NEW m \in Sides, NEW li \in Levels
  PROVE  Dropped(b, X, m, li, DropLevel(b, m, li))
<1> DEFINE lv == [b.levels EXCEPT ![li] = EmptyLevel]
           e == [b EXCEPT !.levels[li] = EmptyLevel]
           off == [b.occupied EXCEPT ![li \div WordBits] = @ \ {li % WordBits}]
           a == BitClear(e, li)
           down == IF li = 0 THEN Npos ELSE ScanDown(a, li - 1)
           up   == ScanUp(a, li + 1)
           r == IF m = "Sell" THEN up ELSE down
           x == IF r = Npos THEN InvalidTick ELSE TickOf(r)
           c == DropLevel(b, m, li)
<1>1. e = [b EXCEPT !.levels = lv] /\ lv \in [Levels -> LevelType]
  <2>1. EmptyLevel \in LevelType
    BY SlotsAre DEF EmptyLevel, LevelType, Links
  <2>2. b.levels \in [Levels -> LevelType]
    BY DEF Book
  <2>3. lv \in [Levels -> LevelType]
    BY <2>1, <2>2
  <2> QED
    BY <2>3 DEF Book
<1> HIDE DEF lv, e
<1>2. /\ e \in Book /\ e.levels = lv /\ e.pool = b.pool /\ e.free_head = b.free_head
      /\ e.pool_used = b.pool_used /\ e.ids = b.ids /\ SameMarks(b, e)
  BY <1>1 DEF Book, SameMarks
<1>3. Marks(e, X)
  BY <1>2 DEF Marks, SameMarks
<1>4. /\ a \in Book /\ SameStore(e, a) /\ Marks(a, X \ {li})
      /\ a.best_bid = e.best_bid /\ a.best_ask = e.best_ask
  BY <1>2, <1>3, ClearedIs
<1>5. a.occupied = off
  <2>1. a.occupied = [e.occupied EXCEPT ![li \div WordBits] = @ \ {li % WordBits}]
    BY <1>2 DEF BitClear, Book
  <2> QED
    BY <1>2, <2>1 DEF SameMarks
<1>6. c = RefreshBestAfterRemoval(a, m, li)
  BY DEF DropLevel, e
<1>7. c = IF TickOf(li) # BestFor(a, Opposite(m)) THEN a ELSE Priced(a, Opposite(m), x)
  BY <1>6 DEF RefreshBestAfterRemoval, BestFor, Priced, Opposite, Sides
<1> HIDE DEF a, c, off
<1>8. BestFor(a, m) = BestFor(b, m) /\ BestFor(a, Opposite(m)) = BestFor(b, Opposite(m))
  BY <1>2, <1>4 DEF BestFor, SameMarks
<1>9. Behindmost(X, m, li, x) /\ x \in Int
  <2>0. X \ {li} \in SUBSET Levels
    OBVIOUS
  <2>1. m = "Sell" => NearestUp(X \ {li}, li + 1, up)
    <3>1. li + 1 \in 0 .. LevelCount
      BY LevelsAre DEF Levels
    <3> QED
      BY <1>4, <2>0, <3>1, ScanUpIs
  <2>2. m = "Buy" => NearestDown(X \ {li}, li - 1, down)
    <3>1. CASE li = 0
      <4>1. \A i \in X \ {li} : li - 1 < i
        <5>1. X \ {li} \subseteq Nat
          BY <2>0, LevelsAre
        <5> HIDE DEF down, up, r
        <5> QED
          BY <3>1, <5>1
      <4> QED
        BY <3>1, <4>1 DEF NearestDown
    <3>2. CASE li # 0
      <4>1. li - 1 \in Levels
        BY <3>2, LevelsAre DEF Levels
      <4> QED
        BY <1>4, <2>0, <3>2, <4>1, ScanDownIs
    <3> QED
      BY <3>1, <3>2
  <2>3. /\ m = "Sell" => NearestUp(X \ {li}, li + 1, r)
        /\ m = "Buy" => NearestDown(X \ {li}, li - 1, r)
    BY <2>1, <2>2
  <2> HIDE DEF r
  <2>4. r = Npos \/ r \in Levels
    BY <2>3 DEF NearestUp, NearestDown, Sides
  <2>5. x \in Int
    BY <2>4, TicksAre, LevelsAre
  <2> QED
    BY <2>3, <2>5 DEF Behindmost
<1> HIDE DEF x
<1>10. CASE TickOf(li) # BestFor(a, Opposite(m))
  <2>1. c = a
    BY <1>7, <1>10
  <2> QED
    BY <1>2, <1>4, <1>5, <1>8, <1>10, <2>1 DEF Dropped, SameStore, lv, off, c
<1>11. CASE TickOf(li) = BestFor(a, Opposite(m))
  <2>1. c = Priced(a, Opposite(m), x)
    BY <1>7, <1>11
  <2>2. Opposite(m) \in Sides /\ Opposite(Opposite(m)) = m
    BY OppositeIs
  <2>3. /\ c \in Book /\ SameStore(a, c) /\ c.occupied = a.occupied
        /\ BestFor(c, Opposite(m)) = x /\ BestFor(c, m) = BestFor(a, m)
    BY <1>4, <1>9, <2>1, <2>2, PricedIs
  <2> QED
    BY <1>2, <1>4, <1>5, <1>8, <1>9, <1>11, <2>3 DEF Dropped, SameStore, lv, off, c
<1> QED
  BY <1>10, <1>11

\* EraseId and FreeSlot.
LEMMA FreedIs ==
  ASSUME NEW b \in Book, NEW s \in Slots, NEW id
  PROVE  LET c == FreeSlot(EraseId(b, id), s) IN
         /\ c \in Book
         /\ c.levels = b.levels /\ SameMarks(b, c)
         /\ c.pool = [b.pool EXCEPT ![s] = Blank(b.free_head)]
         /\ c.free_head = s /\ c.pool_used = b.pool_used - 1
         /\ c.ids = [i \in DOMAIN b.ids \ {id} |-> b.ids[i]]
<1> DEFINE ids == [i \in DOMAIN b.ids \ {id} |-> b.ids[i]]
           pool == [b.pool EXCEPT ![s] = Blank(b.free_head)]
           e == EraseId(b, id)
           c == FreeSlot(e, s)
<1>1. ids \in Index
  <2>1. b.ids \in [DOMAIN b.ids -> Slots] /\ DOMAIN b.ids \subseteq Ids
    BY IndexIs DEF Book
  <2> QED
    BY <2>1, IndexIs
<1>2. pool \in [Slots -> SlotType]
  <2>1. b.free_head \in Links /\ b.pool \in [Slots -> SlotType]
    BY DEF Book
  <2>2. Blank(b.free_head) \in SlotType
    BY <2>1, BlankIs
  <2> QED
    BY <2>1, <2>2
<1>3. e = [b EXCEPT !.ids = ids]
  BY DEF EraseId
<1> HIDE DEF ids, e
<1>4. /\ e \in Book /\ e.ids = ids /\ e.pool = b.pool /\ e.levels = b.levels /\ SameMarks(b, e)
      /\ e.free_head = b.free_head /\ e.pool_used = b.pool_used
  BY <1>1, <1>3 DEF Book, SameMarks
<1>5. c = [e EXCEPT !.pool = pool, !.free_head = s, !.pool_used = b.pool_used - 1]
  BY <1>4 DEF FreeSlot, Book
<1> HIDE DEF pool, c
<1>6. s \in Links /\ b.pool_used - 1 \in Int
  BY DEF Links, Book
<1>7. /\ c \in Book /\ c.levels = b.levels /\ SameMarks(b, c) /\ c.pool = pool /\ c.ids = ids
      /\ c.free_head = s /\ c.pool_used = b.pool_used - 1
  BY <1>2, <1>4, <1>5, <1>6 DEF Book, SameMarks
<1> QED
  BY <1>7 DEF c, e, pool, ids

\* A level may be dropped before or after its last order gives its slot back.
LEMMA DropAfter ==
  ASSUME NEW b \in Book, NEW X \in SUBSET Levels, Marks(b, X), NEW m \in Sides,
         NEW li \in Levels, NEW s \in Slots, NEW id
  PROVE  FreeSlot(EraseId(DropLevel(b, m, li), id), s)
           = DropLevel(FreeSlot(EraseId(b, id), s), m, li)
<1> DEFINE d == DropLevel(b, m, li)
           f == FreeSlot(EraseId(b, id), s)
           c == FreeSlot(EraseId(d, id), s)
           g == DropLevel(f, m, li)
<1>1. Dropped(b, X, m, li, d)
  BY DroppedIs
<1>2. /\ f \in Book /\ f.levels = b.levels /\ SameMarks(b, f)
      /\ f.pool = [b.pool EXCEPT ![s] = Blank(b.free_head)]
      /\ f.free_head = s /\ f.pool_used = b.pool_used - 1
      /\ f.ids = [i \in DOMAIN b.ids \ {id} |-> b.ids[i]]
  BY FreedIs
<1> HIDE DEF d, f
<1>3. d \in Book
  BY <1>1 DEF Dropped
<1>4. /\ c \in Book /\ c.levels = d.levels /\ SameMarks(d, c)
      /\ c.pool = [d.pool EXCEPT ![s] = Blank(d.free_head)]
      /\ c.free_head = s /\ c.pool_used = d.pool_used - 1
      /\ c.ids = [i \in DOMAIN d.ids \ {id} |-> d.ids[i]]
  BY <1>3, FreedIs
<1>5. Marks(f, X)
  BY <1>2 DEF Marks, SameMarks
<1>6. Dropped(f, X, m, li, g)
  BY <1>2, <1>5, DroppedIs
<1> HIDE DEF c, g
<1>7. /\ c.levels = g.levels /\ c.occupied = g.occupied /\ c.pool = g.pool
      /\ c.free_head = g.free_head /\ c.pool_used = g.pool_used /\ c.ids = g.ids
  BY <1>1, <1>2, <1>4, <1>6 DEF Dropped, SameMarks
<1>8. \A t : BestFor(c, t) = BestFor(d, t) /\ BestFor(f, t) = BestFor(b, t)
  BY <1>2, <1>4 DEF BestFor, SameMarks
<1>9. BestFor(c, m) = BestFor(g, m)
  BY <1>1, <1>6, <1>8 DEF Dropped
<1>10. BestFor(c, Opposite(m)) = BestFor(g, Opposite(m))
  <2>1. CASE BestFor(b, Opposite(m)) # TickOf(li)
    BY <1>1, <1>6, <1>8, <2>1 DEF Dropped
  <2>2. CASE BestFor(b, Opposite(m)) = TickOf(li)
    <3>1. /\ Behindmost(X, m, li, BestFor(c, Opposite(m)))
          /\ Behindmost(X, m, li, BestFor(g, Opposite(m)))
      BY <1>1, <1>6, <1>8, <2>2 DEF Dropped
    <3>2. X \ {li} \in SUBSET Levels /\ li + 1 \in Int /\ li - 1 \in Int
      BY LevelsAre
    <3>3. ASSUME NEW x, NEW y, Behindmost(X, m, li, x), Behindmost(X, m, li, y)
          PROVE  x = y
      BY <3>2, <3>3, NearestIsOne DEF Behindmost, Sides
    <3> QED
      BY <3>1, <3>3
  <2> QED
    BY <2>1, <2>2
<1>11. c.best_bid = g.best_bid /\ c.best_ask = g.best_ask
  BY <1>9, <1>10 DEF BestFor, Opposite, Sides
<1>12. g \in Book
  BY <1>6 DEF Dropped
<1>13. c = g
  BY <1>4, <1>7, <1>11, <1>12, BookIs
<1> QED
  BY <1>13 DEF c, d, f, g

\* An order leaves, and its level with it when it was the last.
Gone(b, s) ==
  LET c  == Removal(b, s)
      li == Idx(b.pool[s].tick)
  IN IF At(c, li) = {} THEN DropLevel(c, b.pool[s].side, li) ELSE c

\* Once an order is gone, with its level if it was the last, the book is settled.
LEMMA GoneSettles ==
  ASSUME NEW b, NEW age, NEW now, NEW M, Kept(b, age, now, M), Settled(b), NEW s \in LiveSlots(b)
  PROVE  /\ Gone(b, s) \in Book /\ SameStore(Removal(b, s), Gone(b, s))
         /\ Settled(Gone(b, s))
<1> DEFINE c == Removal(b, s)
           li == Idx(b.pool[s].tick)
           m == b.pool[s].side
           t == Opposite(m)
<1>0. b \in Book /\ Sound(b) /\ Indexed(b)
  BY DEF Kept
<1>1. li \in Levels /\ m \in Sides /\ s \in At(b, li)
  BY <1>0, OrderIs DEF SlotType
<1>2. t \in Sides /\ Opposite(t) = m
  BY <1>1, OppositeIs
<1>3. Kept(c, Renewed(age, s, now), now + 1, Reweighed(M, s, b.pool[s].qty, 0))
  BY RemovalIs
<1>4. /\ c \in Book /\ SameMarks(b, c)
      /\ SameOrders(b, c, LiveSlots(b) \ {s})
  BY <1>0, RemovalFields, RemovalOrders DEF SameMarks
<1>5. Loose(b, t, li)
  BY <1>0, SettledIsLoose
<1>6. Loose(c, t, li)
  <2>1. SamePlaces(b, c, LiveSlots(b) \ {s})
    BY <1>4 DEF SamePlaces, SameOrders
  <2>2. LiveSlots(b) \ (LiveSlots(b) \ {s}) \subseteq At(b, li)
    BY <1>1
  <2>3. LiveSlots(b) \ {s} \in SUBSET LiveSlots(b)
    OBVIOUS
  <2> HIDE DEF c, t, li, m
  <2> QED
    BY <1>0, <1>1, <1>2, <1>4, <1>5, <2>1, <2>2, <2>3, LooseStays
<1>7. CASE At(c, li) = {}
  <2>1. Gone(b, s) = DropLevel(c, Opposite(t), li)
    BY <1>2, <1>7 DEF Gone
  <2> HIDE DEF c, t, li, m
  <2>2. /\ DropLevel(c, Opposite(t), li) \in Book
        /\ SameStore(c, DropLevel(c, Opposite(t), li)) /\ Settled(DropLevel(c, Opposite(t), li))
    BY <1>1, <1>2, <1>3, <1>6, <1>7, DropIs
  <2> QED
    BY <2>1, <2>2 DEF c
<1>8. CASE At(c, li) # {}
  <2>1. Gone(b, s) = c
    BY <1>8 DEF Gone
  <2>2. Sound(c)
    BY <1>3 DEF Kept
  <2> HIDE DEF c, t, li, m
  <2>3. Settled(c)
    BY <1>1, <1>2, <1>4, <1>6, <1>8, <2>2, LooseSettles
  <2> QED
    BY <1>4, <2>1, <2>3 DEF SameStore, c
<1> QED
  BY <1>7, <1>8

\* The two paths of the code that take a resting order out of a settled book.
LEMMA CodeGone ==
  ASSUME NEW b, NEW age, NEW now, NEW M, Kept(b, age, now, M), Settled(b), NEW s \in LiveSlots(b),
         NEW h, Emptied(b, s, h)
  PROVE  LET o  == b.pool[s]
             li == Idx(o.tick)
             u  == Unlink(h, li, s)
             w  == IF u.levels[li].orders = 0 THEN DropLevel(u, o.side, li) ELSE u
         IN FreeSlot(EraseId(w, o.id), s) = Gone(b, s)
<1> DEFINE o == b.pool[s]
           li == Idx(o.tick)
           u == Unlink(h, li, s)
           w == IF u.levels[li].orders = 0 THEN DropLevel(u, o.side, li) ELSE u
           c == Removal(b, s)
<1>0. /\ b \in Book /\ Sound(b) /\ Indexed(b) /\ Aged(age, now) /\ Queued(b, age)
      /\ Marks(b, Taken(b))
  BY DEF Kept, Settled
<1>1. li \in Levels /\ o.side \in Sides /\ s \in Slots
  BY <1>0, OrderIs DEF SlotType
<1>2. /\ u \in Book /\ SameMarks(b, u) /\ u.levels = Lowered(b, s)
      /\ FreeSlot(EraseId(u, o.id), s) = c
  BY <1>0, GoneIs
<1>3. u.levels[li].orders = 0 <=> At(c, li) = {}
  <2>1. c.levels = Lowered(b, s)
    BY <1>0, RemovalFields
  <2>2. \E N : Counted(c, N)
    BY RemovalIs DEF Kept
  <2>3. At(c, li) \in SUBSET Slots
    BY AtIs
  <2> HIDE DEF c, u, li
  <2>4. c.levels[li].orders = Cardinality(At(c, li))
    BY <1>1, <2>2 DEF Counted
  <2> QED
    BY <1>2, <2>1, <2>3, <2>4, SetsOfSlots
<1>4. Marks(u, Taken(b)) /\ Taken(b) \in SUBSET Levels
  BY <1>0, <1>2 DEF Marks, SameMarks, Taken
<1>5. FreeSlot(EraseId(DropLevel(u, o.side, li), o.id), s)
        = DropLevel(FreeSlot(EraseId(u, o.id), s), o.side, li)
  <2> HIDE DEF u, li, o
  <2> QED
    BY <1>1, <1>2, <1>4, DropAfter
<1>6. Gone(b, s) = IF At(c, li) = {} THEN DropLevel(c, o.side, li) ELSE c
  BY DEF Gone
<1> HIDE DEF c, u, li, o
<1>7. FreeSlot(EraseId(w, o.id), s) = Gone(b, s)
  BY <1>2, <1>3, <1>5, <1>6
<1> QED
  BY <1>7 DEF w, u, li, o

\* remove_resting takes the quantity off the level first.
LEMMA RemoveIs ==
  ASSUME NEW b, NEW age, NEW now, NEW M, Kept(b, age, now, M), Settled(b), NEW s \in LiveSlots(b),
         NEW ev, NEW reason
  PROVE  RemoveResting(Step(b, ev), s, reason)
           = Step(Gone(b, s), Append(ev, CancelEvent(b.pool[s].id, b.pool[s].tick, b.pool[s].qty,
                                                     b.pool[s].side, reason)))
<1> DEFINE o == b.pool[s]
           li == Idx(o.tick)
           h == [b EXCEPT !.levels[li].qty = @ - o.qty]
           u == Unlink(h, li, s)
           w == IF u.levels[li].orders = 0 THEN DropLevel(u, o.side, li) ELSE u
<1>1. Emptied(b, s, h)
  <2> DEFINE lv == [b.levels[li] EXCEPT !.qty = b.levels[li].qty - o.qty]
             levels == [b.levels EXCEPT ![li] = lv]
  <2>1. b \in Book /\ li \in Levels /\ o.qty \in Int /\ s \in Slots
    BY OrderIs DEF Kept
  <2>2. b.levels \in [Levels -> LevelType] /\ b.levels[li] \in LevelType
    BY <2>1 DEF Book
  <2>3. /\ lv \in LevelType /\ SameLevelEnds(lv, b.levels[li])
        /\ lv.qty = b.levels[li].qty - o.qty
    BY <2>1, <2>2 DEF LevelType, SameLevelEnds
  <2>4. h = [b EXCEPT !.levels = levels]
    BY <2>1 DEF Book
  <2> HIDE DEF lv, li, o
  <2>5. /\ levels \in [Levels -> LevelType] /\ levels[li] = lv
        /\ \A i \in Levels \ {li} : levels[i] = b.levels[i]
    BY <2>1, <2>2, <2>3
  <2> HIDE DEF levels, h
  <2>6. /\ h \in Book /\ h.levels = levels /\ h.pool = b.pool /\ h.free_head = b.free_head
        /\ h.pool_used = b.pool_used /\ h.ids = b.ids /\ SameMarks(b, h)
    BY <2>1, <2>4, <2>5 DEF Book, SameMarks
  <2> QED
    BY <2>3, <2>5, <2>6 DEF Emptied, SameSlot, li, o
<1>2. FreeSlot(EraseId(w, o.id), s) = Gone(b, s)
  <2> HIDE DEF h
  <2> QED
    BY <1>1, CodeGone
<1> HIDE DEF h, u, w
<1>3. RemoveResting(Step(b, ev), s, reason)
        = Step(FreeSlot(EraseId(w, o.id), s),
               Append(ev, CancelEvent(o.id, o.tick, o.qty, o.side, reason)))
  BY DEF RemoveResting, Step, w, u, h
<1> QED
  BY <1>2, <1>3

\* What a shrunk order that has nothing left looks like.
LEMMA EmptiedIs ==
  ASSUME NEW b \in Book, Sound(b), NEW s \in LiveSlots(b)
  PROVE  Emptied(b, s, Shrunk(b, s, b.pool[s].qty))
<1>1. b.pool[s].qty \in Int
  BY OrderIs
<1> QED
  BY <1>1, ShrunkFields DEF Emptied

-----------------------------------------------------------------------------
(***************************************************************************)
(* An order enters.                                                         *)
(***************************************************************************)

\* The slot taken from the free list and written, before Rest.
Written(b, id, side, tick, qty) ==
  LET s == b.free_head
      a == AllocSlot(b)
  IN [a EXCEPT
        !.pool[s] = [@ EXCEPT !.id = id, !.qty = qty, !.tick = tick, !.side = side],
        !.ids = [i \in DOMAIN a.ids \union {id} |-> IF i = id THEN s ELSE a.ids[i]]]

\* What slot s says once the order rests.
Resting(o, id, side, tick, qty, tail) ==
  /\ o.id = id /\ o.side = side /\ o.tick = tick /\ o.qty = qty /\ o.live
  /\ o.prev = tail /\ o.next = NullSlot

\* All of a slot but the link to the next one.
SameButNext(o, p) ==
  /\ o.id = p.id /\ o.qty = p.qty /\ o.tick = p.tick /\ o.side = p.side /\ o.live = p.live
  /\ o.prev = p.prev

\* c is b with the order in it, at the back of its level.
Entry(b, c, id, side, tick, qty) ==
  LET s  == b.free_head
      li == Idx(tick)
      lv == b.levels[li]
  IN /\ c \in Book
     /\ Resting(c.pool[s], id, side, tick, qty, lv.tail)
     /\ \A r \in Slots \ {s} :
          /\ SameButNext(c.pool[r], b.pool[r])
          /\ c.pool[r].next = IF r = lv.tail THEN s ELSE b.pool[r].next
     /\ c.levels[li].qty = lv.qty + qty /\ c.levels[li].orders = lv.orders + 1
     /\ c.levels[li].head = (IF lv.tail = NullSlot THEN s ELSE lv.head)
     /\ c.levels[li].tail = s
     /\ \A i \in Levels \ {li} : c.levels[i] = b.levels[i]
     /\ c.free_head = b.pool[s].next /\ c.pool_used = b.pool_used + 1
     /\ DOMAIN c.ids = DOMAIN b.ids \union {id}
     /\ c.ids[id] = s /\ \A i \in DOMAIN b.ids \ {id} : c.ids[i] = b.ids[i]

\* The marks that go with it.
Marked(b, c, side, tick) ==
  LET own == BestFor(b, Opposite(side)) IN
  /\ Marks(c, Taken(b) \union {Idx(tick)})
  /\ BestFor(c, side) = BestFor(b, side)
  /\ BestFor(c, Opposite(side)) =
       IF own = InvalidTick \/ Better(Opposite(side), tick, own) THEN tick ELSE own

\* The fields of the book with an order written into the slot taken.
LEMMA WrittenIs ==
  ASSUME NEW b \in Book, b.free_head \in Slots, NEW id \in Ids, NEW side \in Sides,
         NEW tick \in Ticks, NEW qty \in Int
  PROVE  LET w == Written(b, id, side, tick, qty)
             s == b.free_head
         IN /\ w \in Book /\ w.levels = b.levels /\ SameMarks(b, w)
            /\ w.pool[s].id = id /\ w.pool[s].side = side /\ w.pool[s].tick = tick
            /\ w.pool[s].qty = qty
            /\ \A r \in Slots \ {s} : w.pool[r] = b.pool[r]
            /\ w.free_head = b.pool[s].next /\ w.pool_used = b.pool_used + 1
            /\ DOMAIN w.ids = DOMAIN b.ids \union {id}
            /\ w.ids[id] = s /\ \A i \in DOMAIN b.ids \ {id} : w.ids[i] = b.ids[i]
<1> DEFINE s == b.free_head
           o == [b.pool[s] EXCEPT !.id = id, !.qty = qty, !.tick = tick, !.side = side]
           pool == [b.pool EXCEPT ![s] = o]
           ids == [i \in DOMAIN b.ids \union {id} |-> IF i = id THEN s ELSE b.ids[i]]
           w == Written(b, id, side, tick, qty)
<1>1. s \in Slots /\ b.pool \in [Slots -> SlotType] /\ b.pool[s] \in SlotType
  BY DEF Book
<1>2. o \in SlotType /\ o.id = id /\ o.side = side /\ o.tick = tick /\ o.qty = qty
  BY <1>1, TicksAre DEF SlotType, AnyId
<1>3. ids \in Index /\ DOMAIN ids = DOMAIN b.ids \union {id} /\ ids[id] = s
      /\ \A i \in DOMAIN b.ids \ {id} : ids[i] = b.ids[i]
  <2>1. b.ids \in [DOMAIN b.ids -> Slots] /\ DOMAIN b.ids \subseteq Ids
    BY IndexIs DEF Book
  <2>2. ids \in [DOMAIN b.ids \union {id} -> Slots] /\ DOMAIN b.ids \union {id} \subseteq Ids
    BY <1>1, <2>1
  <2> QED
    BY <2>2, IndexIs
<1>4. w = [b EXCEPT !.free_head = b.pool[s].next, !.pool_used = b.pool_used + 1,
                    !.pool = pool, !.ids = ids]
  BY DEF Written, AllocSlot, Book
<1>5. b.pool[s].next \in Links /\ b.pool_used + 1 \in Int
  BY <1>1 DEF SlotType, Book
<1> HIDE DEF o, ids, w, s
<1>6. pool \in [Slots -> SlotType] /\ pool[s] = o /\ \A r \in Slots \ {s} : pool[r] = b.pool[r]
  BY <1>1, <1>2
<1> HIDE DEF pool
<1>7. /\ w \in Book /\ w.levels = b.levels /\ SameMarks(b, w) /\ w.pool = pool /\ w.ids = ids
      /\ w.free_head = b.pool[s].next /\ w.pool_used = b.pool_used + 1
  BY <1>3, <1>4, <1>5, <1>6 DEF Book, SameMarks
<1> QED
  BY <1>2, <1>3, <1>6, <1>7 DEF w, s

\* c is w with the order of slot s, and its quantity q, linked at the back of level li.
AtBack(w, c, li, s, q) ==
  LET lv == w.levels[li] IN
  /\ c \in Book /\ SameMarks(w, c) /\ c.free_head = w.free_head
  /\ c.pool_used = w.pool_used /\ c.ids = w.ids
  /\ Resting(c.pool[s], w.pool[s].id, w.pool[s].side, w.pool[s].tick, w.pool[s].qty, lv.tail)
  /\ \A r \in Slots \ {s} :
       /\ SameButNext(c.pool[r], w.pool[r])
       /\ c.pool[r].next = IF r = lv.tail THEN s ELSE w.pool[r].next
  /\ c.levels[li].qty = lv.qty + q /\ c.levels[li].orders = lv.orders + 1
  /\ c.levels[li].head = (IF lv.tail = NullSlot THEN s ELSE lv.head)
  /\ c.levels[li].tail = s
  /\ \A i \in Levels \ {li} : c.levels[i] = w.levels[i]

\* Rest's quantity, links and flag.
LEMMA LinkedIs ==
  ASSUME NEW w \in Book, NEW li \in Levels, NEW s \in Slots, NEW q \in Int,
         w.levels[li].tail # s
  PROVE  LET x == LinkBack([w EXCEPT !.levels[li].qty = @ + q], li, s) IN
         AtBack(w, [x EXCEPT !.pool[s].live = TRUE], li, s, q)
<1> DEFINE lv == w.levels[li]
           up == [lv EXCEPT !.qty = lv.qty + q]
           ups == [w.levels EXCEPT ![li] = up]
           y == [w EXCEPT !.levels[li].qty = @ + q]
           top == [up EXCEPT !.head = IF up.tail = NullSlot THEN s ELSE up.head, !.tail = s,
                             !.orders = up.orders + 1]
           tops == [ups EXCEPT ![li] = top]
           o == [w.pool[s] EXCEPT !.next = NullSlot, !.prev = lv.tail]
           p1 == [w.pool EXCEPT ![s] = o]
           p2 == IF lv.tail = NullSlot THEN p1
                 ELSE [p1 EXCEPT ![lv.tail] = [p1[lv.tail] EXCEPT !.next = s]]
           oo == [p2[s] EXCEPT !.live = TRUE]
           p3 == [p2 EXCEPT ![s] = oo]
           x == LinkBack(y, li, s)
           c == [x EXCEPT !.pool[s].live = TRUE]
<1>1. /\ w.levels \in [Levels -> LevelType] /\ w.pool \in [Slots -> SlotType]
      /\ lv \in LevelType /\ w.pool[s] \in SlotType /\ s \in Links
  BY DEF Book, Links
<1>2. lv.tail \in Links /\ NullSlot \in Links /\ lv.tail # s
  BY <1>1 DEF LevelType, Links
<1>3. y = [w EXCEPT !.levels = ups]
  BY DEF Book
<1>4. /\ up \in LevelType /\ up.qty = lv.qty + q /\ SameLevelEnds(up, lv)
  BY <1>1 DEF LevelType, SameLevelEnds
<1>5. o \in SlotType /\ o.next = NullSlot /\ o.prev = lv.tail
      /\ o.id = w.pool[s].id /\ o.side = w.pool[s].side /\ o.tick = w.pool[s].tick
      /\ o.qty = w.pool[s].qty
  BY <1>1, <1>2 DEF SlotType
<1> HIDE DEF up, y, o, lv
<1>6. ups \in [Levels -> LevelType] /\ ups[li] = up
      /\ \A i \in Levels \ {li} : ups[i] = w.levels[i]
  BY <1>1, <1>4
<1>7. top \in LevelType /\ top.qty = lv.qty + q /\ top.orders = lv.orders + 1 /\ top.tail = s
      /\ top.head = IF lv.tail = NullSlot THEN s ELSE lv.head
  <2> DEFINE hd == IF up.tail = NullSlot THEN s ELSE up.head
             n == up.orders + 1
  <2>1. up.head = lv.head /\ up.tail = lv.tail /\ up.orders = lv.orders
    BY <1>4 DEF SameLevelEnds
  <2>2. hd \in Links /\ n \in Int
    BY <1>1, <1>4 DEF LevelType
  <2>3. top = [up EXCEPT !.head = hd, !.tail = s, !.orders = n]
    OBVIOUS
  <2> HIDE DEF hd, n, top
  <2>4. top \in LevelType /\ top.qty = up.qty /\ top.orders = n /\ top.tail = s /\ top.head = hd
    BY <1>1, <1>4, <2>2, <2>3 DEF LevelType
  <2> QED
    BY <1>4, <2>1, <2>4 DEF hd, n
<1>8. p1 \in [Slots -> SlotType] /\ p1[s] = o /\ \A r \in Slots \ {s} : p1[r] = w.pool[r]
  BY <1>1, <1>5
<1> HIDE DEF top, ups, p1
<1>9. tops \in [Levels -> LevelType] /\ tops[li] = top
      /\ \A i \in Levels \ {li} : tops[i] = w.levels[i]
  BY <1>6, <1>7
<1>10. /\ p2 \in [Slots -> SlotType] /\ p2[s] = o
       /\ \A r \in Slots \ {s} : /\ SameButNext(p2[r], w.pool[r])
                                 /\ p2[r].next = IF r = lv.tail THEN s ELSE w.pool[r].next
  <2>1. CASE lv.tail = NullSlot
    BY <1>8, <2>1, SlotsAre DEF SameButNext
  <2>2. CASE lv.tail # NullSlot
    <3> DEFINE t == lv.tail
               n == [p1[t] EXCEPT !.next = s]
    <3>1. t \in Slots \ {s}
      BY <1>2, <2>2 DEF Links
    <3>2. n \in SlotType /\ SameButNext(n, w.pool[t]) /\ n.next = s
      BY <1>1, <1>8, <3>1 DEF SlotType, SameButNext
    <3>3. p2 = [p1 EXCEPT ![t] = n]
      BY <2>2
    <3> HIDE DEF n, t, p2
    <3>4. p2 \in [Slots -> SlotType] /\ p2[t] = n /\ \A r \in Slots \ {t} : p2[r] = p1[r]
      BY <1>8, <3>1, <3>2, <3>3
    <3>5. \A r \in Slots \ {s} : r # t => p2[r] = w.pool[r]
      BY <1>8, <3>4
    <3> QED
      BY <1>8, <3>1, <3>2, <3>4, <3>5 DEF SameButNext, t
  <2> QED
    BY <2>1, <2>2
<1> HIDE DEF p2
<1>11. oo \in SlotType /\ Resting(oo, w.pool[s].id, w.pool[s].side, w.pool[s].tick,
                                  w.pool[s].qty, lv.tail)
  BY <1>5, <1>10 DEF SlotType, Resting
<1> HIDE DEF oo, tops
<1>12. /\ p3 \in [Slots -> SlotType] /\ p3[s] = oo
       /\ \A r \in Slots \ {s} : p3[r] = p2[r]
  BY <1>10, <1>11
<1>13. /\ y \in Book /\ y.levels = ups /\ y.pool = w.pool
  BY <1>3, <1>6 DEF Book
<1>14. x = [y EXCEPT !.pool = p2, !.levels = tops]
  <2>1. y.levels[li] = up /\ up.tail = lv.tail
    BY <1>4, <1>6, <1>13 DEF SameLevelEnds
  <2> QED
    BY <1>13, <2>1 DEF LinkBack, top, tops, p1, p2, o, Book
<1>15. x = [w EXCEPT !.pool = p2, !.levels = tops]
  BY <1>3, <1>13, <1>14 DEF Book
<1> HIDE DEF x, c, p3
<1>16. c = [w EXCEPT !.pool = p3, !.levels = tops]
  BY <1>15 DEF c, p3, oo, Book
<1>17. /\ c \in Book /\ SameMarks(w, c) /\ c.free_head = w.free_head
       /\ c.pool_used = w.pool_used /\ c.ids = w.ids /\ c.pool = p3 /\ c.levels = tops
  BY <1>9, <1>12, <1>16 DEF Book, SameMarks
<1> QED
  BY <1>7, <1>9, <1>10, <1>11, <1>12, <1>17 DEF AtBack, c, x, y, lv

\* A level with no quantity and no head is one that nobody rests on.
LEMMA NobodyThere ==
  ASSUME NEW b, NEW age, NEW now, NEW M, Kept(b, age, now, M), NEW li \in Levels
  PROVE  b.levels[li].qty = 0 /\ b.levels[li].head = NullSlot <=> At(b, li) = {}
BY DEF Kept, Queued, Ends, Oldest, Counted, Weighs

\* What rest leaves of book b and of the events ev.
Rested(b, st, id, side, tick, qty, ev) ==
  /\ Entry(b, st.b, id, side, tick, qty) /\ Marked(b, st.b, side, tick)
  /\ st.events = Append(ev, AcceptEvent([id |-> id, side |-> side, tick |-> tick, qty |-> qty]))

\* Rest enters the order written into the slot taken, and says so.
LEMMA RestIs ==
  ASSUME NEW b, NEW age, NEW now, NEW M, Kept(b, age, now, M), Settled(b),
         b.free_head \in Slots, NEW id \in Ids, NEW side \in Sides, NEW tick \in Ticks,
         NEW qty \in Int, NEW ev
  PROVE  Rested(b, Rest(Step(Written(b, id, side, tick, qty), ev), b.free_head),
                id, side, tick, qty, ev)
<1> DEFINE s == b.free_head
           li == Idx(tick)
           lv == b.levels[li]
           w == Written(b, id, side, tick, qty)
           o == w.pool[s]
           b1 == IF lv.qty = 0 /\ lv.head = NullSlot THEN BitSet(w, li) ELSE w
           x == LinkBack([b1 EXCEPT !.levels[li].qty = @ + qty], li, s)
           c == [x EXCEPT !.pool[s].live = TRUE]
           own == BestFor(b, Opposite(side))
           d == IF own = InvalidTick \/ Better(Opposite(side), tick, own)
                  THEN Priced(c, Opposite(side), tick) ELSE c
           r == Rest(Step(w, ev), s)
<1>0. b \in Book /\ Marks(b, Taken(b)) /\ li \in Levels /\ s \in Slots /\ tick \in Int
  BY LevelsAre, TicksAre DEF Kept, Settled
<1>1. /\ w \in Book /\ w.levels = b.levels /\ SameMarks(b, w)
      /\ o.id = id /\ o.side = side /\ o.tick = tick /\ o.qty = qty
      /\ \A u \in Slots \ {s} : w.pool[u] = b.pool[u]
      /\ w.free_head = b.pool[s].next /\ w.pool_used = b.pool_used + 1
      /\ DOMAIN w.ids = DOMAIN b.ids \union {id}
      /\ w.ids[id] = s /\ \A i \in DOMAIN b.ids \ {id} : w.ids[i] = b.ids[i]
  BY <1>0, WrittenIs
<1> HIDE DEF w
<1>2. lv.qty = 0 /\ lv.head = NullSlot <=> At(b, li) = {}
  BY <1>0, NobodyThere
<1>3. /\ b1 \in Book /\ SameStore(w, b1) /\ Marks(b1, Taken(b) \union {li})
      /\ b1.best_bid = b.best_bid /\ b1.best_ask = b.best_ask
  <2>0. Marks(w, Taken(b)) /\ w.best_bid = b.best_bid /\ w.best_ask = b.best_ask
        /\ Taken(b) \in SUBSET Levels
    BY <1>0, <1>1 DEF Marks, SameMarks, Taken
  <2>1. CASE At(b, li) = {}
    <3>1. b1 = BitSet(w, li)
      BY <1>2, <2>1
    <3> HIDE DEF b1, li
    <3> QED
      BY <1>0, <1>1, <2>0, <3>1, SetIs
  <2>2. CASE At(b, li) # {}
    <3>1. b1 = w /\ Taken(b) \union {li} = Taken(b)
      BY <1>0, <1>2, <2>2 DEF Taken
    <3> HIDE DEF b1, li
    <3> QED
      BY <1>1, <2>0, <3>1 DEF SameStore
  <2> QED
    BY <2>1, <2>2
<1> HIDE DEF b1
<1>4. b1.levels = b.levels /\ b1.pool = w.pool /\ b1.free_head = w.free_head
      /\ b1.pool_used = w.pool_used /\ b1.ids = w.ids
  BY <1>1, <1>3 DEF SameStore
<1>5. b1.levels[li].tail # s
  <2>1. Youngest(At(b, li), age, lv.tail)
    BY <1>0 DEF Kept, Queued, Ends
  <2>2. s \notin LiveSlots(b)
    BY <1>0, SlotsAre DEF Kept, Spare, Youngest, Dead
  <2>3. lv.tail # s
    BY <1>0, <2>1, <2>2, SlotsAre DEF Youngest, At
  <2> QED
    BY <1>4, <2>3
<1>6. /\ c \in Book /\ SameMarks(b1, c) /\ c.free_head = b1.free_head
      /\ c.pool_used = b1.pool_used /\ c.ids = b1.ids
      /\ Resting(c.pool[s], o.id, o.side, o.tick, o.qty, lv.tail)
      /\ \A u \in Slots \ {s} :
           /\ SameButNext(c.pool[u], w.pool[u])
           /\ c.pool[u].next = IF u = lv.tail THEN s ELSE w.pool[u].next
      /\ c.levels[li].qty = lv.qty + qty /\ c.levels[li].orders = lv.orders + 1
      /\ c.levels[li].head = (IF lv.tail = NullSlot THEN s ELSE lv.head)
      /\ c.levels[li].tail = s
      /\ \A i \in Levels \ {li} : c.levels[i] = b.levels[i]
  <2> HIDE DEF li, s, o
  <2>1. /\ c \in Book /\ SameMarks(b1, c) /\ c.free_head = b1.free_head
        /\ c.pool_used = b1.pool_used /\ c.ids = b1.ids
        /\ Resting(c.pool[s], b1.pool[s].id, b1.pool[s].side, b1.pool[s].tick, b1.pool[s].qty,
                   b1.levels[li].tail)
        /\ \A u \in Slots \ {s} :
             /\ SameButNext(c.pool[u], b1.pool[u])
             /\ c.pool[u].next = IF u = b1.levels[li].tail THEN s ELSE b1.pool[u].next
        /\ c.levels[li].qty = b1.levels[li].qty + qty
        /\ c.levels[li].orders = b1.levels[li].orders + 1
        /\ c.levels[li].head = (IF b1.levels[li].tail = NullSlot THEN s ELSE b1.levels[li].head)
        /\ c.levels[li].tail = s
        /\ \A i \in Levels \ {li} : c.levels[i] = b1.levels[i]
    <3>1. AtBack(b1, c, li, s, qty)
      BY <1>0, <1>3, <1>5, LinkedIs
    <3> HIDE DEF c
    <3> QED
      BY <3>1 DEF AtBack
  <2> HIDE DEF c
  <2> QED
    BY <1>4, <2>1 DEF o
<1> HIDE DEF c
<1>7. /\ d \in Book /\ SameStore(c, d) /\ d.occupied = c.occupied
      /\ BestFor(d, Opposite(side)) =
           (IF own = InvalidTick \/ Better(Opposite(side), tick, own) THEN tick
            ELSE BestFor(c, Opposite(side)))
      /\ BestFor(d, side) = BestFor(c, side)
  <2>1. Opposite(side) \in Sides /\ Opposite(Opposite(side)) = side
    BY OppositeIs
  <2>2. CASE own = InvalidTick \/ Better(Opposite(side), tick, own)
    <3>1. d = Priced(c, Opposite(side), tick)
      BY <2>2
    <3> DEFINE t == Opposite(side)
    <3> HIDE DEF d, own, t
    <3>2. /\ d \in Book /\ SameStore(c, d) /\ d.occupied = c.occupied
          /\ BestFor(d, t) = tick /\ BestFor(d, Opposite(t)) = BestFor(c, Opposite(t))
      BY <1>0, <1>6, <2>1, <3>1, PricedIs DEF t
    <3> QED
      BY <2>1, <2>2, <3>2 DEF t
  <2>3. CASE ~(own = InvalidTick \/ Better(Opposite(side), tick, own))
    <3>1. d = c
      BY <2>3
    <3> QED
      BY <1>6, <2>3, <3>1 DEF SameStore
  <2> QED
    BY <2>2, <2>3
<1>8. \A t : BestFor(c, t) = BestFor(b, t)
  BY <1>3, <1>6 DEF BestFor, SameMarks
<1>9. Entry(b, d, id, side, tick, qty)
  <2>1. d.pool = c.pool /\ d.levels = c.levels /\ d.free_head = c.free_head
        /\ d.pool_used = c.pool_used /\ d.ids = c.ids
    BY <1>7 DEF SameStore
  <2>2. \A u \in Slots \ {s} : /\ SameButNext(d.pool[u], b.pool[u])
                               /\ d.pool[u].next = IF u = lv.tail THEN s ELSE b.pool[u].next
    BY <1>1, <1>6, <2>1
  <2> HIDE DEF d
  <2> QED
    BY <1>1, <1>4, <1>6, <1>7, <2>1, <2>2 DEF Entry
<1>10. Marked(b, d, side, tick)
  <2>1. Marks(d, Taken(b) \union {li})
    BY <1>3, <1>6, <1>7 DEF Marks, SameMarks
  <2> HIDE DEF d
  <2> QED
    BY <1>7, <1>8, <2>1 DEF Marked
<1>11. r.b = d /\ r.events = Append(ev, AcceptEvent(o))
  <2>1. li = Idx(o.tick) /\ o.qty = qty /\ w.levels[li] = lv
    BY <1>1
  <2>2. c.best_bid = b.best_bid /\ c.best_ask = b.best_ask
    BY <1>3, <1>6 DEF SameMarks
  <2>3. d = IF side = "Buy"
              THEN IF c.best_bid = InvalidTick \/ tick > c.best_bid
                     THEN [c EXCEPT !.best_bid = tick] ELSE c
              ELSE IF c.best_ask = InvalidTick \/ tick < c.best_ask
                     THEN [c EXCEPT !.best_ask = tick] ELSE c
    BY <2>2 DEF Priced, Better, BestFor, Opposite, Sides
  <2> HIDE DEF o, d, s
  <2>4. r.b = IF o.side = "Buy"
              THEN IF c.best_bid = InvalidTick \/ o.tick > c.best_bid
                     THEN [c EXCEPT !.best_bid = o.tick] ELSE c
              ELSE IF c.best_ask = InvalidTick \/ o.tick < c.best_ask
                     THEN [c EXCEPT !.best_ask = o.tick] ELSE c
    <3> DEFINE st == Step(w, ev)
               k == Idx(o.tick)
               y == IF w.levels[k].qty = 0 /\ w.levels[k].head = NullSlot THEN BitSet(w, k) ELSE w
               e == [LinkBack([y EXCEPT !.levels[k].qty = @ + o.qty], k, s) EXCEPT
                       !.pool[s].live = TRUE]
    <3>1. st.b = w /\ st.events = ev
      BY DEF Step
    <3>2. k = li /\ y = b1 /\ e = c
      <4>1. k = li
        BY <2>1
      <4>2. y = b1
        <5> HIDE DEF k, li, lv
        <5> QED
          BY <2>1, <4>1 DEF b1
      <4> HIDE DEF y, k, li
      <4> QED
        BY <2>1, <4>1, <4>2 DEF c
    <3> HIDE DEF st
    <3>3. Rest(st, s) = Step(IF o.side = "Buy"
              THEN IF e.best_bid = InvalidTick \/ o.tick > e.best_bid
                     THEN [e EXCEPT !.best_bid = o.tick] ELSE e
              ELSE IF e.best_ask = InvalidTick \/ o.tick < e.best_ask
                     THEN [e EXCEPT !.best_ask = o.tick] ELSE e,
              Append(ev, AcceptEvent(o)))
      BY <3>1 DEF Rest, o
    <3> HIDE DEF e
    <3> QED
      BY <3>2, <3>3 DEF Step, st
  <2>5. r.events = Append(ev, AcceptEvent(o))
    <3> DEFINE st == Step(w, ev)
    <3>1. st.b = w /\ st.events = ev
      BY DEF Step
    <3> HIDE DEF st
    <3> QED
      BY <3>1 DEF r, Rest, Step, o, st
  <2> QED
    BY <1>1, <2>3, <2>4, <2>5
<1>12. AcceptEvent(o) = AcceptEvent([id |-> id, side |-> side, tick |-> tick, qty |-> qty])
  BY <1>1 DEF AcceptEvent
<1>13. Rested(b, r, id, side, tick, qty, ev)
  <2> HIDE DEF r, d, o
  <2> QED
    BY <1>9, <1>10, <1>11, <1>12 DEF Rested
<1> QED
  BY <1>13 DEF w

\* The orders of the book that an order has entered.
LEMMA EntryOrders ==
  ASSUME NEW b, NEW age, NEW now, NEW M, Kept(b, age, now, M), b.free_head \in Slots,
         NEW c, NEW id, NEW side, NEW tick \in Ticks, NEW qty,
         Entry(b, c, id, side, tick, qty)
  PROVE  LET s  == b.free_head
             li == Idx(tick)
         IN /\ s \in Slots \ LiveSlots(b) /\ s \in Dead(b)
            /\ LiveSlots(c) = LiveSlots(b) \union {s}
            /\ Dead(c) = Dead(b) \ {s}
            /\ At(c, li) = At(b, li) \union {s} /\ s \notin At(b, li)
            /\ \A i \in Levels \ {li} : At(c, i) = At(b, i)
<1> DEFINE s == b.free_head
           li == Idx(tick)
<1>1. s \in Dead(b)
  BY SlotsAre DEF Kept, Spare, Youngest
<1>2. s \in Slots \ LiveSlots(b)
  BY <1>1 DEF Dead
<1>3. /\ c.pool[s].live /\ c.pool[s].tick = tick
      /\ \A r \in Slots \ {s} : c.pool[r].live = b.pool[r].live /\ c.pool[r].tick = b.pool[r].tick
  BY DEF Entry, Resting, SameButNext
<1>4. LiveSlots(c) = LiveSlots(b) \union {s}
  BY <1>2, <1>3 DEF LiveSlots
<1>5. Dead(c) = Dead(b) \ {s}
  BY <1>4 DEF Dead
<1>6. TickOf(li) = tick /\ \A i \in Levels \ {li} : TickOf(i) # tick
  BY LevelsAre
<1>7. At(c, li) = At(b, li) \union {s} /\ s \notin At(b, li)
  BY <1>2, <1>3, <1>4, <1>6 DEF At, LiveSlots
<1>8. \A i \in Levels \ {li} : At(c, i) = At(b, i)
  BY <1>2, <1>3, <1>4, <1>6 DEF At, LiveSlots
<1> QED
  BY <1>1, <1>2, <1>4, <1>5, <1>7, <1>8

\* It stands at the back of its level, and no other queue is touched.
LEMMA EntryQueue ==
  ASSUME NEW b, NEW age, NEW now, NEW M, Kept(b, age, now, M), b.free_head \in Slots,
         NEW c, NEW id, NEW side, NEW tick \in Ticks, NEW qty,
         Entry(b, c, id, side, tick, qty)
  PROVE  Queued(c, Renewed(age, b.free_head, now))
<1> DEFINE s == b.free_head
           li == Idx(tick)
           lv == b.levels[li]
           new == Renewed(age, s, now)
           T == At(b, li)
<1>0. /\ s \in Slots /\ s \notin LiveSlots(b) /\ li \in Levels
      /\ At(c, li) = T \union {s} /\ s \notin T
      /\ \A i \in Levels \ {li} : At(c, i) = At(b, i)
  BY EntryOrders, LevelsAre
<1>1. /\ Aged(age, now) /\ T \in SUBSET Slots
  BY AtIs DEF Kept
<1>2. /\ Oldest(T, age, lv.head) /\ Youngest(T, age, lv.tail)
      /\ \A r \in T : /\ Oldest(Later(T, age, r), age, b.pool[r].next)
                      /\ Youngest(Earlier(T, age, r), age, b.pool[r].prev)
  BY <1>0 DEF Kept, Queued, Ends, Linked
<1>3. /\ c.pool[s].prev = lv.tail /\ c.pool[s].next = NullSlot
      /\ \A r \in Slots \ {s} : /\ c.pool[r].prev = b.pool[r].prev
                                /\ c.pool[r].next = IF r = lv.tail THEN s ELSE b.pool[r].next
      /\ c.levels[li].head = (IF lv.tail = NullSlot THEN s ELSE lv.head)
      /\ c.levels[li].tail = s
      /\ \A i \in Levels \ {li} : c.levels[i] = b.levels[i]
  BY DEF Entry, Resting, SameButNext
<1>4. lv.tail = NullSlot <=> lv.head = NullSlot
  BY <1>2, SlotsAre DEF Oldest, Youngest
<1>5. \A r \in T : r = lv.tail <=> b.pool[r].next = NullSlot
  <2>1. SUFFICES ASSUME NEW r \in T PROVE r = lv.tail <=> b.pool[r].next = NullSlot
    OBVIOUS
  <2>2. Oldest(Later(T, age, r), age, b.pool[r].next)
    BY <1>2
  <2>3. b.pool[r].next = NullSlot <=> Later(T, age, r) = {}
    BY <2>2 DEF Oldest
  <2>4. \A u \in T : age[u] \in Nat
    BY <1>1 DEF Aged
  <2>5. r # NullSlot
    BY <1>1, SlotsAre
  <2> HIDE DEF T, lv
  <2>6. Later(T, age, r) = {} <=> Youngest(T, age, r)
    BY <2>4, <2>5 DEF Later, Youngest
  <2>7. Youngest(T, age, r) <=> r = lv.tail
    BY <1>1, <1>2, EndIsOne
  <2> QED
    BY <2>3, <2>6, <2>7
<1>6. ASSUME NEW i \in Levels \ {li}
      PROVE  Ends(c, new, i) /\ Linked(c, new, i)
  <2> DEFINE U == At(b, i)
  <2>1. U \in SUBSET Slots /\ s \notin U /\ At(c, i) = U /\ c.levels[i] = b.levels[i]
    BY <1>0, <1>3, AtIs
  <2>2. Oldest(U, age, b.levels[i].head) /\ Youngest(U, age, b.levels[i].tail)
    BY DEF Kept, Queued, Ends
  <2>3. \A r \in U : /\ Oldest(Later(U, age, r), age, b.pool[r].next)
                     /\ Youngest(Earlier(U, age, r), age, b.pool[r].prev)
    BY DEF Kept, Queued, Linked
  <2>4. \A r \in U : r \notin T
    BY <1>0, LevelsAre DEF At
  <2>5. \A r \in U : c.pool[r].next = b.pool[r].next /\ c.pool[r].prev = b.pool[r].prev
    <3>1. \A r \in U : r # lv.tail /\ r \in Slots \ {s}
      BY <1>2, <2>1, <2>4, SlotsAre DEF Youngest
    <3> QED
      BY <1>3, <3>1
  <2> HIDE DEF U, T, li, lv, new, s
  <2>6. Ends(c, new, i)
    BY <1>0, <1>1, <2>1, <2>2, SameEnds DEF Ends, new
  <2>7. ASSUME NEW r \in U
        PROVE  /\ Oldest(Later(U, new, r), new, b.pool[r].next)
               /\ Youngest(Earlier(U, new, r), new, b.pool[r].prev)
    <3>1. Later(U, new, r) = Later(U, age, r) /\ Earlier(U, new, r) = Earlier(U, age, r)
      BY <1>0, <1>1, <2>1, SameEnds DEF new
    <3>2. /\ Later(U, age, r) \in SUBSET Slots /\ s \notin Later(U, age, r)
          /\ Earlier(U, age, r) \in SUBSET Slots /\ s \notin Earlier(U, age, r)
      BY <2>1 DEF Later, Earlier
    <3> QED
      BY <1>0, <1>1, <2>3, <3>1, <3>2, SameEnds DEF new
  <2> QED
    BY <2>1, <2>5, <2>6, <2>7 DEF Linked
<1>7. Ends(c, new, li) /\ Linked(c, new, li)
  <2> HIDE DEF T, li, lv, new, s
  <2>1. /\ Youngest(T \union {s}, new, s)
        /\ Later(T \union {s}, new, s) = {}
        /\ Earlier(T \union {s}, new, s) = T
        /\ \A r \in T : /\ Later(T \union {s}, new, r) = Later(T, age, r) \union {s}
                        /\ Earlier(T \union {s}, new, r) = Earlier(T, age, r)
    <3>1. Behind(T, age, s, new)
      BY <1>0, <1>1, JoinedEnds DEF new
    <3> QED
      BY <3>1 DEF Behind
  <2>2. Oldest(T \union {s}, new, c.levels[li].head)
    <3>1. Oldest(T \union {s}, new, IF lv.head = NullSlot THEN s ELSE lv.head)
      BY <1>0, <1>1, <1>2, OldestMore DEF new
    <3> QED
      BY <1>3, <1>4, <3>1
  <2>3. Ends(c, new, li)
    BY <1>0, <1>3, <2>1, <2>2 DEF Ends
  <2>4. /\ Oldest(Later(T \union {s}, new, s), new, c.pool[s].next)
        /\ Youngest(Earlier(T \union {s}, new, s), new, c.pool[s].prev)
    <3>1. Youngest(T, new, lv.tail)
      BY <1>0, <1>1, <1>2, SameEnds DEF new
    <3>2. Oldest({}, new, NullSlot)
      BY DEF Oldest
    <3> QED
      BY <1>3, <2>1, <3>1, <3>2
  <2>5. ASSUME NEW r \in T
        PROVE  /\ Oldest(Later(T \union {s}, new, r), new, c.pool[r].next)
               /\ Youngest(Earlier(T \union {s}, new, r), new, c.pool[r].prev)
    <3>1. r \in Slots \ {s}
      BY <1>0, <1>1
    <3>2. /\ Later(T, age, r) \in SUBSET Slots /\ s \notin Later(T, age, r)
          /\ Earlier(T, age, r) \in SUBSET Slots /\ s \notin Earlier(T, age, r)
      BY <1>0, <1>1 DEF Later, Earlier
    <3>3. Oldest(Later(T, age, r) \union {s}, new,
                 IF b.pool[r].next = NullSlot THEN s ELSE b.pool[r].next)
      BY <1>0, <1>1, <1>2, <3>2, OldestMore DEF new
    <3>4. c.pool[r].next = IF b.pool[r].next = NullSlot THEN s ELSE b.pool[r].next
      BY <1>3, <1>5, <3>1
    <3>5. Youngest(Earlier(T, age, r), new, c.pool[r].prev)
      BY <1>0, <1>1, <1>2, <1>3, <3>1, <3>2, SameEnds DEF new
    <3> QED
      BY <2>1, <3>3, <3>4, <3>5
  <2> QED
    BY <1>0, <2>3, <2>4, <2>5 DEF Linked
<1> QED
  BY <1>6, <1>7 DEF Queued

\* The slot it takes was the top of the free list.
LEMMA EntrySpare ==
  ASSUME NEW b, NEW age, NEW now, NEW M, Kept(b, age, now, M), b.free_head \in Slots,
         NEW c, NEW id, NEW side, NEW tick \in Ticks, NEW qty,
         Entry(b, c, id, side, tick, qty)
  PROVE  Spare(c, Renewed(age, b.free_head, now))
<1> DEFINE s == b.free_head
           D == Dead(b)
           new == Renewed(age, s, now)
           tl == b.levels[Idx(tick)].tail
<1>0. s \in Slots /\ s \in D /\ Dead(c) = D \ {s} /\ D \in SUBSET Slots
  BY EntryOrders DEF Dead
<1>1. /\ Aged(age, now) /\ Youngest(D, age, s)
      /\ \A r \in D : Youngest(Earlier(D, age, r), age, b.pool[r].next)
  BY DEF Kept, Spare
<1>2. /\ c.free_head = b.pool[s].next
      /\ \A r \in D \ {s} : c.pool[r].next = b.pool[r].next
  <2>1. \A r \in D : r # tl
    <3>1. Youngest(At(b, Idx(tick)), age, tl)
      BY LevelsAre DEF Kept, Queued, Ends
    <3> QED
      BY <1>0, <3>1, AtIs, SlotsAre DEF Youngest, Dead
  <2>2. \A r \in Slots \ {s} : c.pool[r].next = IF r = tl THEN s ELSE b.pool[r].next
    BY DEF Entry
  <2>3. c.free_head = b.pool[s].next
    BY DEF Entry
  <2> QED
    BY <1>0, <2>1, <2>2, <2>3
<1> HIDE DEF s, D, new, tl
<1>3. \A r \in D : age[r] \in Nat /\ (age[r] = age[s] => r = s) /\ r # NullSlot
  BY <1>0, <1>1, SlotsAre DEF Aged
<1>4. \A r \in D : age[r] <= age[s]
  BY <1>0, <1>1, <1>3 DEF Youngest
<1>5. Earlier(D, age, s) = D \ {s}
  BY <1>0, <1>3, <1>4 DEF Earlier
<1>6. \A r \in D \ {s} : Earlier(D \ {s}, age, r) = Earlier(D, age, r)
  BY <1>0, <1>3, <1>4 DEF Earlier
<1>7. D \ {s} \in SUBSET Slots /\ s \notin D \ {s}
  BY <1>0
<1>8. Youngest(D \ {s}, new, c.free_head)
  <2>1. Youngest(D \ {s}, age, c.free_head)
    BY <1>0, <1>1, <1>2, <1>5
  <2> QED
    BY <1>0, <1>1, <1>7, <2>1, SameEnds DEF new
<1>9. ASSUME NEW r \in D \ {s}
      PROVE  Youngest(Earlier(D \ {s}, new, r), new, c.pool[r].next)
  <2>1. Earlier(D \ {s}, new, r) = Earlier(D \ {s}, age, r)
    BY <1>0, <1>1, <1>7, SameEnds DEF new
  <2>2. Earlier(D \ {s}, age, r) \in SUBSET Slots /\ s \notin Earlier(D \ {s}, age, r)
    BY <1>7 DEF Earlier
  <2>3. Youngest(Earlier(D \ {s}, age, r), age, c.pool[r].next)
    BY <1>1, <1>2, <1>6
  <2> QED
    BY <1>0, <1>1, <2>1, <2>2, <2>3, SameEnds DEF new
<1> QED
  BY <1>0, <1>8, <1>9 DEF Spare, new, s

\* A book that an order enters stays in order: the order is the youngest of its level.
LEMMA EntryKept ==
  ASSUME NEW b, NEW age, NEW now, NEW M, Kept(b, age, now, M), b.free_head \in Slots,
         NEW c, NEW id \in Ids \ DOMAIN b.ids, NEW side \in Sides, NEW tick \in Ticks,
         NEW qty \in Nat \ {0}, Entry(b, c, id, side, tick, qty)
  PROVE  LET s == b.free_head IN
         Kept(c, Renewed(age, s, now), now + 1, Reweighed(M, s, b.pool[s].qty, qty))
<1> DEFINE s == b.free_head
           li == Idx(tick)
           T == At(b, li)
           new == Renewed(age, s, now)
           N == Reweighed(M, s, b.pool[s].qty, qty)
<1>0. /\ b \in Book /\ Aged(age, now) /\ Weighs(M, b) /\ Sound(b) /\ Indexed(b) /\ Counted(b, M)
  BY DEF Kept
<1>1. /\ s \in Slots /\ s \notin LiveSlots(b) /\ li \in Levels
      /\ LiveSlots(c) = LiveSlots(b) \union {s}
      /\ At(c, li) = T \union {s} /\ s \notin T
      /\ \A i \in Levels \ {li} : At(c, i) = At(b, i)
  BY EntryOrders, LevelsAre
<1>2. /\ c \in Book /\ c.pool[s].id = id /\ c.pool[s].tick = tick /\ c.pool[s].qty = qty
      /\ \A r \in Slots \ {s} : /\ c.pool[r].id = b.pool[r].id /\ c.pool[r].tick = b.pool[r].tick
                                /\ c.pool[r].qty = b.pool[r].qty
      /\ c.levels[li].qty = b.levels[li].qty + qty /\ c.levels[li].orders = b.levels[li].orders + 1
      /\ \A i \in Levels \ {li} : c.levels[i] = b.levels[i]
      /\ c.pool_used = b.pool_used + 1
      /\ DOMAIN c.ids = DOMAIN b.ids \union {id}
      /\ c.ids[id] = s /\ \A i \in DOMAIN b.ids : c.ids[i] = b.ids[i]
  BY DEF Entry, Resting, SameButNext
<1>3. Aged(new, now + 1)
  BY <1>0, <1>1, RenewedIs
<1>4. Queued(c, new) /\ Spare(c, new)
  BY EntryQueue, EntrySpare
<1> HIDE DEF s, li, N, new
<1>5. /\ Weighs(N, c)
      /\ \A U \in SUBSET Slots : s \notin U => N[U] = M[U]
  <2>1. c.pool[s].qty >= 0 /\ \A r \in Slots : r # s => c.pool[r].qty = b.pool[r].qty
    BY <1>2
  <2> QED
    BY <1>0, <1>1, <1>2, <2>1, ReweighedIs DEF N
<1>6. Sound(c)
  <2>1. ASSUME NEW r \in LiveSlots(b)
        PROVE  /\ c.pool[r].id \in DOMAIN c.ids /\ c.ids[c.pool[r].id] = r
               /\ c.pool[r].tick \in Ticks /\ c.pool[r].qty > 0
    <3>1. r \in Slots \ {s}
      BY <1>1 DEF LiveSlots
    <3> QED
      BY <1>0, <1>2, <3>1 DEF Sound
  <2>2. qty > 0
    OBVIOUS
  <2> QED
    BY <1>1, <1>2, <2>1, <2>2 DEF Sound
<1>7. Indexed(c)
  <2>1. \A i \in DOMAIN b.ids : b.ids[i] \in Slots \ {s}
    BY <1>0, <1>1 DEF Indexed, LiveSlots
  <2> QED
    BY <1>0, <1>1, <1>2, <2>1 DEF Indexed
<1>8. Counted(c, N)
  <2>1. c.pool_used = Cardinality(LiveSlots(c))
    <3>1. LiveSlots(b) \in SUBSET Slots
      BY DEF LiveSlots
    <3>2. Cardinality(LiveSlots(b) \union {s}) = Cardinality(LiveSlots(b)) + 1
      BY <1>1, <3>1, SetsOfSlots
    <3> QED
      BY <1>0, <1>1, <1>2, <3>2 DEF Counted
  <2>2. ASSUME NEW i \in Levels \ {li}
        PROVE  c.levels[i].orders = Cardinality(At(c, i)) /\ c.levels[i].qty = N[At(c, i)]
    <3>1. At(b, i) \in SUBSET Slots /\ s \notin At(b, i) /\ At(c, i) = At(b, i)
      BY <1>1, AtIs
    <3>2. c.levels[i] = b.levels[i]
      BY <1>2
    <3>3. N[At(b, i)] = M[At(b, i)]
      BY <1>5, <3>1
    <3> QED
      BY <1>0, <3>1, <3>2, <3>3 DEF Counted
  <2>3. c.levels[li].orders = Cardinality(At(c, li)) /\ c.levels[li].qty = N[At(c, li)]
    <3>1. T \in SUBSET Slots /\ s \in Slots \ T
      BY <1>1, AtIs
    <3>2. b.levels[li].orders = Cardinality(T) /\ b.levels[li].qty = M[T]
      BY <1>0, <1>1 DEF Counted
    <3> HIDE DEF T
    <3>3. Cardinality(T \union {s}) = Cardinality(T) + 1
      BY <3>1, SetsOfSlots
    <3>4. N[T \union {s}] = N[T] + c.pool[s].qty
      BY <1>5, <3>1 DEF Weighs
    <3>5. N[T] = M[T]
      BY <1>5, <3>1
    <3> QED
      BY <1>1, <1>2, <3>2, <3>3, <3>4, <3>5
  <2> QED
    BY <2>1, <2>2, <2>3 DEF Counted
<1>9. Kept(c, new, now + 1, N)
  BY <1>2, <1>3, <1>4, <1>5, <1>6, <1>7, <1>8 DEF Kept
<1> QED
  BY <1>9 DEF new, N, s

\* An order that nobody on the other side would trade with.
Alone(b, side, tick) ==
  BestFor(b, side) = InvalidTick \/ ~Reaches(side, tick, BestFor(b, side))

\* It is settled when nobody on the other side can trade with the order.
LEMMA EntrySettles ==
  ASSUME NEW b, NEW age, NEW now, NEW M, Kept(b, age, now, M), b.free_head \in Slots,
         NEW c, NEW id \in Ids \ DOMAIN b.ids, NEW side \in Sides, NEW tick \in Ticks,
         NEW qty \in Nat \ {0}, Entry(b, c, id, side, tick, qty),
         Marked(b, c, side, tick), Settled(b), Alone(b, side, tick)
  PROVE  Settled(c)
<1> DEFINE s == b.free_head
           li == Idx(tick)
           own == BestFor(b, Opposite(side))
           t == Opposite(side)
<1>0. /\ b \in Book /\ Sound(b) /\ TopIs(b, side) /\ TopIs(b, t) /\ Apart(b)
      /\ t \in Sides /\ Opposite(t) = side /\ t # side
  BY OppositeIs DEF Kept, Settled, Sides
<1>1. /\ s \in Slots /\ s \notin LiveSlots(b) /\ li \in Levels
      /\ LiveSlots(c) = LiveSlots(b) \union {s}
      /\ At(c, li) = At(b, li) \union {s}
      /\ \A i \in Levels \ {li} : At(c, i) = At(b, i)
  <2>1. /\ s \in Slots \ LiveSlots(b) /\ LiveSlots(c) = LiveSlots(b) \union {s}
        /\ At(c, li) = At(b, li) \union {s}
        /\ \A i \in Levels \ {li} : At(c, i) = At(b, i)
    BY EntryOrders
  <2>2. li \in Levels
    BY LevelsAre
  <2> QED
    BY <2>1, <2>2
<1>2. /\ c.pool[s].side = side /\ c.pool[s].tick = tick
      /\ \A r \in LiveSlots(b) : c.pool[r].side = b.pool[r].side /\ c.pool[r].tick = b.pool[r].tick
  <2>1. \A r \in LiveSlots(b) : r \in Slots \ {s}
    BY <1>1 DEF LiveSlots
  <2> QED
    BY <2>1 DEF Entry, Resting, SameButNext
<1>3. /\ Marks(c, Taken(b) \union {li}) /\ BestFor(c, side) = BestFor(b, side)
      /\ BestFor(c, t) = IF own = InvalidTick \/ Better(t, tick, own) THEN tick ELSE own
  BY DEF Marked
<1> HIDE DEF s, li, own, t
<1>4. Taken(c) = Taken(b) \union {li}
  BY <1>1 DEF Taken
<1>5. Makers(c, side) = Makers(b, side)
  BY <1>0, <1>1, <1>2 DEF Makers, t
<1>6. Makers(c, t) = Makers(b, t) \union {s}
  BY <1>0, <1>1, <1>2 DEF Makers
<1>7. TopIs(c, side)
  <2>1. \A r \in Makers(b, side) : c.pool[r].tick = b.pool[r].tick
    BY <1>2 DEF Makers
  <2>2. \A x : /\ NoneBetter(c, side, x) <=> NoneBetter(b, side, x)
               /\ SomeoneAt(c, side, x) <=> SomeoneAt(b, side, x)
    BY <1>5, <2>1 DEF NoneBetter, SomeoneAt
  <2> QED
    BY <1>0, <1>3, <1>5, <2>2 DEF TopIs
<1>8. \A r \in Makers(b, t) : c.pool[r].tick = b.pool[r].tick /\ b.pool[r].tick \in Int
  BY <1>0, <1>2, TicksAre DEF Makers, Sound
<1>9. TopIs(c, t)
  <2>0. tick \in Int /\ tick # InvalidTick
    BY TicksAre
  <2>1. CASE own = InvalidTick
    <3>1. Makers(c, t) = {s} /\ BestFor(c, t) = tick
      BY <1>0, <1>3, <1>6, <2>1 DEF TopIs, own, t
    <3> QED
      BY <1>2, <2>0, <3>1 DEF TopIs, NoneBetter, SomeoneAt, Better
  <2>2. CASE own # InvalidTick
    <3>1. NoneBetter(b, t, own) /\ SomeoneAt(b, t, own)
      BY <1>0, <2>2 DEF TopIs, own, t
    <3>2. own \in Int
      BY <1>8, <3>1 DEF SomeoneAt
    <3>3. CASE Better(t, tick, own)
      <4>1. BestFor(c, t) = tick
        BY <1>3, <3>3
      <4>2. NoneBetter(c, t, tick)
        BY <1>2, <1>6, <1>8, <2>0, <3>1, <3>2, <3>3 DEF NoneBetter, Better
      <4>3. SomeoneAt(c, t, tick)
        BY <1>2, <1>6 DEF SomeoneAt
      <4> QED
        BY <2>0, <4>1, <4>2, <4>3 DEF TopIs
    <3>4. CASE ~Better(t, tick, own)
      <4>1. BestFor(c, t) = own
        BY <1>3, <2>2, <3>4
      <4>2. NoneBetter(c, t, own)
        BY <1>2, <1>6, <1>8, <3>1, <3>4 DEF NoneBetter
      <4>3. SomeoneAt(c, t, own)
        BY <1>6, <1>8, <3>1 DEF SomeoneAt
      <4> QED
        BY <2>2, <4>1, <4>2, <4>3 DEF TopIs
    <3> QED
      BY <3>3, <3>4
  <2> QED
    BY <2>1, <2>2
<1>10. Apart(c)
  <2>1. \A r \in Makers(b, side) : ~Reaches(side, tick, b.pool[r].tick)
    <3>1. SUFFICES ASSUME NEW r \in Makers(b, side) PROVE ~Reaches(side, tick, b.pool[r].tick)
      OBVIOUS
    <3> DEFINE best == BestFor(b, side)
    <3>2. best # InvalidTick /\ NoneBetter(b, side, best) /\ SomeoneAt(b, side, best)
      BY <1>0, <3>1 DEF TopIs
    <3>3. b.pool[r].tick \in Int /\ best \in Int /\ tick \in Int
      BY <1>0, <3>1, <3>2, TicksAre DEF Makers, Sound, SomeoneAt
    <3>4. ~Reaches(side, tick, best)
      BY <3>2 DEF Alone
    <3>5. ~Better(side, b.pool[r].tick, best)
      BY <3>1, <3>2 DEF NoneBetter
    <3> HIDE DEF best
    <3> QED
      BY <3>3, <3>4, <3>5 DEF Reaches, Better
  <2>2. \A r \in LiveSlots(b) : b.pool[r].side = t => ~Reaches(side, tick, b.pool[r].tick)
    BY <2>1 DEF Makers, t
  <2>3. ASSUME NEW r \in LiveSlots(c), NEW u \in LiveSlots(c), c.pool[r].side = "Buy",
               c.pool[u].side = "Sell"
        PROVE  c.pool[r].tick < c.pool[u].tick
    <3>1. \A x \in LiveSlots(b) : b.pool[x].tick \in Int
      BY <1>0, TicksAre DEF Sound
    <3>2. tick \in Int
      BY TicksAre
    <3>3. CASE r = s
      <4>1. u \in LiveSlots(b) /\ side = "Buy" /\ b.pool[u].side = t
        BY <1>0, <1>1, <1>2, <2>3, <3>3 DEF t, Opposite
      <4> QED
        BY <1>2, <2>2, <3>1, <3>2, <3>3, <4>1 DEF Reaches
    <3>4. CASE u = s
      <4>1. r \in LiveSlots(b) /\ side = "Sell" /\ b.pool[r].side = t
        BY <1>0, <1>1, <1>2, <2>3, <3>4 DEF t, Opposite
      <4> QED
        BY <1>2, <2>2, <3>1, <3>2, <3>4, <4>1 DEF Reaches
    <3>5. CASE r # s /\ u # s
      BY <1>0, <1>1, <1>2, <2>3, <3>5 DEF Apart
    <3> QED
      BY <3>3, <3>4, <3>5
  <2> QED
    BY <2>3 DEF Apart
<1>11. TopIs(c, "Buy") /\ TopIs(c, "Sell")
  BY <1>0, <1>7, <1>9 DEF Sides
<1> QED
  BY <1>3, <1>4, <1>10, <1>11 DEF Settled

-----------------------------------------------------------------------------
(***************************************************************************)
(* What an observer of the events knows.                                    *)
(***************************************************************************)

Lines == [side : Sides, tick : Ticks, qty : Int]
Shadow ==
  [book : UNION {[D -> Lines] : D \in SUBSET Ids}, ahead : SUBSET (Ids \X Ids),
   fills : UNION {[D -> Int] : D \in SUBSET Ids}]

LineOf(o) == [side |-> o.side, tick |-> o.tick, qty |-> o.qty]

\* The observer's book is the orders of b, its order of precedence their ages.
Mirror(b, age, sh) ==
  /\ sh \in Shadow
  /\ DOMAIN sh.book = DOMAIN b.ids
  /\ \A i \in DOMAIN b.ids : sh.book[i] = LineOf(b.pool[b.ids[i]])
  /\ sh.ahead \subseteq (DOMAIN b.ids) \X (DOMAIN b.ids)
  /\ \A i, j \in DOMAIN b.ids :
       <<i, j>> \in sh.ahead <=> /\ b.pool[b.ids[i]].tick = b.pool[b.ids[j]].tick
                                 /\ age[b.ids[i]] < age[b.ids[j]]

\* What the observer has left of order id, once it lost q, in l.
Lost(sh, id, q, l) ==
  /\ l \in Shadow
  /\ IF q < sh.book[id].qty
       THEN /\ DOMAIN l.book = DOMAIN sh.book
            /\ l.book[id] = [side |-> sh.book[id].side, tick |-> sh.book[id].tick,
                             qty |-> sh.book[id].qty - q]
            /\ l.ahead = sh.ahead
       ELSE /\ DOMAIN l.book = DOMAIN sh.book \ {id}
            /\ l.ahead = {p \in sh.ahead : id \notin {p[1], p[2]}}
  /\ \A i \in DOMAIN sh.book \ {id} : l.book[i] = sh.book[i]

\* An observer knows functions of ids.
LEMMA BooksAre ==
  ASSUME NEW f
  PROVE  /\ f \in UNION {[D -> Lines] : D \in SUBSET Ids}
              <=> f \in [DOMAIN f -> Lines] /\ DOMAIN f \subseteq Ids
         /\ f \in UNION {[D -> Int] : D \in SUBSET Ids}
              <=> f \in [DOMAIN f -> Int] /\ DOMAIN f \subseteq Ids
OBVIOUS

\* The parts of what an observer knows.
LEMMA ShadowIs ==
  ASSUME NEW sh \in Shadow
  PROVE  /\ sh.book \in [DOMAIN sh.book -> Lines] /\ DOMAIN sh.book \subseteq Ids
         /\ sh.fills \in [DOMAIN sh.fills -> Int] /\ DOMAIN sh.fills \subseteq Ids
         /\ sh.ahead \in SUBSET (Ids \X Ids)
<1>1. /\ sh.book \in UNION {[D -> Lines] : D \in SUBSET Ids}
      /\ sh.fills \in UNION {[D -> Int] : D \in SUBSET Ids}
      /\ sh.ahead \in SUBSET (Ids \X Ids)
  BY DEF Shadow
<1> QED
  BY <1>1, BooksAre

\* Lose takes q from one order.
LEMMA LoseIs ==
  ASSUME NEW sh \in Shadow, NEW id \in DOMAIN sh.book, NEW q \in Int
  PROVE  Lost(sh, id, q, Lose(sh, id, q)) /\ Lose(sh, id, q).fills = sh.fills
<1> DEFINE D == DOMAIN sh.book
           o == sh.book[id]
           p == [side |-> o.side, tick |-> o.tick, qty |-> o.qty - q]
           one == [sh.book EXCEPT ![id] = p]
           two == [i \in D \ {id} |-> sh.book[i]]
           less == {x \in sh.ahead : id \notin {x[1], x[2]}}
           l == Lose(sh, id, q)
<1>1. sh.book \in [D -> Lines] /\ D \subseteq Ids /\ sh.ahead \in SUBSET (Ids \X Ids)
      /\ o \in Lines
  BY ShadowIs
<1>2. p \in Lines
  BY <1>1 DEF Lines
<1>3. [o EXCEPT !.qty = o.qty - q] = p
  <2> DEFINE e == [o EXCEPT !.qty = o.qty - q]
  <2>1. e \in Lines /\ e.side = p.side /\ e.tick = p.tick /\ e.qty = p.qty
    BY <1>1 DEF Lines
  <2> HIDE DEF e, p
  <2> QED
    BY <1>2, <2>1 DEF Lines, e
<1>4. CASE q < sh.book[id].qty
  <2>1. l = [sh EXCEPT !.book = one]
    <3>1. l = [sh EXCEPT !.book = [sh.book EXCEPT ![id] = [o EXCEPT !.qty = o.qty - q]]]
      BY <1>4 DEF Lose, Shadow
    <3> HIDE DEF l, p, o
    <3> QED
      BY <1>3, <3>1
  <2> HIDE DEF p, o, l
  <2>2. one \in [D -> Lines] /\ one[id] = p /\ \A i \in D \ {id} : one[i] = sh.book[i]
    BY <1>1, <1>2
  <2> HIDE DEF one
  <2>3. one \in UNION {[E -> Lines] : E \in SUBSET Ids}
    BY <1>1, <2>2
  <2>4. l \in Shadow /\ l.book = one /\ l.ahead = sh.ahead /\ l.fills = sh.fills
    BY <2>1, <2>3 DEF Shadow
  <2> QED
    BY <1>4, <2>2, <2>4 DEF Lost, l, o, p
<1>5. CASE ~(q < sh.book[id].qty)
  <2>1. l = [sh EXCEPT !.book = two, !.ahead = less]
    BY <1>5 DEF Lose, Shadow
  <2>2. two \in [D \ {id} -> Lines] /\ less \in SUBSET (Ids \X Ids)
        /\ \A i \in D \ {id} : two[i] = sh.book[i]
    BY <1>1
  <2> HIDE DEF two, less, o, l
  <2>3. two \in UNION {[E -> Lines] : E \in SUBSET Ids}
    BY <1>1, <2>2
  <2>4. l \in Shadow /\ l.book = two /\ l.ahead = less /\ l.fills = sh.fills
    BY <2>1, <2>2, <2>3 DEF Shadow
  <2> QED
    BY <1>5, <2>2, <2>4 DEF Lost, less, l
<1> QED
  BY <1>4, <1>5

\* Give takes q from one order, and counts it as a fill besides.
LEMMA GiveIs ==
  ASSUME NEW sh \in Shadow, NEW id \in DOMAIN sh.book, NEW q \in Int
  PROVE  Lost(sh, id, q, Give(sh, id, q))
<1> DEFINE l == Lose(sh, id, q)
           before == IF id \in DOMAIN sh.fills THEN sh.fills[id] ELSE 0
           E == DOMAIN sh.fills \union {id}
           fills == [i \in E |-> IF i = id THEN before + q ELSE sh.fills[i]]
           g == Give(sh, id, q)
<1>1. Lost(sh, id, q, l) /\ l.fills = sh.fills
  BY LoseIs
<1>2. /\ sh.fills \in [DOMAIN sh.fills -> Int] /\ DOMAIN sh.fills \subseteq Ids
      /\ DOMAIN sh.book \subseteq Ids
  BY ShadowIs
<1>3. before + q \in Int
  BY <1>2
<1> HIDE DEF l, before
<1>4. fills \in [E -> Int] /\ E \in SUBSET Ids
  BY <1>2, <1>3
<1>5. l \in Shadow
  BY <1>1 DEF Lost
<1>6. g = [l EXCEPT !.fills = fills]
  BY <1>1, <1>5 DEF Give, l, before, Shadow
<1> HIDE DEF fills, g, E
<1>7. fills \in UNION {[D -> Int] : D \in SUBSET Ids}
  BY <1>4
<1>8. g \in Shadow /\ g.book = l.book /\ g.ahead = l.ahead
  BY <1>5, <1>6, <1>7 DEF Shadow
<1> QED
  BY <1>1, <1>8 DEF Lost, g

\* Order id joins the back of its level in l.
Joined(sh, id, line, l) ==
  /\ l \in Shadow
  /\ DOMAIN l.book = DOMAIN sh.book \union {id}
  /\ l.book[id] = line /\ \A i \in DOMAIN sh.book \ {id} : l.book[i] = sh.book[i]
  /\ l.ahead = sh.ahead \union
       {<<i, id>> : i \in {j \in DOMAIN sh.book : sh.book[j].tick = line.tick}}

\* Join puts the order behind those at its price.
LEMMA JoinIs ==
  ASSUME NEW sh \in Shadow, NEW id \in Ids, NEW side \in Sides, NEW tick \in Ticks, NEW qty \in Int,
         NEW e, e.id = id, e.side = side, e.tick = tick, e.qty = qty
  PROVE  Joined(sh, id, [side |-> side, tick |-> tick, qty |-> qty], Join(sh, e))
<1> DEFINE D == DOMAIN sh.book
           line == [side |-> side, tick |-> tick, qty |-> qty]
           book == [i \in D \union {id} |-> IF i = id THEN line ELSE sh.book[i]]
           more == {<<i, id>> : i \in {j \in D : sh.book[j].tick = tick}}
           l == Join(sh, e)
<1>1. sh.book \in [D -> Lines] /\ D \subseteq Ids /\ sh.ahead \in SUBSET (Ids \X Ids)
  BY ShadowIs
<1>2. line \in Lines /\ line.tick = tick
  BY DEF Lines
<1> DEFINE given == [side |-> e.side, tick |-> e.tick, qty |-> e.qty]
<1>3. given = line
  OBVIOUS
<1>4. l = [sh EXCEPT !.book = book, !.ahead = sh.ahead \union more]
  <2>1. l = [sh EXCEPT !.book = [i \in D \union {id} |-> IF i = id THEN given ELSE sh.book[i]],
                       !.ahead = sh.ahead \union more]
    BY DEF Join, Shadow
  <2> HIDE DEF given, line, l, more
  <2> QED
    BY <1>3, <2>1
<1> HIDE DEF line, l
<1>5. /\ book \in [D \union {id} -> Lines] /\ D \union {id} \subseteq Ids
      /\ book[id] = line /\ \A i \in D \ {id} : book[i] = sh.book[i]
  BY <1>1, <1>2
<1>6. sh.ahead \union more \in SUBSET (Ids \X Ids)
  BY <1>1
<1> HIDE DEF book, more
<1>7. book \in UNION {[E -> Lines] : E \in SUBSET Ids}
  BY <1>5
<1>8. l \in Shadow /\ l.book = book /\ l.ahead = sh.ahead \union more
  BY <1>4, <1>6, <1>7 DEF Shadow
<1> QED
  BY <1>2, <1>5, <1>8 DEF Joined, l, more, line

-----------------------------------------------------------------------------
(***************************************************************************)
(* The observer keeps up with each change of the book.                      *)
(***************************************************************************)

\* What the index says of the orders.
LEMMA NamedIs ==
  ASSUME NEW b \in Book, Sound(b), Indexed(b), NEW i \in DOMAIN b.ids
  PROVE  /\ b.ids[i] \in LiveSlots(b) /\ b.ids[i] \in Slots /\ b.pool[b.ids[i]].id = i /\ i \in Ids
         /\ b.pool[b.ids[i]].qty \in Nat \ {0} /\ b.pool[b.ids[i]] \in SlotType
<1>1. b.ids[i] \in LiveSlots(b) /\ b.pool[b.ids[i]].id = i
  BY DEF Indexed
<1>2. b.ids \in Index
  BY DEF Book
<1>3. DOMAIN b.ids \subseteq Ids
  BY <1>2, IndexIs
<1>4. b.ids[i] \in Slots /\ b.pool[b.ids[i]] \in SlotType /\ b.pool[b.ids[i]].qty \in Nat \ {0}
  BY <1>1, OrderIs
<1> QED
  BY <1>1, <1>3, <1>4

\* Only the order under an id is in the slot of that id.
LEMMA OthersElsewhere ==
  ASSUME NEW b \in Book, Sound(b), Indexed(b), NEW s \in LiveSlots(b)
  PROVE  \A i \in DOMAIN b.ids \ {b.pool[s].id} : b.ids[i] # s
<1>1. \A i \in DOMAIN b.ids : b.pool[b.ids[i]].id = i
  BY NamedIs
<1> QED
  BY <1>1

\* A book with the same orders under the same ids is mirrored as well.
LEMMA MirrorSame ==
  ASSUME NEW b, NEW c, NEW age, NEW sh, Mirror(b, age, sh), c.ids = b.ids,
         \A i \in DOMAIN b.ids : LineOf(c.pool[b.ids[i]]) = LineOf(b.pool[b.ids[i]])
  PROVE  Mirror(c, age, sh)
<1>1. \A i \in DOMAIN b.ids : c.pool[b.ids[i]].tick = b.pool[b.ids[i]].tick
  BY DEF LineOf
<1> QED
  BY <1>1 DEF Mirror

\* When an order goes, and the observer hears that it lost all it had.
LEMMA RemovalMirror ==
  ASSUME NEW b, NEW age, NEW now, NEW M, Kept(b, age, now, M), NEW sh, Mirror(b, age, sh),
         NEW s \in LiveSlots(b), NEW q \in Int, q >= b.pool[s].qty,
         NEW l, Lost(sh, b.pool[s].id, q, l)
  PROVE  Mirror(Removal(b, s), Renewed(age, s, now), l)
<1> DEFINE c == Removal(b, s)
           id == b.pool[s].id
           D == DOMAIN b.ids
           new == Renewed(age, s, now)
<1>1. b \in Book /\ Sound(b) /\ Indexed(b) /\ Aged(age, now)
  BY DEF Kept
<1>2. /\ s \in Slots /\ id \in D /\ b.ids[id] = s /\ b.pool[s].qty \in Nat
  BY <1>1, OrderIs
<1>3. DOMAIN c.ids = D \ {id} /\ \A i \in D \ {id} : c.ids[i] = b.ids[i]
  BY <1>1, RemovalFields
<1>4. SameOrders(b, c, LiveSlots(b) \ {s})
  BY <1>1, RemovalOrders
<1> HIDE DEF c, new
<1>5. ASSUME NEW i \in D \ {id}
      PROVE  /\ LineOf(c.pool[c.ids[i]]) = LineOf(b.pool[b.ids[i]])
             /\ c.pool[c.ids[i]].tick = b.pool[b.ids[i]].tick
             /\ new[c.ids[i]] = age[b.ids[i]]
  <2>1. b.ids[i] \in LiveSlots(b) \ {s} /\ b.ids[i] \in Slots
    BY <1>1, NamedIs, OthersElsewhere
  <2>2. new[b.ids[i]] = age[b.ids[i]]
    BY <1>1, <1>2, <2>1, RenewedIs DEF new
  <2> QED
    BY <1>3, <1>4, <2>1, <2>2 DEF SameOrders, LineOf
<1>6. sh.book[id].qty = b.pool[s].qty /\ DOMAIN sh.book = D
  <2>1. sh.book[id] = LineOf(b.pool[s]) /\ DOMAIN sh.book = D
    BY <1>2 DEF Mirror
  <2> QED
    BY <2>1 DEF LineOf
<1>7. /\ l \in Shadow /\ DOMAIN l.book = D \ {id}
      /\ l.ahead = {p \in sh.ahead : id \notin {p[1], p[2]}}
      /\ \A i \in D \ {id} : l.book[i] = sh.book[i]
  BY <1>2, <1>6 DEF Lost
<1>8. \A i \in D \ {id} : l.book[i] = LineOf(c.pool[c.ids[i]])
  BY <1>5, <1>7 DEF Mirror
<1>9. sh.ahead \subseteq D \X D
  BY DEF Mirror
<1>10. l.ahead \subseteq (D \ {id}) \X (D \ {id})
  BY <1>7, <1>9
<1>11. ASSUME NEW i \in D \ {id}, NEW j \in D \ {id}
       PROVE  <<i, j>> \in l.ahead <=> /\ c.pool[c.ids[i]].tick = c.pool[c.ids[j]].tick
                                       /\ new[c.ids[i]] < new[c.ids[j]]
  <2>1. <<i, j>> \in l.ahead <=> <<i, j>> \in sh.ahead
    BY <1>7
  <2>2. <<i, j>> \in sh.ahead <=> /\ b.pool[b.ids[i]].tick = b.pool[b.ids[j]].tick
                                  /\ age[b.ids[i]] < age[b.ids[j]]
    BY DEF Mirror
  <2> QED
    BY <1>5, <2>1, <2>2
<1> QED
  BY <1>3, <1>7, <1>8, <1>10, <1>11 DEF Mirror, c, new

\* When an order shrinks, and the observer hears by how much.
LEMMA ShrunkMirror ==
  ASSUME NEW b, NEW age, NEW now, NEW M, Kept(b, age, now, M), NEW sh, Mirror(b, age, sh),
         NEW s \in LiveSlots(b), NEW d \in Nat, d < b.pool[s].qty,
         NEW l, Lost(sh, b.pool[s].id, d, l)
  PROVE  Mirror(Shrunk(b, s, d), age, l)
<1> DEFINE c == Shrunk(b, s, d)
           id == b.pool[s].id
           D == DOMAIN b.ids
<1>1. b \in Book /\ Sound(b) /\ Indexed(b) /\ Aged(age, now)
  BY DEF Kept
<1>2. /\ s \in Slots /\ id \in D /\ b.ids[id] = s /\ b.pool[s].qty \in Nat
  BY <1>1, OrderIs
<1>3. /\ c.ids = b.ids /\ c.pool[s].qty = b.pool[s].qty - d /\ SameSlot(c.pool[s], b.pool[s])
      /\ \A r \in Slots \ {s} : c.pool[r] = b.pool[r]
  BY <1>1, ShrunkFields
<1> HIDE DEF c
<1>4. DOMAIN sh.book = D /\ sh.book[id] = LineOf(b.pool[s])
  BY <1>2 DEF Mirror
<1>5. /\ l \in Shadow /\ DOMAIN l.book = D /\ l.ahead = sh.ahead
      /\ l.book[id] = LineOf(c.pool[s])
      /\ \A i \in D \ {id} : l.book[i] = sh.book[i]
  BY <1>2, <1>3, <1>4 DEF Lost, LineOf, SameSlot
<1>6. ASSUME NEW i \in D
      PROVE  /\ l.book[i] = LineOf(c.pool[b.ids[i]])
             /\ c.pool[b.ids[i]].tick = b.pool[b.ids[i]].tick
  <2>1. CASE i = id
    BY <1>2, <1>3, <1>5, <2>1 DEF SameSlot
  <2>2. CASE i # id
    <3>1. b.ids[i] \in Slots \ {s}
      BY <1>1, <2>2, NamedIs, OthersElsewhere
    <3>2. sh.book[i] = LineOf(b.pool[b.ids[i]])
      BY DEF Mirror
    <3> QED
      BY <1>3, <1>5, <2>2, <3>1, <3>2
  <2> QED
    BY <2>1, <2>2
<1> QED
  BY <1>3, <1>5, <1>6 DEF Mirror, c

\* When an order enters, and the observer hears of it.
LEMMA EntryMirror ==
  ASSUME NEW b, NEW age, NEW now, NEW M, Kept(b, age, now, M), NEW sh, Mirror(b, age, sh),
         b.free_head \in Slots,
         NEW c, NEW id \in Ids \ DOMAIN b.ids, NEW side \in Sides, NEW tick \in Ticks,
         NEW qty \in Nat \ {0}, Entry(b, c, id, side, tick, qty),
         NEW l, Joined(sh, id, [side |-> side, tick |-> tick, qty |-> qty], l)
  PROVE  Mirror(c, Renewed(age, b.free_head, now), l)
<1> DEFINE s == b.free_head
           D == DOMAIN b.ids
           new == Renewed(age, s, now)
<1>1. b \in Book /\ Sound(b) /\ Indexed(b) /\ Aged(age, now)
  BY DEF Kept
<1>2. s \in Slots \ LiveSlots(b)
  BY EntryOrders
<1>3. /\ DOMAIN c.ids = D \union {id} /\ c.ids[id] = s /\ \A i \in D : c.ids[i] = b.ids[i]
      /\ LineOf(c.pool[s]) = [side |-> side, tick |-> tick, qty |-> qty]
      /\ c.pool[s].tick = tick
      /\ \A r \in Slots \ {s} : LineOf(c.pool[r]) = LineOf(b.pool[r])
                                /\ c.pool[r].tick = b.pool[r].tick
  BY <1>2 DEF Entry, Resting, SameButNext, LineOf
<1>4. /\ DOMAIN sh.book = D /\ sh.ahead \subseteq D \X D
      /\ \A i \in D : sh.book[i] = LineOf(b.pool[b.ids[i]])
  BY DEF Mirror
<1>5. /\ l \in Shadow /\ DOMAIN l.book = D \union {id}
      /\ l.book[id] = [side |-> side, tick |-> tick, qty |-> qty]
      /\ \A i \in D : l.book[i] = sh.book[i]
      /\ l.ahead = sh.ahead \union {<<i, id>> : i \in {j \in D : sh.book[j].tick = tick}}
  BY <1>4 DEF Joined
<1>6. ASSUME NEW i \in D
      PROVE  /\ b.ids[i] \in Slots \ {s}
             /\ new[b.ids[i]] = age[b.ids[i]] /\ age[b.ids[i]] < now
             /\ age[b.ids[i]] \in Nat
             /\ sh.book[i].tick = b.pool[b.ids[i]].tick
  <2>1. b.ids[i] \in Slots \ {s}
    BY <1>1, <1>2, NamedIs
  <2>2. new[b.ids[i]] = age[b.ids[i]]
    BY <1>1, <1>2, <2>1, RenewedIs
  <2>3. \A r \in Slots : age[r] < now /\ age[r] \in Nat
    BY <1>1 DEF Aged
  <2>4. sh.book[i] = LineOf(b.pool[b.ids[i]])
    BY <1>4
  <2>5. sh.book[i].tick = b.pool[b.ids[i]].tick
    BY <2>4 DEF LineOf
  <2>6. b.ids[i] \in Slots
    BY <2>1
  <2>7. age[b.ids[i]] < now /\ age[b.ids[i]] \in Nat
    BY <2>3, <2>6
  <2> QED
    BY <2>1, <2>2, <2>5, <2>7
<1>7. new[s] = now /\ now \in Nat
  <2>1. now \in Nat
    BY <1>1 DEF Aged
  <2>2. s \in Slots
    BY <1>2
  <2>3. new[s] = now
    BY <1>1, <2>2, RenewedIs
  <2> QED
    BY <2>1, <2>3
<1> HIDE DEF new
<1>8. \A i \in D \union {id} : l.book[i] = LineOf(c.pool[c.ids[i]])
  BY <1>3, <1>4, <1>5, <1>6
<1>9. l.ahead \subseteq (D \union {id}) \X (D \union {id})
  BY <1>4, <1>5
<1>10. ASSUME NEW i \in D \union {id}, NEW j \in D \union {id}
       PROVE  <<i, j>> \in l.ahead <=> /\ c.pool[c.ids[i]].tick = c.pool[c.ids[j]].tick
                                       /\ new[c.ids[i]] < new[c.ids[j]]
  <2>1. CASE i \in D /\ j \in D
    <3>1. <<i, j>> \in sh.ahead <=> /\ b.pool[b.ids[i]].tick = b.pool[b.ids[j]].tick
                                    /\ age[b.ids[i]] < age[b.ids[j]]
      BY <2>1 DEF Mirror
    <3>2. j # id
      BY <2>1
    <3>3. <<i, j>> \in l.ahead <=> <<i, j>> \in sh.ahead
      BY <1>5, <3>2
    <3> QED
      BY <1>3, <1>6, <2>1, <3>1, <3>3
  <2>2. CASE i \in D /\ j = id
    <3>1. <<i, j>> \notin sh.ahead
      BY <1>4, <2>2
    <3>2. <<i, j>> \in l.ahead <=> sh.book[i].tick = tick
      BY <1>5, <2>2, <3>1
    <3>3. /\ c.pool[c.ids[i]].tick = sh.book[i].tick /\ c.pool[c.ids[j]].tick = tick
          /\ new[c.ids[i]] < new[c.ids[j]]
      BY <1>3, <1>6, <1>7, <2>2
    <3> QED
      BY <3>2, <3>3
  <2>3. CASE i = id /\ j \in D
    <3>1. <<i, j>> \notin l.ahead
      BY <1>4, <1>5, <2>3
    <3>2. ~(new[c.ids[i]] < new[c.ids[j]])
      BY <1>3, <1>6, <1>7, <2>3
    <3> QED
      BY <3>1, <3>2
  <2>4. CASE i = id /\ j = id
    <3>1. <<i, j>> \notin l.ahead
      BY <1>4, <1>5, <2>4
    <3>2. ~(new[c.ids[i]] < new[c.ids[j]])
      BY <1>3, <1>7, <2>4
    <3> QED
      BY <3>1, <3>2
  <2> QED
    BY <2>1, <2>2, <2>3, <2>4
<1> QED
  BY <1>3, <1>5, <1>8, <1>9, <1>10 DEF Mirror, new

\* The slots with their links, and the observer's book, agree with each other.
Faithful(b, sh) == \E age, now, M : Kept(b, age, now, M) /\ Mirror(b, age, sh)

\* What follows of the orders and the index.
LEMMA FaithfulIs ==
  ASSUME NEW b, NEW sh, Faithful(b, sh)
  PROVE  /\ b \in Book /\ Sound(b) /\ Indexed(b) /\ sh \in Shadow
         /\ DOMAIN sh.book = DOMAIN b.ids
         /\ \A i \in DOMAIN b.ids : sh.book[i] = LineOf(b.pool[b.ids[i]])
BY DEF Faithful, Kept, Mirror

\* The bitmap and the best prices are none of the observer's business.
LEMMA FaithfulStore ==
  ASSUME NEW b, NEW sh, Faithful(b, sh), NEW c \in Book, SameStore(b, c)
  PROVE  Faithful(c, sh)
<1>1. PICK age, now, M : Kept(b, age, now, M) /\ Mirror(b, age, sh)
  BY DEF Faithful
<1>2. Kept(c, age, now, M)
  BY <1>1, StoreIs
<1>3. Mirror(c, age, sh)
  BY <1>1, MirrorSame DEF SameStore
<1> QED
  BY <1>2, <1>3 DEF Faithful

\* An order goes.
LEMMA FaithfulRemoval ==
  ASSUME NEW b, NEW sh, Faithful(b, sh), NEW s \in LiveSlots(b), NEW q \in Int,
         q >= b.pool[s].qty, NEW l, Lost(sh, b.pool[s].id, q, l)
  PROVE  Faithful(Removal(b, s), l)
<1>1. PICK age, now, M : Kept(b, age, now, M) /\ Mirror(b, age, sh)
  BY DEF Faithful
<1>2. Kept(Removal(b, s), Renewed(age, s, now), now + 1, Reweighed(M, s, b.pool[s].qty, 0))
  BY <1>1, RemovalIs
<1>3. Mirror(Removal(b, s), Renewed(age, s, now), l)
  BY <1>1, RemovalMirror
<1> QED
  BY <1>2, <1>3 DEF Faithful

\* An order shrinks.
LEMMA FaithfulShrunk ==
  ASSUME NEW b, NEW sh, Faithful(b, sh), NEW s \in LiveSlots(b), NEW d \in Nat,
         d < b.pool[s].qty, NEW l, Lost(sh, b.pool[s].id, d, l)
  PROVE  Faithful(Shrunk(b, s, d), l)
<1>1. PICK age, now, M : Kept(b, age, now, M) /\ Mirror(b, age, sh)
  BY DEF Faithful
<1>2. Kept(Shrunk(b, s, d), age, now, Reweighed(M, s, b.pool[s].qty, b.pool[s].qty - d))
  BY <1>1, ShrunkIs
<1>3. Mirror(Shrunk(b, s, d), age, l)
  BY <1>1, ShrunkMirror
<1> QED
  BY <1>2, <1>3 DEF Faithful

\* An order enters.
LEMMA FaithfulEntry ==
  ASSUME NEW b, NEW sh, Faithful(b, sh), b.free_head \in Slots,
         NEW c, NEW id \in Ids \ DOMAIN b.ids, NEW side \in Sides, NEW tick \in Ticks,
         NEW qty \in Nat \ {0}, Entry(b, c, id, side, tick, qty),
         NEW l, Joined(sh, id, [side |-> side, tick |-> tick, qty |-> qty], l)
  PROVE  Faithful(c, l)
<1>1. PICK age, now, M : Kept(b, age, now, M) /\ Mirror(b, age, sh)
  BY DEF Faithful
<1> DEFINE s == b.free_head
<1>2. Kept(c, Renewed(age, s, now), now + 1, Reweighed(M, s, b.pool[s].qty, qty))
  BY <1>1, EntryKept
<1>3. Mirror(c, Renewed(age, s, now), l)
  BY <1>1, EntryMirror
<1> QED
  BY <1>2, <1>3 DEF Faithful

-----------------------------------------------------------------------------
(***************************************************************************)
(* Folds: what an observer makes of a list of events, and what the slots of *)
(* a queue weigh.                                                           *)
(***************************************************************************)

\* One step of either fold.
Do(kind, b, x, y) == IF kind = "hear" THEN Observe(x, y) ELSE x + b.pool[y].qty

\* What FoldLeft does with the list q from v on.
Folds(g, kind, b, v, q, k) ==
  g = [s \in SUBSET (1 .. k) |->
         IF s = {} THEN v ELSE Do(kind, b, g[s \ {Max(s)}], q[Max(s)])]

\* There is such a function for every list: take the first length for which there is
\* none.
LEMMA FoldExists ==
  ASSUME NEW kind, NEW b, NEW v, NEW q, NEW n \in Nat
  PROVE  \E g : Folds(g, kind, b, v, q, n)
<1> DEFINE T == {k \in Nat : ~ \E g : Folds(g, kind, b, v, q, k)}
<1> SUFFICES ASSUME T # {} PROVE FALSE
  OBVIOUS
<1>1. PICK k \in T : \A j \in T : k <= j
  BY LeastNat
<1>2. k # 0
  <2> DEFINE g == [s \in SUBSET (1 .. 0) |-> v]
  <2>1. \A s \in SUBSET (1 .. 0) : s = {}
    OBVIOUS
  <2>2. Folds(g, kind, b, v, q, 0)
    BY <2>1 DEF Folds
  <2> QED
    BY <2>2
<1>3. k \in Nat /\ k - 1 \in Nat /\ k - 1 \notin T
  <2>1. k \in Nat
    BY <1>1
  <2>2. k - 1 \in Nat /\ ~(k <= k - 1)
    BY <1>2, <2>1
  <2> QED
    BY <1>1, <2>1, <2>2
<1>4. PICK h : Folds(h, kind, b, v, q, k - 1)
  BY <1>3
<1> DEFINE g == [s \in SUBSET (1 .. k) |->
                   IF k \in s THEN Do(kind, b, h[s \ {k}], q[k]) ELSE h[s]]
<1>5. ASSUME NEW s \in SUBSET (1 .. k), k \notin s
      PROVE  s \in SUBSET (1 .. k - 1)
  BY <1>1, <1>5
<1>6. ASSUME NEW s \in SUBSET (1 .. k)
      PROVE  g[s] = IF s = {} THEN v ELSE Do(kind, b, g[s \ {Max(s)}], q[Max(s)])
  <2>1. CASE k \in s
    <3>1. k \in s /\ \A y \in s : k >= y
      BY <1>1, <2>1
    <3>2. \A x \in s : (\A y \in s : x >= y) => x = k
      BY <1>1, <2>1
    <3>3. Max(s) = k
      BY <3>1, <3>2 DEF Max
    <3>4. s \ {k} \in SUBSET (1 .. k) /\ k \notin s \ {k}
      OBVIOUS
    <3>5. g[s \ {k}] = h[s \ {k}]
      BY <3>4
    <3> QED
      BY <2>1, <3>3, <3>5
  <2>2. CASE k \notin s
    <3>1. s \in SUBSET (1 .. k - 1) /\ g[s] = h[s]
      BY <1>5, <2>2
    <3>2. h[s] = IF s = {} THEN v ELSE Do(kind, b, h[s \ {Max(s)}], q[Max(s)])
      BY <1>4, <3>1 DEF Folds
    <3>3. s \ {Max(s)} \in SUBSET (1 .. k) /\ k \notin s \ {Max(s)}
      BY <2>2
    <3>4. g[s \ {Max(s)}] = h[s \ {Max(s)}]
      BY <3>3
    <3> QED
      BY <3>1, <3>2, <3>4
  <2> QED
    BY <2>1, <2>2
<1>7. Folds(g, kind, b, v, q, k)
  <2> HIDE DEF g
  <2>1. g = [s \in SUBSET (1 .. k) |-> g[s]]
    BY DEF g
  <2> QED
    BY <1>6, <2>1 DEF Folds
<1> QED
  BY <1>1, <1>7

\* The greatest of the first k numbers, and what is left without it.
LEMMA PrefixIs ==
  ASSUME NEW n \in Nat, NEW k \in 1 .. n
  PROVE  /\ 1 .. k \in SUBSET (1 .. n) /\ 1 .. k # {} /\ k - 1 \in 0 .. n /\ k \in 0 .. n
         /\ Max(1 .. k) = k /\ (1 .. k) \ {k} = 1 .. k - 1
<1>1. k \in Nat /\ 1 <= k /\ k <= n
  OBVIOUS
<1>2. 1 \in 1 .. k /\ \A x \in 1 .. k : x \in 1 .. n
  BY <1>1
<1>3. k \in 1 .. k /\ \A y \in 1 .. k : k >= y
  OBVIOUS
<1>4. \A x \in 1 .. k : (\A y \in 1 .. k : x >= y) => x = k
  OBVIOUS
<1>5. Max(1 .. k) = k
  BY <1>3, <1>4 DEF Max
<1>6. (1 .. k) \ {k} = 1 .. k - 1
  OBVIOUS
<1> QED
  BY <1>1, <1>2, <1>5, <1>6

\* What an observer that kept sh makes of the events; what the slots in q weigh.
Told(sh, events) == FoldLeft(Observe, sh, events)
Sum(b, q) == FoldLeft(LAMBDA n, s : n + b.pool[s].qty, 0, q)

\* What there is after each of the list q.
Carries(F, kind, b, v, q, n) ==
  F[0] = v /\ \A k \in 1 .. n : F[k] = Do(kind, b, F[k - 1], q[k])

Hears(g, b, v, q, k) ==
  g = [s \in SUBSET (1 .. k) |-> IF s = {} THEN v ELSE Observe(g[s \ {Max(s)}], q[Max(s)])]
Adds(g, b, v, q, k) ==
  g = [s \in SUBSET (1 .. k) |-> IF s = {} THEN v ELSE g[s \ {Max(s)}] + b.pool[q[Max(s)]].qty]

\* A fold over a list is a walk along it.
LEMMA FoldCarries ==
  ASSUME NEW kind, NEW b, NEW v, NEW q, NEW n \in Nat, NEW g, Folds(g, kind, b, v, q, n)
  PROVE  Carries([k \in 0 .. n |-> g[1 .. k]], kind, b, v, q, n)
<1> DEFINE F == [k \in 0 .. n |-> g[1 .. k]]
<1>3. F[0] = v
  <2>1. 1 .. 0 = {} /\ {} \in SUBSET (1 .. n) /\ 0 \in 0 .. n
    OBVIOUS
  <2>2. g[{}] = v
    BY <2>1 DEF Folds
  <2> QED
    BY <2>1, <2>2
<1>4. ASSUME NEW k \in 1 .. n
      PROVE  F[k] = Do(kind, b, F[k - 1], q[k])
  <2>1. /\ 1 .. k \in SUBSET (1 .. n) /\ 1 .. k # {} /\ k - 1 \in 0 .. n /\ k \in 0 .. n
        /\ Max(1 .. k) = k /\ (1 .. k) \ {k} = 1 .. k - 1
    BY PrefixIs
  <2>2. g[1 .. k] = Do(kind, b, g[1 .. k - 1], q[k])
    BY <2>1 DEF Folds
  <2> QED
    BY <2>1, <2>2
<1> QED
  BY <1>3, <1>4 DEF Carries

\* What an observer is told, as a walk along the events.
LEMMA ToldCarries ==
  ASSUME NEW v, NEW q, NEW n \in Nat, DOMAIN q = 1 .. n
  PROVE  \E F : Carries(F, "hear", 0, v, q, n) /\ F[n] = Told(v, q)
<1> DEFINE p == CHOOSE g : Hears(g, 0, v, q, n)
           F == [k \in 0 .. n |-> p[1 .. k]]
<1>1. PICK f : Folds(f, "hear", 0, v, q, n)
  BY FoldExists
<1>2. Hears(f, 0, v, q, n)
  BY <1>1 DEF Folds, Hears, Do
<1>3. Hears(p, 0, v, q, n)
  BY <1>2
<1>4. Told(v, q) = p[1 .. n]
  BY DEF FoldLeft, MapThenFoldSet, Hears, Told
<1> HIDE DEF p
<1>5. Folds(p, "hear", 0, v, q, n)
  BY <1>3 DEF Folds, Hears, Do
<1>6. Carries(F, "hear", 0, v, q, n) /\ F[n] = p[1 .. n]
  BY <1>5, FoldCarries
<1> QED
  BY <1>4, <1>6

\* What a list of slots adds up to, as a walk along it.
LEMMA SumCarries ==
  ASSUME NEW b, NEW q, NEW n \in Nat, DOMAIN q = 1 .. n
  PROVE  \E F : Carries(F, "weigh", b, 0, q, n) /\ F[n] = Sum(b, q)
<1> DEFINE p == CHOOSE g : Adds(g, b, 0, q, n)
           F == [k \in 0 .. n |-> p[1 .. k]]
<1>1. PICK f : Folds(f, "weigh", b, 0, q, n)
  BY FoldExists
<1>2. Adds(f, b, 0, q, n)
  BY <1>1 DEF Folds, Adds, Do
<1>3. Adds(p, b, 0, q, n)
  BY <1>2
<1>4. Sum(b, q) = p[1 .. n]
  BY DEF FoldLeft, MapThenFoldSet, Adds, Sum
<1> HIDE DEF p
<1>5. Folds(p, "weigh", b, 0, q, n)
  BY <1>3 DEF Folds, Adds, Do
<1>6. Carries(F, "weigh", b, 0, q, n) /\ F[n] = p[1 .. n]
  BY <1>5, FoldCarries
<1> QED
  BY <1>4, <1>6

\* Two folds that start alike and see the same agree.
LEMMA CarriesAgree ==
  ASSUME NEW kind, NEW b, NEW v, NEW q, NEW r, NEW n \in Nat, NEW m \in Nat, n <= m,
         NEW F, Carries(F, kind, b, v, q, n), NEW G, Carries(G, kind, b, v, r, m),
         \A k \in 1 .. n : q[k] = r[k]
  PROVE  \A k \in 0 .. n : F[k] = G[k]
<1> DEFINE T == {k \in 0 .. n : F[k] # G[k]}
<1> SUFFICES ASSUME T # {} PROVE FALSE
  OBVIOUS
<1>1. PICK k \in T : \A j \in T : k <= j
  <2>1. T \subseteq Nat
    OBVIOUS
  <2> HIDE DEF T
  <2> QED
    BY <2>1, LeastNat
<1>2. k \in 0 .. n /\ F[k] # G[k]
  BY <1>1
<1>3. k # 0
  BY <1>2 DEF Carries
<1>4. k \in 1 .. n /\ k \in 1 .. m /\ k - 1 \in 0 .. n /\ ~(k <= k - 1)
  BY <1>2, <1>3
<1>5. F[k - 1] = G[k - 1]
  BY <1>1, <1>4
<1> QED
  BY <1>2, <1>4, <1>5 DEF Carries

IsList(es) == \E S : es \in Seq(S)

\* A list and its last event.
LEMMA ListIs ==
  ASSUME NEW es, IsList(es), NEW e
  PROVE  /\ Len(es) \in Nat /\ DOMAIN es = 1 .. Len(es)
         /\ IsList(Append(es, e)) /\ DOMAIN Append(es, e) = 1 .. Len(es) + 1
         /\ \A k \in 1 .. Len(es) : Append(es, e)[k] = es[k]
         /\ Append(es, e)[Len(es) + 1] = e
<1>1. PICK S : es \in Seq(S)
  BY DEF IsList
<1>2. Len(es) \in Nat /\ es \in [1 .. Len(es) -> S]
  BY <1>1
<1>3. es \in [1 .. Len(es) -> S \union {e}]
  BY <1>2
<1>4. es \in Seq(S \union {e})
  BY <1>2, <1>3
<1>5. Append(es, e) \in Seq(S \union {e}) /\ Len(Append(es, e)) = Len(es) + 1
      /\ \A k \in 1 .. Len(es) : Append(es, e)[k] = es[k]
      /\ Append(es, e)[Len(es) + 1] = e
  BY <1>4
<1> QED
  BY <1>2, <1>5 DEF IsList

\* A list of no events tells nothing.
LEMMA NoneIs == IsList(<<>>) /\ \A sh : Told(sh, <<>>) = sh
<1>1. <<>> \in Seq({}) /\ DOMAIN <<>> = 1 .. 0
  OBVIOUS
<1>2. ASSUME NEW sh PROVE Told(sh, <<>>) = sh
  <2>1. PICK F : Carries(F, "hear", 0, sh, <<>>, 0) /\ F[0] = Told(sh, <<>>)
    BY <1>1, ToldCarries
  <2> QED
    BY <2>1 DEF Carries
<1> QED
  BY <1>1, <1>2 DEF IsList

\* An event more is observed after all the others.
LEMMA ToldMore ==
  ASSUME NEW sh, NEW es, IsList(es), NEW e
  PROVE  Told(sh, Append(es, e)) = Observe(Told(sh, es), e) /\ IsList(Append(es, e))
<1> DEFINE n == Len(es)
           fs == Append(es, e)
<1>1. /\ n \in Nat /\ DOMAIN es = 1 .. n /\ DOMAIN fs = 1 .. n + 1
      /\ \A k \in 1 .. n : fs[k] = es[k]
      /\ fs[n + 1] = e /\ IsList(fs)
  BY ListIs
<1> HIDE DEF n, fs
<1>2. PICK F : Carries(F, "hear", 0, sh, es, n) /\ F[n] = Told(sh, es)
  BY <1>1, ToldCarries
<1>3. n + 1 \in Nat /\ n <= n + 1 /\ n + 1 \in 1 .. n + 1 /\ n \in 0 .. n /\ n + 1 - 1 = n
  BY <1>1
<1>4. PICK G : Carries(G, "hear", 0, sh, fs, n + 1) /\ G[n + 1] = Told(sh, fs)
  BY <1>1, <1>3, ToldCarries
<1>5. F[n] = G[n]
  BY <1>1, <1>2, <1>3, <1>4, CarriesAgree
<1>6. G[n + 1] = Observe(G[n], e)
  BY <1>1, <1>3, <1>4 DEF Carries, Do
<1> QED
  BY <1>1, <1>2, <1>4, <1>5, <1>6 DEF fs

-----------------------------------------------------------------------------
(***************************************************************************)
(* Loops: each is a function of the number of passes.                       *)
(***************************************************************************)

\* One level further on available's walk.
Onward(w, b, side, limit) ==
  IF w.at = Npos \/ ~Reaches(side, limit, TickOf(w.at)) THEN w
  ELSE [at |-> Beyond(b, side, w.at), qty |-> w.qty + b.levels[w.at].qty]

\* One pass of a loop: of match's inner loop at level x, of its outer one for side x
\* and limit y, of available's walk over book x for side y[1] and limit y[2], along the
\* links of book x.
Pass(kind, m, x, y) ==
  CASE kind = "level" -> TakeOnce(m, x)
    [] kind = "match" -> MatchBest(m, x, y)
    [] kind = "walk"  -> Onward(m, x, y[1], y[2])
    [] kind = "next"  -> IF m = NullSlot THEN m ELSE x.pool[m].next
    [] OTHER          -> IF m = NullSlot THEN m ELSE x.pool[m].prev

Passes(f, kind, m, x, y, n) ==
  f = [k \in 0 .. n |-> IF k = 0 THEN m ELSE Pass(kind, f[k - 1], x, y)]

\* There is such a function for every number of passes.
LEMMA PassesExist ==
  ASSUME NEW kind, NEW m, NEW x, NEW y, NEW n \in Nat
  PROVE  \E f : Passes(f, kind, m, x, y, n)
<1> DEFINE T == {k \in Nat : ~ \E f : Passes(f, kind, m, x, y, k)}
<1> SUFFICES ASSUME T # {} PROVE FALSE
  OBVIOUS
<1>1. PICK k \in T : \A j \in T : k <= j
  <2>1. T \subseteq Nat
    OBVIOUS
  <2> HIDE DEF T
  <2> QED
    BY <2>1, LeastNat
<1>2. k # 0
  <2> DEFINE f == [i \in 0 .. 0 |-> m]
  <2>1. Passes(f, kind, m, x, y, 0)
    BY DEF Passes
  <2> QED
    BY <2>1
<1>3. k \in Nat /\ k - 1 \in Nat /\ k - 1 \notin T
  <2>1. k \in Nat
    BY <1>1
  <2>2. k - 1 \in Nat /\ ~(k <= k - 1)
    BY <1>2, <2>1
  <2> QED
    BY <1>1, <2>1, <2>2
<1>4. PICK h : Passes(h, kind, m, x, y, k - 1)
  BY <1>3
<1> DEFINE f == [i \in 0 .. k |-> IF i = k THEN Pass(kind, h[k - 1], x, y) ELSE h[i]]
<1>5. ASSUME NEW i \in 0 .. k
      PROVE  f[i] = IF i = 0 THEN m ELSE Pass(kind, f[i - 1], x, y)
  <2>1. i # 0 => i - 1 \in 0 .. k - 1 /\ i - 1 \in 0 .. k /\ i - 1 # k
    BY <1>3
  <2>2. i # k => i \in 0 .. k - 1
    BY <1>3
  <2>3. CASE i = k
    BY <1>2, <2>1, <2>3
  <2>4. CASE i # k
    <3>1. h[i] = IF i = 0 THEN m ELSE Pass(kind, h[i - 1], x, y)
      BY <1>4, <2>2, <2>4 DEF Passes
    <3> QED
      BY <2>1, <2>4, <3>1
  <2> QED
    BY <2>3, <2>4
<1>6. Passes(f, kind, m, x, y, k)
  <2> HIDE DEF f
  <2>1. f = [i \in 0 .. k |-> f[i]]
    BY DEF f
  <2> QED
    BY <1>5, <2>1 DEF Passes
<1> QED
  BY <1>1, <1>6

\* The loop as what holds before and after each pass.
Runs(F, kind, m, x, y) ==
  F[0] = m /\ \A k \in 1 .. PoolSize : F[k] = Pass(kind, F[k - 1], x, y)

\* What is said of a loop pass by pass.
LEMMA PassesRun ==
  ASSUME NEW f, NEW kind, NEW m, NEW x, NEW y, Passes(f, kind, m, x, y, PoolSize)
  PROVE  Runs(f, kind, m, x, y)
<1>1. PoolSize \in Nat
  BY BookAssumption
<1>2. 0 \in 0 .. PoolSize /\ \A k \in 1 .. PoolSize : k \in 0 .. PoolSize /\ k # 0
  BY <1>1
<1> QED
  BY <1>2 DEF Passes, Runs

LevelPasses(f, m, li) ==
  f = [k \in 0 .. PoolSize |-> IF k = 0 THEN m ELSE TakeOnce(f[k - 1], li)]

\* TakeLevel is such a loop.
LEMMA TakeLevelRuns ==
  ASSUME NEW m, NEW li
  PROVE  \E F : Runs(F, "level", m, li, 0) /\ TakeLevel(m, li) = F[PoolSize]
<1> DEFINE p == CHOOSE f : LevelPasses(f, m, li)
<1>1. PICK f : Passes(f, "level", m, li, 0, PoolSize)
  BY PassesExist, BookAssumption
<1>2. LevelPasses(f, m, li)
  BY <1>1 DEF Passes, LevelPasses, Pass
<1>3. LevelPasses(p, m, li)
  BY <1>2
<1>4. TakeLevel(m, li) = p[PoolSize]
  BY DEF TakeLevel, LevelPasses
<1> HIDE DEF p
<1>5. Passes(p, "level", m, li, 0, PoolSize)
  BY <1>3 DEF Passes, LevelPasses, Pass
<1>6. Runs(p, "level", m, li, 0)
  BY <1>5, PassesRun
<1> QED
  BY <1>4, <1>6

MatchPasses(f, m, side, limit) ==
  f = [k \in 0 .. PoolSize |-> IF k = 0 THEN m ELSE MatchBest(f[k - 1], side, limit)]

\* So is Match.
LEMMA MatchRuns ==
  ASSUME NEW m, NEW side, NEW limit
  PROVE  \E F : Runs(F, "match", m, side, limit) /\ Match(m, side, limit) = F[PoolSize]
<1> DEFINE p == CHOOSE f : MatchPasses(f, m, side, limit)
<1>1. PICK f : Passes(f, "match", m, side, limit, PoolSize)
  BY PassesExist, BookAssumption
<1>2. MatchPasses(f, m, side, limit)
  BY <1>1 DEF Passes, MatchPasses, Pass
<1>3. MatchPasses(p, m, side, limit)
  BY <1>2
<1>4. Match(m, side, limit) = p[PoolSize]
  BY DEF Match, MatchPasses
<1> HIDE DEF p
<1>5. Passes(p, "match", m, side, limit, PoolSize)
  BY <1>3 DEF Passes, MatchPasses, Pass
<1>6. Runs(p, "match", m, side, limit)
  BY <1>5, PassesRun
<1> QED
  BY <1>4, <1>6

-----------------------------------------------------------------------------
(***************************************************************************)
(* What an observer makes of each event.                                    *)
(***************************************************************************)

\* What an observer makes of each kind of event.
LEMMA EventsAre ==
  ASSUME NEW sh
  PROVE  /\ \A id, tick, qty, left :
              Observe(sh, TradeEvent(id, tick, qty, left)) = Give(sh, id, qty)
         /\ \A id, tick, qty, side, reason :
              Observe(sh, CancelEvent(id, tick, qty, side, reason))
                = IF reason \in {"User", "Replace"} THEN Lose(sh, id, qty) ELSE sh
         /\ \A id, verdict : Observe(sh, RejectEvent(id, verdict)) = sh
         /\ \A o : Observe(sh, AcceptEvent(o)) = Join(sh, AcceptEvent(o))
<1>1. \A id, tick, qty, left : Observe(sh, TradeEvent(id, tick, qty, left)) = Give(sh, id, qty)
  BY DEF Observe, TradeEvent
<1>2. \A id, tick, qty, side, reason :
        Observe(sh, CancelEvent(id, tick, qty, side, reason))
          = IF reason \in {"User", "Replace"} THEN Lose(sh, id, qty) ELSE sh
  BY DEF Observe, CancelEvent
<1>3. \A id, verdict : Observe(sh, RejectEvent(id, verdict)) = sh
  BY DEF Observe, RejectEvent
<1>4. \A o : Observe(sh, AcceptEvent(o)) = Join(sh, AcceptEvent(o))
  BY DEF Observe, AcceptEvent
<1> QED
  BY <1>1, <1>2, <1>3, <1>4

-----------------------------------------------------------------------------
(***************************************************************************)
(* Matching: one maker, one level, one order.                               *)
(***************************************************************************)

\* A call in progress has told what it has done to the book.
Good(m, sh) ==
  /\ m = [b |-> m.b, events |-> m.events, qty |-> m.qty]
  /\ Faithful(m.b, Told(sh, m.events)) /\ IsList(m.events)
  /\ m.qty \in Nat

\* The book has lost orders, at most.
Fewer(b, c) ==
  /\ LiveSlots(c) \subseteq LiveSlots(b)
  /\ \A s \in LiveSlots(c) : c.pool[s].tick = b.pool[s].tick
  /\ DOMAIN c.ids \subseteq DOMAIN b.ids

Left(b) == Cardinality(LiveSlots(b))

\* There are no more orders left than the pool has slots.
LEMMA LeftIs ==
  ASSUME NEW b
  PROVE  /\ Left(b) \in Nat /\ Left(b) <= PoolSize
         /\ Left(b) = 0 <=> LiveSlots(b) = {}
<1>1. LiveSlots(b) \in SUBSET Slots
  BY DEF LiveSlots
<1> QED
  BY <1>1, SetsOfSlots DEF Left

\* An order gone is one order less.
LEMMA LeftLess ==
  ASSUME NEW b, NEW c, NEW s \in LiveSlots(b), LiveSlots(c) \subseteq LiveSlots(b) \ {s}
  PROVE  Left(c) <= Left(b) - 1
<1> DEFINE X == LiveSlots(b) \ {s}
<1>1. LiveSlots(b) \in SUBSET Slots /\ X \in SUBSET Slots
  BY DEF LiveSlots
<1>2. Cardinality(X) = Left(b) - 1
  BY <1>1, SetsOfSlots DEF Left
<1>3. IsFiniteSet(X)
  BY <1>1, SetsOfSlots
<1> HIDE DEF X
<1>4. Cardinality(LiveSlots(c)) <= Cardinality(X)
  BY <1>3, FS_Subset DEF X
<1> QED
  BY <1>2, <1>4 DEF Left

\* Whoever stands at the head of a level.
LEMMA HeadIs ==
  ASSUME NEW b, NEW age, NEW now, NEW M, Kept(b, age, now, M), NEW li \in Levels
  PROVE  LET s == b.levels[li].head IN
         /\ s = NullSlot <=> At(b, li) = {}
         /\ s # NullSlot => /\ s \in LiveSlots(b) /\ s \in At(b, li)
                            /\ b.pool[s].tick = TickOf(li) /\ Idx(b.pool[s].tick) = li
<1> DEFINE s == b.levels[li].head
<1>1. Oldest(At(b, li), age, s)
  BY DEF Kept, Queued, Ends
<1> HIDE DEF s
<1>2. s = NullSlot => At(b, li) = {}
  BY <1>1 DEF Oldest
<1>3. s # NullSlot => s \in At(b, li)
  BY <1>1 DEF Oldest
<1>4. s \in At(b, li) => s \in LiveSlots(b) /\ b.pool[s].tick = TickOf(li)
  BY DEF At
<1>5. Idx(TickOf(li)) = li
  BY LevelsAre
<1> QED
  BY <1>2, <1>3, <1>4, <1>5 DEF s

\* What a pass that takes from the head of a level leaves.
Took(m, n, sh, t, li) ==
  /\ Good(n, sh) /\ Loose(n.b, t, li) /\ Fewer(m.b, n.b)
  /\ n.qty <= m.qty
  /\ n.qty = 0 \/ Left(n.b) <= Left(m.b) - 1

\* One pass of the inner loop: the head shrinks or goes.
LEMMA TakeHeadIs ==
  ASSUME NEW m, NEW sh, Good(m, sh), NEW t \in Sides, NEW li \in Levels, Loose(m.b, t, li),
         m.qty # 0, m.b.levels[li].head # NullSlot
  PROVE  Took(m, TakeHead(m, li), sh, t, li)
<1> DEFINE b == m.b
           s == b.levels[li].head
           o == b.pool[s]
           take == Smaller(m.qty, o.qty)
           hit == Shrunk(b, s, take)
           e == TradeEvent(o.id, TickOf(li), take, o.qty - take)
           n == TakeHead(m, li)
           h == Told(sh, m.events)
           l == Give(h, o.id, take)
<1>1. PICK age, now, M : Kept(b, age, now, M) /\ Mirror(b, age, h)
  BY DEF Good, Faithful
<1>2. b \in Book /\ Sound(b) /\ Indexed(b) /\ Aged(age, now) /\ Queued(b, age)
  BY <1>1 DEF Kept
<1>3. /\ s \in LiveSlots(b) /\ s \in At(b, li)
      /\ o.tick = TickOf(li) /\ Idx(o.tick) = li
  BY <1>1, HeadIs
<1>4. o.qty \in Nat \ {0} /\ o.id \in DOMAIN b.ids
  BY <1>2, <1>3, OrderIs
<1>5. m.qty \in Nat /\ Faithful(b, h) /\ IsList(m.events)
  BY DEF Good
<1>6. /\ take \in Nat /\ take <= o.qty /\ m.qty - take \in Nat /\ m.qty - take <= m.qty
      /\ take # o.qty => take < o.qty /\ m.qty - take = 0
  <2>1. ASSUME NEW x \in Nat, NEW y \in Nat
        PROVE  LET z == Smaller(x, y) IN
               /\ z \in Nat /\ z <= y /\ x - z \in Nat /\ x - z <= x
               /\ z # y => z < y /\ x - z = 0
    BY DEF Smaller
  <2>2. o.qty \in Nat /\ m.qty \in Nat
    BY <1>4, <1>5
  <2> HIDE DEF o
  <2> QED
    BY <2>1, <2>2
<1>7. [b EXCEPT !.pool[s].qty = @ - take, !.levels[li].qty = @ - take] = hit
  BY <1>3 DEF Shrunk
<1>8. /\ n.b = IF o.qty = take THEN FreeSlot(EraseId(Unlink(hit, li, s), o.id), s) ELSE hit
      /\ n.events = Append(m.events, e) /\ n.qty = m.qty - take
      /\ n = [b |-> n.b, events |-> n.events, qty |-> n.qty]
  <2> DEFINE g == [b EXCEPT !.pool[s].qty = @ - take, !.levels[li].qty = @ - take]
             w == IF o.qty = take THEN FreeSlot(EraseId(Unlink(g, li, s), o.id), s) ELSE g
             q == m.qty - take
             es == Append(m.events, e)
  <2>1. n = [b |-> w, events |-> es, qty |-> q]
    BY DEF TakeHead
  <2>2. w = IF o.qty = take THEN FreeSlot(EraseId(Unlink(hit, li, s), o.id), s) ELSE hit
    <3>1. g = hit
      BY <1>7
    <3> HIDE DEF g, hit, take, o, s
    <3> QED
      BY <3>1
  <2> HIDE DEF w, es, q, n
  <2>3. n.b = w /\ n.events = es /\ n.qty = q
    BY <2>1
  <2> QED
    BY <2>1, <2>2, <2>3 DEF es, q
<1>9. h \in Shadow /\ o.id \in DOMAIN h.book /\ take \in Int
  <2>1. take \in Int
    <3> HIDE DEF take
    <3> QED
      BY <1>6
  <2>2. h \in Shadow /\ DOMAIN h.book = DOMAIN b.ids
    <3> HIDE DEF h, b
    <3> QED
      BY <1>5, FaithfulIs
  <2> QED
    BY <1>4, <2>1, <2>2
<1>10. Lost(h, o.id, take, l)
  BY <1>9, GiveIs
<1>11. Told(sh, n.events) = l /\ IsList(n.events)
  <2>1. Told(sh, Append(m.events, e)) = Observe(h, e) /\ IsList(Append(m.events, e))
    BY <1>5, ToldMore
  <2>2. Observe(h, e) = l
    BY EventsAre
  <2> QED
    BY <1>8, <2>1, <2>2
<1> HIDE DEF b, s, n, l, h, take, hit, e
<1>12. CASE o.qty = take
  <2> DEFINE c == Removal(b, s)
  <2>1. n.b = c
    <3>1. Emptied(b, s, hit)
      BY <1>2, <1>3, <1>12, EmptiedIs DEF hit
    <3>2. FreeSlot(EraseId(Unlink(hit, Idx(b.pool[s].tick), s), b.pool[s].id), s) = Removal(b, s)
      BY <1>2, <1>3, <3>1, GoneIs
    <3> QED
      BY <1>3, <1>8, <1>12, <3>2
  <2>2. take >= b.pool[s].qty
    BY <1>4, <1>12
  <2>3. Faithful(c, l)
    BY <1>3, <1>5, <1>9, <1>10, <2>2, FaithfulRemoval
  <2>4. Good(n, sh)
    BY <1>6, <1>8, <1>11, <2>1, <2>3 DEF Good
  <2>5. c \in Book /\ SameMarks(b, c) /\ DOMAIN c.ids = DOMAIN b.ids \ {o.id}
    BY <1>2, <1>3, RemovalFields DEF SameMarks
  <2>6. SameOrders(b, c, LiveSlots(b) \ {s})
    BY <1>2, <1>3, RemovalOrders
  <2> HIDE DEF c
  <2>7. SamePlaces(b, c, LiveSlots(b) \ {s}) /\ LiveSlots(c) = LiveSlots(b) \ {s}
    BY <2>6 DEF SameOrders, SamePlaces
  <2>8. Loose(c, t, li)
    <3> DEFINE X == LiveSlots(b) \ {s}
    <3>1. X \in SUBSET LiveSlots(b) /\ LiveSlots(b) \ X \subseteq At(b, li)
      BY <1>3
    <3>2. Loose(b, t, li)
      BY DEF b
    <3> HIDE DEF X
    <3>3. SamePlaces(b, c, X)
      BY <2>7 DEF X
    <3> QED
      BY <1>2, <2>5, <3>1, <3>2, <3>3, LooseStays
  <2>9. Left(c) <= Left(b) - 1 /\ Fewer(b, c)
    <3>1. Left(c) <= Left(b) - 1
      BY <1>3, <2>7, LeftLess
    <3> QED
      BY <2>5, <2>7, <3>1 DEF Fewer, SamePlaces
  <2> QED
    BY <1>6, <1>8, <2>1, <2>4, <2>8, <2>9 DEF Took, b, n
<1>13. CASE o.qty # take
  <2>1. n.b = hit /\ take < b.pool[s].qty /\ n.qty = 0
    BY <1>6, <1>8, <1>13
  <2>2. Faithful(hit, l)
    BY <1>3, <1>5, <1>6, <1>10, <2>1, FaithfulShrunk DEF hit
  <2>3. Good(n, sh)
    BY <1>6, <1>8, <1>11, <2>1, <2>2 DEF Good
  <2>4. hit \in Book /\ SameMarks(b, hit) /\ hit.ids = b.ids
    BY <1>2, <1>3, <1>9, ShrunkFields DEF hit
  <2>5. SamePlaces(b, hit, LiveSlots(b)) /\ LiveSlots(hit) = LiveSlots(b)
    BY <1>2, <1>3, <1>9, ShrunkPlaces DEF hit, SamePlaces
  <2>6. Loose(hit, t, li)
    <3>1. LiveSlots(b) \ LiveSlots(b) \subseteq At(b, li)
      OBVIOUS
    <3>2. Loose(b, t, li)
      BY DEF b
    <3> QED
      BY <1>2, <2>4, <2>5, <3>1, <3>2, LooseStays
  <2>7. Fewer(b, hit)
    BY <2>4, <2>5 DEF Fewer, SamePlaces
  <2> QED
    BY <1>6, <1>8, <2>1, <2>3, <2>6, <2>7 DEF Took, b, n
<1> QED
  BY <1>12, <1>13

-----------------------------------------------------------------------------

\* What any number of passes over a level leave of a call that began as m.
InLevel(m, n, sh, t, li, k) ==
  /\ Good(n, sh) /\ Loose(n.b, t, li) /\ Fewer(m.b, n.b)
  /\ n.qty <= m.qty
  /\ n.qty = 0 \/ n.b.levels[li].head = NullSlot \/ Left(n.b) <= PoolSize - k

\* Orders that go do not come back.
LEMMA FewerStill ==
  ASSUME NEW b, NEW c, NEW d, Fewer(b, c), Fewer(c, d)
  PROVE  Fewer(b, d)
BY DEF Fewer

\* The inner loop pass by pass.
LEMMA TakeOnceMore ==
  ASSUME NEW m, NEW n, NEW sh, NEW t \in Sides, NEW li \in Levels, NEW k \in 1 .. PoolSize,
         m.qty \in Nat, InLevel(m, n, sh, t, li, k - 1)
  PROVE  InLevel(m, TakeOnce(n, li), sh, t, li, k)
<1>1. k \in Nat /\ PoolSize \in Nat /\ PoolSize - (k - 1) = PoolSize - k + 1
  BY BookAssumption
<1>2. Good(n, sh) /\ Loose(n.b, t, li) /\ Fewer(m.b, n.b) /\ n.qty <= m.qty
  BY DEF InLevel
<1>3. CASE n.qty = 0 \/ n.b.levels[li].head = NullSlot
  BY <1>2, <1>3 DEF TakeOnce, InLevel
<1>4. CASE ~(n.qty = 0 \/ n.b.levels[li].head = NullSlot)
  <2> DEFINE p == TakeHead(n, li)
  <2>1. TakeOnce(n, li) = p
    BY <1>4 DEF TakeOnce
  <2>2. Took(n, p, sh, t, li)
    BY <1>2, <1>4, TakeHeadIs
  <2>3. Left(n.b) <= PoolSize - k + 1
    BY <1>1, <1>4 DEF InLevel
  <2> HIDE DEF p
  <2>4. Good(p, sh) /\ Loose(p.b, t, li) /\ Fewer(n.b, p.b) /\ p.qty <= n.qty
        /\ (p.qty = 0 \/ Left(p.b) <= Left(n.b) - 1)
    BY <2>2 DEF Took
  <2>5. Left(n.b) \in Nat /\ Left(p.b) \in Nat
    BY LeftIs
  <2>6. p.qty = 0 \/ Left(p.b) <= PoolSize - k
    BY <1>1, <2>3, <2>4, <2>5
  <2>7. p.qty \in Nat /\ n.qty \in Nat
    BY <1>2, <2>4 DEF Good
  <2>8. p.qty <= m.qty
    BY <1>2, <2>4, <2>7
  <2>9. Fewer(m.b, p.b)
    BY <1>2, <2>4, FewerStill
  <2> QED
    BY <2>1, <2>4, <2>6, <2>8, <2>9 DEF InLevel
<1> QED
  BY <1>3, <1>4

\* When the level is done with, so is the taker or the level.
LEMMA TakeLevelIs ==
  ASSUME NEW m, NEW sh, Good(m, sh), NEW t \in Sides, NEW li \in Levels, Loose(m.b, t, li)
  PROVE  LET n == TakeLevel(m, li) IN
         /\ Good(n, sh) /\ Loose(n.b, t, li) /\ Fewer(m.b, n.b) /\ n.qty <= m.qty
         /\ n.qty = 0 \/ At(n.b, li) = {}
<1>1. PoolSize \in Nat /\ m.qty \in Nat
  BY BookAssumption DEF Good
<1>2. PICK F : Runs(F, "level", m, li, 0) /\ TakeLevel(m, li) = F[PoolSize]
  BY TakeLevelRuns
<1> DEFINE T == {k \in 0 .. PoolSize : ~InLevel(m, F[k], sh, t, li, k)}
<1>3. T = {}
  <2> SUFFICES ASSUME T # {} PROVE FALSE
    OBVIOUS
  <2>1. PICK k \in T : \A j \in T : k <= j
    <3>1. T \subseteq Nat
      BY <1>1
    <3> HIDE DEF T
    <3> QED
      BY <3>1, LeastNat
  <2>2. k \in 0 .. PoolSize /\ ~InLevel(m, F[k], sh, t, li, k)
    BY <2>1
  <2>3. k # 0
    <3>1. F[0] = m
      BY <1>2 DEF Runs
    <3>2. Left(m.b) <= PoolSize - 0
      <4>1. Left(m.b) <= PoolSize /\ PoolSize - 0 = PoolSize
        BY <1>1, LeftIs
      <4> QED
        BY <4>1
    <3>3. InLevel(m, F[0], sh, t, li, 0)
      BY <1>1, <3>1, <3>2 DEF InLevel, Fewer
    <3> QED
      BY <2>2, <3>3
  <2>4. k \in 1 .. PoolSize /\ k - 1 \in 0 .. PoolSize /\ ~(k <= k - 1)
    BY <1>1, <2>2, <2>3
  <2>5. InLevel(m, F[k - 1], sh, t, li, k - 1)
    BY <2>1, <2>4
  <2>6. F[k] = TakeOnce(F[k - 1], li)
    BY <1>2, <2>4 DEF Runs, Pass
  <2>7. InLevel(m, TakeOnce(F[k - 1], li), sh, t, li, k)
    BY <1>1, <2>4, <2>5, TakeOnceMore
  <2> QED
    BY <2>2, <2>6, <2>7
<1> DEFINE n == F[PoolSize]
<1>4. InLevel(m, n, sh, t, li, PoolSize)
  <2>1. PoolSize \in 0 .. PoolSize
    BY <1>1
  <2> QED
    BY <1>3, <2>1
<1> HIDE DEF n
<1>5. Good(n, sh) /\ Loose(n.b, t, li) /\ Fewer(m.b, n.b) /\ n.qty <= m.qty
  BY <1>4 DEF InLevel
<1>6. ASSUME n.qty # 0
      PROVE  At(n.b, li) = {}
  <2>1. PICK age, now, M : Kept(n.b, age, now, M)
    BY <1>5 DEF Good, Faithful
  <2>2. CASE n.b.levels[li].head = NullSlot
    BY <2>1, <2>2, HeadIs
  <2>3. CASE Left(n.b) <= PoolSize - PoolSize
    <3>1. Left(n.b) = 0
      <4>1. Left(n.b) \in Nat /\ PoolSize - PoolSize = 0
        BY <1>1, LeftIs
      <4> QED
        BY <2>3, <4>1
    <3>2. LiveSlots(n.b) = {}
      BY <3>1, LeftIs
    <3> QED
      BY <3>2 DEF At
  <2> QED
    BY <1>4, <1>6, <2>2, <2>3 DEF InLevel
<1> QED
  BY <1>2, <1>5, <1>6 DEF n

\* A level without quantity is a level without orders.
LEMMA WeightlessIs ==
  ASSUME NEW b, NEW age, NEW now, NEW M, Kept(b, age, now, M), NEW li \in Levels
  PROVE  b.levels[li].qty = 0 <=> At(b, li) = {}
<1>1. b \in Book /\ Sound(b) /\ Weighs(M, b) /\ b.levels[li].qty = M[At(b, li)]
  BY DEF Kept, Counted
<1>2. At(b, li) \in SUBSET Slots /\ At(b, li) \subseteq LiveSlots(b)
  BY AtIs
<1>3. ASSUME At(b, li) = {}
      PROVE  b.levels[li].qty = 0
  BY <1>1, <1>3 DEF Weighs
<1>4. ASSUME NEW s \in At(b, li)
      PROVE  b.levels[li].qty # 0
  <2> DEFINE R == At(b, li) \ {s}
  <2>1. M[At(b, li)] = M[R] + b.pool[s].qty
    BY <1>1, <1>2, WeighsPart
  <2>2. b.pool[s].qty \in Nat \ {0}
    BY <1>1, <1>2, OrderIs
  <2>3. R \in SUBSET Slots
    BY <1>2
  <2> HIDE DEF R
  <2>4. M[R] \in Nat
    BY <1>1, <2>3 DEF Weighs
  <2> QED
    BY <1>1, <2>1, <2>2, <2>4
<1> QED
  BY <1>3, <1>4

\* A level that is left is dropped when it is empty: the book is in order again.
LEMMA LeaveLevelIs ==
  ASSUME NEW m, NEW sh, Good(m, sh), NEW t \in Sides, NEW li \in Levels, Loose(m.b, t, li)
  PROVE  LET n == LeaveLevel(m, t, li) IN
         /\ Good(n, sh) /\ Settled(n.b) /\ n.qty = m.qty
         /\ LiveSlots(n.b) = LiveSlots(m.b) /\ Fewer(m.b, n.b)
<1> DEFINE n == LeaveLevel(m, t, li)
           h == Told(sh, m.events)
           c == DropLevel(m.b, Opposite(t), li)
<1>1. Faithful(m.b, h) /\ IsList(m.events) /\ m.qty \in Nat
      /\ m = [b |-> m.b, events |-> m.events, qty |-> m.qty]
  BY DEF Good
<1>2. PICK age, now, M : Kept(m.b, age, now, M)
  BY <1>1 DEF Faithful
<1>3. m.b \in Book /\ Sound(m.b)
  BY <1>2 DEF Kept
<1>4. CASE m.b.levels[li].qty = 0
  <2>1. At(m.b, li) = {}
    BY <1>2, <1>4, WeightlessIs
  <2>2. c \in Book /\ SameStore(m.b, c) /\ Settled(c)
    BY <1>2, <2>1, DropIs
  <2>3. n = [m EXCEPT !.b = c]
    BY <1>4 DEF LeaveLevel
  <2> HIDE DEF c, n, h
  <2>4. n.b = c /\ n.events = m.events /\ n.qty = m.qty
        /\ n = [b |-> n.b, events |-> n.events, qty |-> n.qty]
    BY <1>1, <2>3
  <2>5. Faithful(c, h)
    BY <1>1, <2>2, FaithfulStore
  <2>6. Good(n, sh)
    BY <1>1, <2>4, <2>5 DEF Good, h
  <2>7. LiveSlots(c) = LiveSlots(m.b) /\ Fewer(m.b, c)
    <3>1. LiveSlots(c) = LiveSlots(m.b)
      BY <2>2, StorePlaces
    <3> QED
      BY <2>2, <3>1 DEF SameStore, Fewer
  <2> QED
    BY <2>2, <2>4, <2>6, <2>7 DEF n
<1>5. CASE m.b.levels[li].qty # 0
  <2>1. At(m.b, li) # {}
    BY <1>2, <1>5, WeightlessIs
  <2>2. Settled(m.b)
    BY <1>3, <2>1, LooseSettles
  <2>3. n = m
    BY <1>5 DEF LeaveLevel
  <2> QED
    BY <2>2, <2>3 DEF Fewer
<1> QED
  BY <1>4, <1>5

\* Nothing is left to match.
Done(m, side, limit) == m.qty = 0 \/ Alone(m.b, side, limit)

\* The maker at the best price, and the level it stands on.
LEMMA BestMakerIs ==
  ASSUME NEW b \in Book, Sound(b), Settled(b), NEW side \in Sides,
         BestFor(b, side) # InvalidTick
  PROVE  LET li == Idx(BestFor(b, side)) IN
         li \in Levels /\ At(b, li) # {} /\ Loose(b, side, li)
<1> DEFINE best == BestFor(b, side)
<1>1. TopIs(b, side)
  BY DEF Settled, Sides
<1>2. SomeoneAt(b, side, best)
  BY <1>1 DEF TopIs
<1>3. PICK s \in Makers(b, side) : b.pool[s].tick = best
  BY <1>2 DEF SomeoneAt
<1>4. s \in LiveSlots(b) /\ b.pool[s].side = Opposite(side)
  BY DEF Makers
<1>5. Idx(best) \in Levels /\ s \in At(b, Idx(best))
  BY <1>3, <1>4, OrderIs
<1>6. Loose(b, Opposite(b.pool[s].side), Idx(b.pool[s].tick))
  BY <1>4, SettledIsLoose
<1>7. Opposite(Opposite(side)) = side
  BY OppositeIs
<1> QED
  BY <1>3, <1>4, <1>5, <1>6, <1>7

\* One pass of the outer loop: it ends the taker or loses an order.
LEMMA MatchBestIs ==
  ASSUME NEW m, NEW sh, Good(m, sh), Settled(m.b), NEW side \in Sides, NEW limit,
         ~Done(m, side, limit)
  PROVE  LET n == MatchBest(m, side, limit) IN
         /\ Good(n, sh) /\ Settled(n.b) /\ Fewer(m.b, n.b) /\ n.qty <= m.qty
         /\ n.qty = 0 \/ Left(n.b) <= Left(m.b) - 1
<1> DEFINE best == BestFor(m.b, side)
           li == Idx(best)
           p == TakeLevel(m, li)
           n == LeaveLevel(p, side, li)
<1>1. best # InvalidTick /\ Reaches(side, limit, best) /\ m.qty # 0
  BY DEF Done, Alone
<1>2. MatchBest(m, side, limit) = n
  BY <1>1 DEF MatchBest
<1>3. m.b \in Book /\ Sound(m.b)
  BY DEF Good, Faithful, Kept
<1>4. li \in Levels /\ At(m.b, li) # {} /\ Loose(m.b, side, li)
  BY <1>1, <1>3, BestMakerIs
<1> HIDE DEF li
<1>5. /\ Good(p, sh) /\ Loose(p.b, side, li) /\ Fewer(m.b, p.b) /\ p.qty <= m.qty
      /\ p.qty = 0 \/ At(p.b, li) = {}
  BY <1>4, TakeLevelIs
<1> HIDE DEF p
<1>6. /\ Good(n, sh) /\ Settled(n.b) /\ n.qty = p.qty
      /\ LiveSlots(n.b) = LiveSlots(p.b) /\ Fewer(p.b, n.b)
  BY <1>4, <1>5, LeaveLevelIs
<1> HIDE DEF n
<1>7. Fewer(m.b, n.b)
  BY <1>5, <1>6, FewerStill
<1>8. ASSUME n.qty # 0
      PROVE  Left(n.b) <= Left(m.b) - 1
  <2>1. PICK s \in At(m.b, li) : TRUE
    BY <1>4
  <2>2. s \in LiveSlots(m.b) /\ m.b.pool[s].tick = TickOf(li)
    BY DEF At
  <2>3. s \notin LiveSlots(n.b)
    <3> SUFFICES ASSUME s \in LiveSlots(p.b) PROVE FALSE
      BY <1>6
    <3>1. p.b.pool[s].tick = TickOf(li)
      BY <1>5, <2>2 DEF Fewer
    <3>2. s \in At(p.b, li)
      BY <3>1 DEF At
    <3> QED
      BY <1>5, <1>6, <1>8, <3>2
  <2>4. LiveSlots(n.b) \subseteq LiveSlots(m.b) \ {s}
    BY <1>7, <2>3 DEF Fewer
  <2> QED
    BY <2>2, <2>4, LeftLess
<1> QED
  BY <1>2, <1>5, <1>6, <1>7, <1>8

-----------------------------------------------------------------------------

\* What any number of prices leave of a call that began as m.
InMatch(m, n, sh, side, limit, k) ==
  /\ Good(n, sh) /\ Settled(n.b) /\ Fewer(m.b, n.b)
  /\ n.qty <= m.qty
  /\ Done(n, side, limit) \/ Left(n.b) <= PoolSize - k

\* The outer loop pass by pass.
LEMMA MatchOnceMore ==
  ASSUME NEW m, NEW n, NEW sh, NEW side \in Sides, NEW limit, NEW k \in 1 .. PoolSize,
         m.qty \in Nat, InMatch(m, n, sh, side, limit, k - 1)
  PROVE  InMatch(m, MatchBest(n, side, limit), sh, side, limit, k)
<1>1. k \in Nat /\ PoolSize \in Nat /\ PoolSize - (k - 1) = PoolSize - k + 1
  BY BookAssumption
<1>2. Good(n, sh) /\ Settled(n.b) /\ Fewer(m.b, n.b) /\ n.qty <= m.qty
  BY DEF InMatch
<1>3. CASE Done(n, side, limit)
  <2>1. MatchBest(n, side, limit) = n
    BY <1>3 DEF MatchBest, Done, Alone
  <2> QED
    BY <1>2, <1>3, <2>1 DEF InMatch
<1>4. CASE ~Done(n, side, limit)
  <2> DEFINE p == MatchBest(n, side, limit)
  <2>1. /\ Good(p, sh) /\ Settled(p.b) /\ Fewer(n.b, p.b) /\ p.qty <= n.qty
        /\ p.qty = 0 \/ Left(p.b) <= Left(n.b) - 1
    BY <1>2, <1>4, MatchBestIs
  <2>2. Left(n.b) <= PoolSize - k + 1
    BY <1>1, <1>4 DEF InMatch
  <2> HIDE DEF p
  <2>3. Left(n.b) \in Nat /\ Left(p.b) \in Nat
    BY LeftIs
  <2>4. Done(p, side, limit) \/ Left(p.b) <= PoolSize - k
    BY <1>1, <2>1, <2>2, <2>3 DEF Done
  <2>5. p.qty \in Nat /\ n.qty \in Nat
    BY <1>2, <2>1 DEF Good
  <2>6. p.qty <= m.qty
    BY <1>2, <2>1, <2>5
  <2>7. Fewer(m.b, p.b)
    BY <1>2, <2>1, FewerStill
  <2> QED
    BY <2>1, <2>4, <2>6, <2>7 DEF InMatch, p
<1> QED
  BY <1>3, <1>4

\* An empty book has no best price.
LEMMA NobodyIsAlone ==
  ASSUME NEW b, Settled(b), LiveSlots(b) = {}, NEW side \in Sides, NEW limit
  PROVE  Alone(b, side, limit)
<1>1. TopIs(b, side)
  BY DEF Settled, Sides
<1>2. Makers(b, side) = {}
  BY DEF Makers
<1>3. ~SomeoneAt(b, side, BestFor(b, side))
  BY <1>2 DEF SomeoneAt
<1> QED
  BY <1>1, <1>3 DEF TopIs, Alone

\* When match ends, the taker is filled or nothing is left that its limit reaches.
LEMMA MatchIs ==
  ASSUME NEW m, NEW sh, Good(m, sh), Settled(m.b), NEW side \in Sides, NEW limit
  PROVE  LET n == Match(m, side, limit) IN
         /\ Good(n, sh) /\ Settled(n.b) /\ Fewer(m.b, n.b) /\ n.qty <= m.qty
         /\ Done(n, side, limit)
<1>1. PoolSize \in Nat /\ m.qty \in Nat
  BY BookAssumption DEF Good
<1>2. PICK F : Runs(F, "match", m, side, limit) /\ Match(m, side, limit) = F[PoolSize]
  BY MatchRuns
<1> DEFINE T == {k \in 0 .. PoolSize : ~InMatch(m, F[k], sh, side, limit, k)}
<1>3. T = {}
  <2> SUFFICES ASSUME T # {} PROVE FALSE
    OBVIOUS
  <2>1. PICK k \in T : \A j \in T : k <= j
    <3>1. T \subseteq Nat
      BY <1>1
    <3> HIDE DEF T
    <3> QED
      BY <3>1, LeastNat
  <2>2. k \in 0 .. PoolSize /\ ~InMatch(m, F[k], sh, side, limit, k)
    BY <2>1
  <2>3. k # 0
    <3>1. F[0] = m
      BY <1>2 DEF Runs
    <3>2. Left(m.b) <= PoolSize - 0
      <4>1. Left(m.b) <= PoolSize /\ PoolSize - 0 = PoolSize
        BY <1>1, LeftIs
      <4> QED
        BY <4>1
    <3>3. InMatch(m, F[0], sh, side, limit, 0)
      BY <1>1, <3>1, <3>2 DEF InMatch, Fewer
    <3> QED
      BY <2>2, <3>3
  <2>4. k \in 1 .. PoolSize /\ k - 1 \in 0 .. PoolSize /\ ~(k <= k - 1)
    BY <1>1, <2>2, <2>3
  <2>5. InMatch(m, F[k - 1], sh, side, limit, k - 1)
    BY <2>1, <2>4
  <2>6. F[k] = MatchBest(F[k - 1], side, limit)
    BY <1>2, <2>4 DEF Runs, Pass
  <2>7. InMatch(m, MatchBest(F[k - 1], side, limit), sh, side, limit, k)
    BY <1>1, <2>4, <2>5, MatchOnceMore
  <2> QED
    BY <2>2, <2>6, <2>7
<1> DEFINE n == F[PoolSize]
<1>4. InMatch(m, n, sh, side, limit, PoolSize)
  <2>1. PoolSize \in 0 .. PoolSize
    BY <1>1
  <2> QED
    BY <1>3, <2>1
<1> HIDE DEF n
<1>5. Good(n, sh) /\ Settled(n.b) /\ Fewer(m.b, n.b) /\ n.qty <= m.qty
  BY <1>4 DEF InMatch
<1>6. Done(n, side, limit)
  <2>1. CASE Left(n.b) <= PoolSize - PoolSize
    <3>1. Left(n.b) = 0
      <4>1. Left(n.b) \in Nat /\ PoolSize - PoolSize = 0
        BY <1>1, LeftIs
      <4> QED
        BY <2>1, <4>1
    <3>2. LiveSlots(n.b) = {}
      BY <3>1, LeftIs
    <3> QED
      BY <1>5, <3>2, NobodyIsAlone DEF Done
  <2> QED
    BY <1>4, <2>1 DEF InMatch
<1> QED
  BY <1>2, <1>5, <1>6 DEF n

-----------------------------------------------------------------------------
(***************************************************************************)
(* The operations keep the book in order and tell all they do to it.        *)
(***************************************************************************)

\* A call has told what it did, and left the book in order.
Fine(r, sh) ==
  /\ Faithful(r.b, Told(sh, r.events)) /\ IsList(r.events)
  /\ Settled(r.b)

\* An event the observer makes nothing of.
LEMMA SaidIs ==
  ASSUME NEW b, NEW ev, NEW sh, Faithful(b, Told(sh, ev)), IsList(ev), NEW e,
         Observe(Told(sh, ev), e) = Told(sh, ev)
  PROVE  Faithful(b, Told(sh, Append(ev, e))) /\ IsList(Append(ev, e))
BY ToldMore

\* A reject changes nothing.
LEMMA RejectedIs ==
  ASSUME NEW b, NEW ev, NEW sh, Fine(Step(b, ev), sh), NEW id, NEW verdict
  PROVE  Fine(Rejected(Step(b, ev), id, verdict), sh)
<1> DEFINE e == RejectEvent(id, verdict)
<1>1. Faithful(b, Told(sh, ev)) /\ IsList(ev) /\ Settled(b)
  BY DEF Fine, Step
<1>2. Observe(Told(sh, ev), e) = Told(sh, ev)
  BY EventsAre
<1> HIDE DEF e
<1>3. Faithful(b, Told(sh, Append(ev, e))) /\ IsList(Append(ev, e))
  BY <1>1, <1>2, SaidIs
<1>4. Rejected(Step(b, ev), id, verdict)
        = [b |-> b, events |-> Append(ev, e), verdict |-> verdict]
  BY DEF Rejected, Ended, Step, e
<1> QED
  BY <1>1, <1>3, <1>4 DEF Fine

\* A verdict changes nothing.
LEMMA EndedIs ==
  ASSUME NEW st, NEW sh, Fine(st, sh), NEW verdict
  PROVE  Fine(Ended(st, verdict), sh)
<1>1. Ended(st, verdict).b = st.b /\ Ended(st, verdict).events = st.events
  BY DEF Ended
<1> QED
  BY <1>1 DEF Fine

\* The slot that alloc would take next.
LEMMA RoomIs ==
  ASSUME NEW b, NEW age, NEW now, NEW M, Kept(b, age, now, M)
  PROVE  /\ b.free_head # NullSlot => b.free_head \in Slots /\ b.free_head \in Dead(b)
         /\ b.free_head = NullSlot <=> Dead(b) = {}
<1>1. Youngest(Dead(b), age, b.free_head)
  BY DEF Kept, Spare
<1>2. \A s \in Dead(b) : s \in Slots
  BY DEF Dead
<1> QED
  BY <1>1, <1>2 DEF Youngest

\* An id that is free, before as after orders have left the book.
LEMMA FreeIdIs ==
  ASSUME NEW b \in Book, NEW id
  PROVE  /\ Find(b, id) = NullSlot <=> id \notin DOMAIN b.ids
         /\ Find(b, id) # NullSlot => Find(b, id) = b.ids[id]
<1>1. b.ids \in Index
  BY DEF Book
<1>2. b.ids \in [DOMAIN b.ids -> Slots]
  BY <1>1, IndexIs
<1> QED
  BY <1>2, SlotsAre DEF Find

\* What the observer of m hears when what is left of a taker rests or does not.
Remains(m, r, sh, id, side, tick, tif) ==
  IF m.qty # 0 /\ tif = "Gtc"
    THEN /\ Joined(Told(sh, m.events), id, [side |-> side, tick |-> tick, qty |-> m.qty],
                   Told(sh, r.events))
         /\ Told(sh, r.events).fills = Told(sh, m.events).fills
    ELSE Told(sh, r.events) = Told(sh, m.events)

\* What is left of a taker once match is done is cancelled or rests.
LEMMA RemainderIs ==
  ASSUME NEW m, NEW sh, Good(m, sh), Settled(m.b),
         NEW id, NEW side \in Sides, NEW tick, NEW tif \in Tifs, Done(m, side, tick),
         tif = "Gtc" => /\ id \in Ids \ DOMAIN m.b.ids /\ tick \in Ticks
                        /\ m.b.free_head # NullSlot
  PROVE  /\ Fine(LimitRemainder(m, id, side, tick, tif), sh)
         /\ Remains(m, LimitRemainder(m, id, side, tick, tif), sh, id, side, tick, tif)
<1> DEFINE h == Told(sh, m.events)
<1>1. Faithful(m.b, h) /\ IsList(m.events) /\ m.qty \in Nat
  BY DEF Good
<1>2. CASE m.qty = 0
  <2>1. LimitRemainder(m, id, side, tick, tif) = [b |-> m.b, events |-> m.events]
    BY <1>2 DEF LimitRemainder, Step
  <2> DEFINE r == LimitRemainder(m, id, side, tick, tif)
  <2>2. r.b = m.b /\ r.events = m.events
    BY <2>1
  <2> HIDE DEF r
  <2>3. Fine(r, sh) /\ Remains(m, r, sh, id, side, tick, tif)
    BY <1>1, <1>2, <2>2 DEF Fine, Remains
  <2> QED
    BY <2>3 DEF r
<1>3. CASE m.qty # 0 /\ tif # "Gtc"
  <2> DEFINE e == CancelEvent(id, tick, m.qty, side, tif)
  <2>1. LimitRemainder(m, id, side, tick, tif) = [b |-> m.b, events |-> Append(m.events, e)]
    BY <1>3 DEF LimitRemainder, Step
  <2>2. tif \notin {"User", "Replace"}
    BY DEF Tifs
  <2>3. Observe(h, e) = h
    BY <2>2, EventsAre
  <2> HIDE DEF e, h
  <2>4. Faithful(m.b, Told(sh, Append(m.events, e))) /\ IsList(Append(m.events, e))
    BY <1>1, <2>3, SaidIs DEF h
  <2>5. Told(sh, Append(m.events, e)) = h
    BY <1>1, <2>3, ToldMore DEF h
  <2> DEFINE r == LimitRemainder(m, id, side, tick, tif)
  <2>6. r.b = m.b /\ r.events = Append(m.events, e)
    BY <2>1
  <2> HIDE DEF r
  <2>7. Fine(r, sh) /\ Remains(m, r, sh, id, side, tick, tif)
    BY <1>1, <1>3, <2>4, <2>5, <2>6 DEF Fine, Remains, h
  <2> QED
    BY <2>7 DEF r
<1>4. CASE m.qty # 0 /\ tif = "Gtc"
  <2> DEFINE b == m.b
             s == b.free_head
             r == Rest(Step(Written(b, id, side, tick, m.qty), m.events), s)
             o == [id |-> id, side |-> side, tick |-> tick, qty |-> m.qty]
             e == AcceptEvent(o)
             l == Join(h, e)
  <2>1. PICK age, now, M : Kept(b, age, now, M)
    BY <1>1 DEF Faithful
  <2>2. id \in Ids \ DOMAIN b.ids /\ tick \in Ticks /\ s # NullSlot /\ m.qty \in Nat \ {0}
    BY <1>1, <1>4
  <2>3. s \in Slots
    BY <2>1, <2>2, RoomIs
  <2>4. LimitRemainder(m, id, side, tick, tif) = r
    BY <1>4 DEF LimitRemainder, Written
  <2>5. /\ Entry(b, r.b, id, side, tick, m.qty) /\ Marked(b, r.b, side, tick)
        /\ r.events = Append(m.events, e)
    <3>1. m.qty \in Int /\ id \in Ids
      BY <2>2
    <3>2. Settled(b) /\ b.free_head \in Slots
      BY <2>3
    <3> DEFINE qty == m.qty
               ev == m.events
    <3>3. qty \in Int
      BY <3>1
    <3> HIDE DEF qty, ev
    <3>4. Rested(b, Rest(Step(Written(b, id, side, tick, qty), ev), b.free_head),
                 id, side, tick, qty, ev)
      <4>1. tick \in Ticks /\ id \in Ids /\ side \in Sides
        BY <2>2, <3>1
      <4>2. Kept(b, age, now, M)
        BY <2>1
      <4> HIDE DEF b, s, r, o, e, l, h
      <4> QED
        BY <3>2, <3>3, <4>1, <4>2, RestIs
    <3> QED
      BY <3>4 DEF qty, ev, Rested
  <2>6. Told(sh, r.events) = l /\ IsList(r.events)
    <3>1. Told(sh, Append(m.events, e)) = Observe(h, e) /\ IsList(Append(m.events, e))
      BY <1>1, ToldMore
    <3>2. Observe(h, e) = l
      BY EventsAre
    <3> QED
      BY <2>5, <3>1, <3>2
  <2>7. Joined(h, id, [side |-> side, tick |-> tick, qty |-> m.qty], l)
    <3>1. h \in Shadow
      BY <1>1, FaithfulIs
    <3>2. e.id = id /\ e.side = side /\ e.tick = tick /\ e.qty = m.qty
      BY DEF AcceptEvent
    <3>3. m.qty \in Int /\ id \in Ids
      BY <2>2
    <3> HIDE DEF e, h
    <3> QED
      BY <2>2, <3>1, <3>2, <3>3, JoinIs
  <2>7a. l.fills = h.fills
    <3>1. h \in Shadow
      BY <1>1, FaithfulIs
    <3> HIDE DEF h
    <3> QED
      BY <3>1 DEF Join, Shadow
  <2> HIDE DEF r, l, e, o, h, s
  <2>8. Faithful(r.b, l)
    BY <1>1, <2>2, <2>3, <2>5, <2>7, FaithfulEntry DEF s
  <2>9. Alone(b, side, tick)
    BY <1>4 DEF Done
  <2>10. Settled(r.b)
    BY <2>1, <2>2, <2>3, <2>5, <2>9, EntrySettles DEF s
  <2>11. Fine(r, sh)
    BY <2>6, <2>8, <2>10 DEF Fine
  <2>12. Remains(m, r, sh, id, side, tick, tif)
    BY <1>4, <2>6, <2>7, <2>7a DEF Remains, h
  <2> QED
    BY <2>4, <2>11, <2>12
<1> QED
  BY <1>2, <1>3, <1>4

-----------------------------------------------------------------------------

\* What it is for a call to be in order so far.
LEMMA StepIs ==
  ASSUME NEW b, NEW ev, NEW sh
  PROVE  /\ Step(b, ev).b = b /\ Step(b, ev).events = ev
         /\ Fine(Step(b, ev), sh) <=> /\ Faithful(b, Told(sh, ev)) /\ IsList(ev)
                                      /\ Settled(b)
BY DEF Step, Fine

\* An order that fewer orders than before leave room for.
LEMMA RoomStays ==
  ASSUME NEW b, NEW c, NEW sh, NEW l, Faithful(b, sh), Faithful(c, l), Fewer(b, c),
         b.free_head # NullSlot
  PROVE  c.free_head # NullSlot
<1>1. PICK age, now, M : Kept(b, age, now, M)
  BY DEF Faithful
<1>2. PICK old, then, N : Kept(c, old, then, N)
  BY DEF Faithful
<1>3. Dead(b) # {}
  BY <1>1, RoomIs
<1>4. Dead(b) \subseteq Dead(c)
  BY DEF Fewer, Dead
<1>5. Dead(c) # {}
  BY <1>3, <1>4
<1> QED
  BY <1>2, <1>5, RoomIs

\* add_limit.
LEMMA AddLimitIs ==
  ASSUME NEW b, NEW ev, NEW sh, Fine(Step(b, ev), sh),
         NEW id \in AnyId, NEW side \in Sides, NEW tick \in Int, NEW qty \in Int, NEW tif \in Tifs
  PROVE  Fine(AddLimitTo(Step(b, ev), id, side, tick, qty, tif), sh)
<1> DEFINE st == Step(b, ev)
           v == LimitVerdict(b, id, side, tick, qty, tif)
           m == [b |-> b, events |-> ev, qty |-> qty]
           n == Match(m, side, tick)
           r == LimitRemainder(n, id, side, tick, tif)
<1>1. st.b = b /\ st.events = ev /\ Faithful(b, Told(sh, ev)) /\ IsList(ev) /\ Settled(b)
  BY StepIs
<1>2. AddLimitTo(st, id, side, tick, qty, tif) =
        IF v # "None" THEN Rejected(st, id, v) ELSE Ended(r, "None")
  <2> HIDE DEF st
  <2> QED
    BY <1>1 DEF AddLimitTo
<1>3. CASE v # "None"
  BY <1>2, <1>3, RejectedIs
<1>4. CASE v = "None"
  <2>1. /\ qty > 0 /\ tick \in Ticks /\ id # NoOrder /\ Find(b, id) = NullSlot
        /\ tif = "Gtc" => b.free_head # NullSlot
    BY <1>4 DEF LimitVerdict
  <2>2. b \in Book
    BY <1>1, FaithfulIs
  <2>3. id \in Ids \ DOMAIN b.ids
    BY <2>1, <2>2, FreeIdIs DEF AnyId
  <2>4. m.b = b /\ Good(m, sh)
    BY <1>1, <2>1 DEF Good
  <2> HIDE DEF m
  <2>5. /\ Good(n, sh) /\ Settled(n.b) /\ Fewer(b, n.b) /\ Done(n, side, tick)
    BY <1>1, <2>4, MatchIs
  <2> HIDE DEF n, v, st
  <2>6. Faithful(n.b, Told(sh, n.events))
    BY <2>5 DEF Good
  <2>7. id \in Ids \ DOMAIN n.b.ids
    BY <2>3, <2>5 DEF Fewer
  <2>8. tif = "Gtc" => n.b.free_head # NullSlot
    BY <1>1, <2>1, <2>5, <2>6, RoomStays
  <2>9. Fine(r, sh)
    BY <2>1, <2>5, <2>7, <2>8, RemainderIs
  <2> QED
    BY <1>2, <1>4, <2>9, EndedIs DEF st
<1> QED
  BY <1>3, <1>4

\* add_market.
LEMMA AddMarketIs ==
  ASSUME NEW b, NEW sh, Fine(Step(b, <<>>), sh), NEW id, NEW side \in Sides, NEW qty \in Int
  PROVE  Fine(AddMarketTo(b, id, side, qty), sh)
<1> DEFINE limit == FarTick(side)
           m == [b |-> b, events |-> <<>>, qty |-> qty]
           n == Match(m, side, limit)
           r == LimitRemainder(n, id, side, limit, "Ioc")
<1>1. CASE qty <= 0
  BY <1>1, RejectedIs DEF AddMarketTo
<1>2. CASE ~(qty <= 0)
  <2>1. Faithful(b, Told(sh, <<>>)) /\ IsList(<<>>) /\ Settled(b)
    BY StepIs
  <2>2. m.b = b /\ Good(m, sh)
    BY <1>2, <2>1 DEF Good
  <2>3. AddMarketTo(b, id, side, qty) = Ended(r, "None")
    BY <1>2 DEF AddMarketTo
  <2> HIDE DEF m, limit
  <2>4. Good(n, sh) /\ Settled(n.b) /\ Done(n, side, limit)
    BY <2>1, <2>2, MatchIs
  <2> HIDE DEF n
  <2>5. "Ioc" \in Tifs /\ "Ioc" # "Gtc"
    BY DEF Tifs
  <2>6. Fine(r, sh)
    BY <2>4, <2>5, RemainderIs
  <2> QED
    BY <2>3, <2>6, EndedIs
<1> QED
  BY <1>1, <1>2

\* remove_resting.
LEMMA RemoveFine ==
  ASSUME NEW b, NEW ev, NEW sh, Fine(Step(b, ev), sh), NEW s \in LiveSlots(b),
         NEW reason \in {"User", "Replace"}
  PROVE  /\ RemoveResting(Step(b, ev), s, reason)
              = Step(RemoveResting(Step(b, ev), s, reason).b,
                     RemoveResting(Step(b, ev), s, reason).events)
         /\ Fine(RemoveResting(Step(b, ev), s, reason), sh)
         /\ Told(sh, RemoveResting(Step(b, ev), s, reason).events)
              = Lose(Told(sh, ev), b.pool[s].id, b.pool[s].qty)
<1> DEFINE o == b.pool[s]
           e == CancelEvent(o.id, o.tick, o.qty, o.side, reason)
           g == Gone(b, s)
           es == Append(ev, e)
           h == Told(sh, ev)
           l == Lose(h, o.id, o.qty)
           r == RemoveResting(Step(b, ev), s, reason)
<1>1. Faithful(b, h) /\ IsList(ev) /\ Settled(b)
  BY StepIs
<1>2. PICK age, now, M : Kept(b, age, now, M)
  BY <1>1 DEF Faithful
<1>3. b \in Book /\ Sound(b) /\ h \in Shadow /\ DOMAIN h.book = DOMAIN b.ids
  <2> HIDE DEF h
  <2> QED
    BY <1>1, FaithfulIs
<1>4. o.qty \in Nat \ {0} /\ o.id \in DOMAIN b.ids
  BY <1>3, OrderIs
<1>5. r = Step(g, es)
  BY <1>1, <1>2, RemoveIs
<1>6. Observe(h, e) = l
  BY EventsAre
<1>7. Told(sh, es) = l /\ IsList(es)
  BY <1>1, <1>6, ToldMore
<1>8. Lost(h, o.id, o.qty, l)
  <2>1. o.qty \in Int /\ o.id \in DOMAIN h.book
    BY <1>3, <1>4
  <2> HIDE DEF h, o
  <2> QED
    BY <1>3, <2>1, LoseIs
<1> HIDE DEF r, es, e, l, h
<1>9. Faithful(Removal(b, s), l)
  <2>1. o.qty \in Int /\ o.qty >= b.pool[s].qty
    BY <1>4
  <2> QED
    BY <1>1, <1>8, <2>1, FaithfulRemoval
<1>10. g \in Book /\ SameStore(Removal(b, s), g) /\ Settled(g)
  BY <1>1, <1>2, GoneSettles
<1> HIDE DEF g
<1>11. Faithful(g, l)
  BY <1>9, <1>10, FaithfulStore
<1>12. r.b = g /\ r.events = es
  BY <1>5, StepIs
<1>13. Told(sh, r.events) = Lose(Told(sh, ev), o.id, o.qty)
  BY <1>7, <1>12 DEF l, h
<1> QED
  BY <1>5, <1>7, <1>10, <1>11, <1>12, <1>13, StepIs DEF r

\* The id map finds the order.
LEMMA FoundIs ==
  ASSUME NEW b, NEW sh, Faithful(b, sh), NEW id, Find(b, id) # NullSlot
  PROVE  Find(b, id) \in LiveSlots(b) /\ b.pool[Find(b, id)].id = id
<1>1. b \in Book /\ Sound(b) /\ Indexed(b)
  BY FaithfulIs
<1>2. id \in DOMAIN b.ids /\ Find(b, id) = b.ids[id]
  BY <1>1, FreeIdIs
<1> QED
  BY <1>1, <1>2, NamedIs

\* A list of one event tells that event.
LEMMA OneEvent ==
  ASSUME NEW sh, NEW e
  PROVE  Told(sh, <<e>>) = Observe(sh, e) /\ IsList(<<e>>)
<1> DEFINE z == <<>>
<1>1. Append(z, e) = <<e>>
  OBVIOUS
<1>2. IsList(z) /\ Told(sh, z) = sh
  BY NoneIs
<1> HIDE DEF z
<1>3. Told(sh, Append(z, e)) = Observe(Told(sh, z), e) /\ IsList(Append(z, e))
  BY <1>2, ToldMore
<1> QED
  BY <1>1, <1>2, <1>3

\* A resting order gives up part of its size.
LEMMA ShrinkFine ==
  ASSUME NEW b, NEW sh, Fine(Step(b, <<>>), sh), NEW s \in LiveSlots(b), NEW d \in Nat,
         d < b.pool[s].qty, NEW e,
         \A h : Observe(h, e) = Lose(h, b.pool[s].id, d) \/ Observe(h, e) = Give(h, b.pool[s].id, d)
  PROVE  Fine(Step(Shrunk(b, s, d), <<e>>), sh)
<1> DEFINE o == b.pool[s]
           c == Shrunk(b, s, d)
           l == Observe(sh, e)
<1>1. Faithful(b, sh) /\ IsList(<<>>) /\ Settled(b)
  BY StepIs, NoneIs
<1>2. b \in Book /\ Sound(b) /\ sh \in Shadow /\ DOMAIN sh.book = DOMAIN b.ids
  BY <1>1, FaithfulIs
<1>3. o.id \in DOMAIN sh.book /\ d \in Int
  BY <1>2, OrderIs
<1>4. Lost(sh, o.id, d, l)
  <2>1. Lost(sh, o.id, d, Lose(sh, o.id, d)) /\ Lost(sh, o.id, d, Give(sh, o.id, d))
    <3> HIDE DEF o
    <3> QED
      BY <1>2, <1>3, LoseIs, GiveIs
  <2> QED
    BY <2>1
<1> HIDE DEF l, c
<1>5. Faithful(c, l)
  BY <1>1, <1>4, FaithfulShrunk DEF c
<1>6. Told(sh, <<e>>) = l /\ IsList(<<e>>)
  BY OneEvent DEF l
<1>7. Settled(c)
  <2>1. c \in Book /\ SameMarks(b, c)
    BY <1>2, <1>3, ShrunkFields DEF c
  <2>2. SamePlaces(b, c, LiveSlots(b))
    BY <1>2, <1>3, ShrunkPlaces DEF c
  <2> QED
    BY <1>1, <1>2, <2>1, <2>2, SettledStays
<1> QED
  BY <1>5, <1>6, <1>7, StepIs DEF c

\* cancel.
LEMMA CancelIs ==
  ASSUME NEW b, NEW sh, Fine(Step(b, <<>>), sh), NEW id
  PROVE  Fine(CancelIn(b, id), sh)
<1>1. CASE Find(b, id) = NullSlot
  BY <1>1, RejectedIs DEF CancelIn
<1>2. CASE Find(b, id) # NullSlot
  <2> DEFINE r == RemoveResting(Step(b, <<>>), Find(b, id), "User")
  <2>1. Find(b, id) \in LiveSlots(b)
    BY <1>2, FoundIs, StepIs
  <2>2. Fine(r, sh)
    BY <2>1, RemoveFine
  <2> HIDE DEF r
  <2>3. Fine(Ended(r, "None"), sh)
    BY <2>2, EndedIs
  <2> QED
    BY <1>2, <2>3 DEF CancelIn, r
<1> QED
  BY <1>1, <1>2

\* shrink tells what the order gave up.
LEMMA ShrinkByIs ==
  ASSUME NEW b, NEW sh, Fine(Step(b, <<>>), sh), NEW s \in LiveSlots(b), NEW d \in Nat,
         d < b.pool[s].qty, NEW reason \in {"User", "Replace"}
  PROVE  Fine(ShrinkBy(b, s, d, reason), sh)
<1> DEFINE o == b.pool[s]
           e == CancelEvent(o.id, o.tick, d, o.side, reason)
<1>1. \A h : Observe(h, e) = Lose(h, o.id, d)
  BY EventsAre
<1>2. ShrinkBy(b, s, d, reason) = Step(Shrunk(b, s, d), <<e>>)
  BY DEF ShrinkBy, Shrunk
<1> HIDE DEF e
<1> QED
  BY <1>1, <1>2, ShrinkFine

\* reduce.
LEMMA ReduceIs ==
  ASSUME NEW b, NEW sh, Fine(Step(b, <<>>), sh), NEW id, NEW shares \in Int
  PROVE  Fine(ReduceIn(b, id, shares), sh)
<1> DEFINE s == Find(b, id)
<1>1. CASE s = NullSlot \/ shares <= 0
  BY <1>1, RejectedIs DEF ReduceIn
<1>2. CASE s # NullSlot /\ ~(shares <= 0)
  <2>1. Faithful(b, Told(sh, <<>>))
    BY StepIs
  <2>2. s \in LiveSlots(b) /\ b \in Book /\ Sound(b)
    BY <1>2, <2>1, FoundIs, FaithfulIs
  <2>3. CASE shares >= b.pool[s].qty
    <3> DEFINE r == RemoveResting(Step(b, <<>>), s, "User")
    <3>1. ReduceIn(b, id, shares) = Ended(r, "None")
      BY <1>2, <2>3 DEF ReduceIn
    <3>2. Fine(r, sh)
      BY <2>2, RemoveFine
    <3> HIDE DEF r
    <3> QED
      BY <3>1, <3>2, EndedIs
  <2>4. CASE ~(shares >= b.pool[s].qty)
    <3> DEFINE r == ShrinkBy(b, s, shares, "User")
    <3>1. ReduceIn(b, id, shares) = Ended(r, "None")
      BY <1>2, <2>4 DEF ReduceIn
    <3>2. b.pool[s].qty \in Nat
      BY <2>2, OrderIs
    <3>3. shares \in Nat /\ shares < b.pool[s].qty
      <4> HIDE DEF s
      <4> QED
        BY <1>2, <2>4, <3>2
    <3>4. Fine(r, sh)
      BY <2>2, <3>3, ShrinkByIs
    <3> HIDE DEF r
    <3> QED
      BY <3>1, <3>4, EndedIs
  <2> QED
    BY <2>3, <2>4
<1> QED
  BY <1>1, <1>2

-----------------------------------------------------------------------------

\* A resting order is gone, and one event said so.
LEMMA GoneFine ==
  ASSUME NEW b, NEW sh, Fine(Step(b, <<>>), sh), NEW s \in LiveSlots(b), NEW e,
         Lost(sh, b.pool[s].id, b.pool[s].qty, Observe(sh, e))
  PROVE  Fine(Step(Gone(b, s), <<e>>), sh)
<1> DEFINE g == Gone(b, s)
           l == Observe(sh, e)
<1>1. Faithful(b, sh) /\ Settled(b)
  BY StepIs, NoneIs
<1>2. PICK age, now, M : Kept(b, age, now, M)
  BY <1>1 DEF Faithful
<1>3. b.pool[s].qty \in Int /\ b.pool[s].qty >= b.pool[s].qty
  <2>1. b.pool[s].qty \in Nat
    BY <1>2, OrderIs DEF Kept
  <2> QED
    BY <2>1
<1> HIDE DEF l, g
<1>4. Faithful(Removal(b, s), l)
  BY <1>1, <1>3, FaithfulRemoval DEF l
<1>5. g \in Book /\ SameStore(Removal(b, s), g) /\ Settled(g)
  BY <1>1, <1>2, GoneSettles DEF g
<1>6. Faithful(g, l)
  BY <1>4, <1>5, FaithfulStore
<1>7. Told(sh, <<e>>) = l /\ IsList(<<e>>)
  BY OneEvent DEF l
<1> QED
  BY <1>5, <1>6, <1>7, StepIs DEF g

\* execute.
LEMMA ExecuteIs ==
  ASSUME NEW b, NEW sh, Fine(Step(b, <<>>), sh), NEW id, NEW shares \in Int
  PROVE  Fine(ExecuteIn(b, id, shares), sh)
<1> DEFINE s == Find(b, id)
           o == b.pool[s]
           li == Idx(o.tick)
           take == Smaller(shares, o.qty)
           hit == Shrunk(b, s, take)
           cut == Unlink(hit, li, s)
           gone == IF cut.levels[li].orders = 0 THEN DropLevel(cut, o.side, li) ELSE cut
           e == TradeEvent(id, o.tick, take, o.qty - take)
           c == IF take = o.qty THEN FreeSlot(EraseId(gone, id), s) ELSE hit
           v == IF take = shares THEN "None" ELSE "BadQty"
<1>1. CASE s = NullSlot \/ shares <= 0
  BY <1>1, RejectedIs DEF ExecuteIn
<1>2. CASE s # NullSlot /\ ~(shares <= 0)
  <2>1. Faithful(b, sh) /\ Settled(b)
    BY StepIs, NoneIs
  <2>2. PICK age, now, M : Kept(b, age, now, M)
    BY <2>1 DEF Faithful
  <2>3. /\ s \in LiveSlots(b) /\ o.id = id
        /\ b \in Book /\ Sound(b) /\ sh \in Shadow /\ DOMAIN sh.book = DOMAIN b.ids
    BY <1>2, <2>1, FoundIs, FaithfulIs
  <2>4. o.qty \in Nat /\ id \in DOMAIN sh.book
    BY <2>3, OrderIs
  <2>5. take \in Nat /\ take <= o.qty /\ (take # o.qty => take < o.qty)
    <3>1. ASSUME NEW y \in Nat
          PROVE  LET z == Smaller(shares, y) IN z \in Nat /\ z <= y /\ (z # y => z < y)
      BY <1>2 DEF Smaller
    <3> HIDE DEF o
    <3> QED
      BY <2>4, <3>1
  <2>6. ExecuteIn(b, id, shares) = Ended(Step(c, <<e>>), v)
    <3> HIDE DEF v
    <3>1. ExecuteIn(b, id, shares) = Ended(Step(c, <<e>>),
            IF take = shares THEN "None" ELSE "BadQty")
      BY <1>2 DEF ExecuteIn, Shrunk
    <3> QED
      BY <3>1 DEF v
  <2>7. \A h : Observe(h, e) = Give(h, id, take)
    BY EventsAre
  <2>8. Fine(Step(c, <<e>>), sh)
    <3>1. CASE take = o.qty
      <4>1. c = Gone(b, s)
        <5>1. Emptied(b, s, hit)
          BY <2>3, <3>1, EmptiedIs
        <5>2. FreeSlot(EraseId(gone, o.id), s) = Gone(b, s)
          <6> HIDE DEF s, hit
          <6> QED
            BY <2>1, <2>2, <2>3, <5>1, CodeGone
        <5> HIDE DEF gone, o, take
        <5> QED
          BY <2>3, <3>1, <5>2
      <4>2. Observe(sh, e) = Give(sh, id, take)
        BY <2>7
      <4> HIDE DEF c, e
      <4>3. Lost(sh, id, take, Give(sh, id, take))
        <5>1. take \in Int
          <6> HIDE DEF take
          <6> QED
            BY <2>5
        <5> HIDE DEF take
        <5> QED
          BY <2>3, <2>4, <5>1, GiveIs
      <4>4. Lost(sh, b.pool[s].id, b.pool[s].qty, Observe(sh, e))
        <5> HIDE DEF take
        <5> QED
          BY <2>3, <3>1, <4>2, <4>3
      <4> HIDE DEF s
      <4> QED
        BY <2>3, <4>1, <4>4, GoneFine
    <3>2. CASE take # o.qty
      <4>1. c = hit /\ take < b.pool[s].qty
        BY <2>5, <3>2
      <4>2. \A h : Observe(h, e) = Give(h, b.pool[s].id, take)
        BY <2>3, <2>7
      <4> HIDE DEF e, s, take, c
      <4> QED
        BY <2>3, <2>5, <4>1, <4>2, ShrinkFine
    <3> QED
      BY <3>1, <3>2
  <2> HIDE DEF c, e, v
  <2> QED
    BY <2>6, <2>8, EndedIs
<1> QED
  BY <1>1, <1>2

\* The common end of replace and modify.
LEMMA ReenterIs ==
  ASSUME NEW b, NEW sh, Fine(Step(b, <<>>), sh), NEW old, NEW new \in AnyId,
         Find(b, old) # NullSlot, NEW tick \in Int, NEW qty \in Int
  PROVE  Fine(Reenter(b, old, new, tick, qty), sh)
<1> DEFINE s == Find(b, old)
           r == RemoveResting(Step(b, <<>>), s, "Replace")
           side == b.pool[s].side
<1>1. Faithful(b, Told(sh, <<>>))
  BY StepIs
<1>2. s \in LiveSlots(b) /\ b \in Book /\ Sound(b)
  BY <1>1, FoundIs, FaithfulIs
<1>3. side \in Sides
  BY <1>2, OrderIs DEF SlotType
<1>4. r = Step(r.b, r.events) /\ Fine(r, sh)
  <2> HIDE DEF s
  <2>1. "Replace" \in {"User", "Replace"}
    OBVIOUS
  <2> QED
    BY <1>2, <2>1, RemoveFine
<1>5. Reenter(b, old, new, tick, qty) = AddLimitTo(r, new, side, tick, qty, "Gtc")
  BY DEF Reenter
<1>6. "Gtc" \in Tifs
  BY DEF Tifs
<1> HIDE DEF r, side
<1>7. Fine(AddLimitTo(Step(r.b, r.events), new, side, tick, qty, "Gtc"), sh)
  <2>1. Fine(Step(r.b, r.events), sh)
    BY <1>4
  <2> QED
    BY <1>3, <1>6, <2>1, AddLimitIs
<1> QED
  BY <1>4, <1>5, <1>7

\* replace.
LEMMA ReplaceIs ==
  ASSUME NEW b, NEW sh, Fine(Step(b, <<>>), sh), NEW orig, NEW new \in AnyId,
         NEW tick \in Int, NEW qty \in Int
  PROVE  Fine(ReplaceIn(b, orig, new, tick, qty), sh)
<1> DEFINE v == ResizeVerdict(b, orig, tick, qty)
           e == IF v = "UnknownId" THEN orig ELSE new
<1>1. CASE v # "None"
  <2>1. ReplaceIn(b, orig, new, tick, qty) = Rejected(Step(b, <<>>), e, v)
    BY <1>1 DEF ReplaceIn
  <2> HIDE DEF e, v
  <2> QED
    BY <2>1, RejectedIs
<1>2. CASE v = "None" /\ new # orig /\ Find(b, new) # NullSlot
  BY <1>2, RejectedIs DEF ReplaceIn
<1>3. CASE v = "None" /\ ~(new # orig /\ Find(b, new) # NullSlot)
  <2>1. ReplaceIn(b, orig, new, tick, qty) = Reenter(b, orig, new, tick, qty)
    BY <1>3 DEF ReplaceIn
  <2>2. Find(b, orig) # NullSlot
    BY <1>3 DEF ResizeVerdict
  <2> QED
    BY <2>1, <2>2, ReenterIs
<1> QED
  BY <1>1, <1>2, <1>3

\* modify.
LEMMA ModifyIs ==
  ASSUME NEW b, NEW sh, Fine(Step(b, <<>>), sh), NEW id \in AnyId,
         NEW tick \in Int, NEW qty \in Int
  PROVE  Fine(ModifyIn(b, id, tick, qty), sh)
<1> DEFINE v == ResizeVerdict(b, id, tick, qty)
           s == Find(b, id)
           o == b.pool[s]
<1>1. CASE v # "None"
  BY <1>1, RejectedIs DEF ModifyIn
<1>2. CASE v = "None"
  <2>1. Faithful(b, Told(sh, <<>>))
    BY StepIs
  <2>2. s # NullSlot /\ ~(qty <= 0)
    BY <1>2 DEF ResizeVerdict
  <2>3. s \in LiveSlots(b) /\ b \in Book /\ Sound(b)
    BY <2>1, <2>2, FoundIs, FaithfulIs
  <2>4. CASE tick = o.tick /\ qty = o.qty
    <3>1. ModifyIn(b, id, tick, qty) = Ended(Step(b, <<>>), "None")
      BY <1>2, <2>4 DEF ModifyIn
    <3> QED
      BY <3>1, EndedIs
  <2>5. CASE tick = o.tick /\ ~(qty = o.qty) /\ qty < o.qty
    <3> DEFINE d == o.qty - qty
               r == ShrinkBy(b, s, d, "Replace")
    <3>1. ModifyIn(b, id, tick, qty) = Ended(r, "None")
      BY <1>2, <2>5 DEF ModifyIn
    <3>2. o.qty \in Nat
      BY <2>3, OrderIs
    <3>3. d \in Nat /\ d < b.pool[s].qty
      <4>1. o.qty = b.pool[s].qty
        OBVIOUS
      <4> HIDE DEF o
      <4>2. d \in Nat /\ d < o.qty
        BY <2>2, <2>5, <3>2
      <4> QED
        BY <4>1, <4>2
    <3> HIDE DEF d
    <3>4. Fine(r, sh)
      BY <2>3, <3>3, ShrinkByIs
    <3> HIDE DEF r
    <3> QED
      BY <3>1, <3>4, EndedIs
  <2>6. CASE ~(tick = o.tick /\ qty = o.qty) /\ ~(tick = o.tick /\ qty < o.qty)
    <3>1. ModifyIn(b, id, tick, qty) = Reenter(b, id, id, tick, qty)
      BY <1>2, <2>6 DEF ModifyIn
    <3> QED
      BY <2>2, <3>1, ReenterIs
  <2> QED
    BY <2>4, <2>5, <2>6
<1> QED
  BY <1>1, <1>2

-----------------------------------------------------------------------------
(***************************************************************************)
(* The inductive invariant.                                                 *)
(***************************************************************************)

IInv == Faithful(bk, shadow) /\ Settled(bk)

\* The book with every slot free: the last slot is the one freed first.
LEMMA FreshIs == Faithful(FreshBook, EmptyShadow) /\ Settled(FreshBook)
<1> DEFINE b == FreshBook
           age == [s \in Slots |-> PoolSize - s]
           M == [S \in SUBSET Slots |-> 0]
<1>1. PoolSize \in Nat
  BY BookAssumption
<1>2. /\ b.levels = [i \in Levels |-> EmptyLevel]
      /\ b.occupied = [w \in Words |-> {}]
      /\ b.pool = [s \in Slots |-> Blank(IF s = PoolSize THEN NullSlot ELSE s + 1)]
      /\ b.free_head = (IF PoolSize = 0 THEN NullSlot ELSE 1)
      /\ b.pool_used = 0 /\ b.ids = [i \in {} |-> NullSlot]
      /\ b.best_bid = InvalidTick /\ b.best_ask = InvalidTick
  BY DEF FreshBook, Levels, Words
<1>3. \A s \in Slots : (IF s = PoolSize THEN NullSlot ELSE s + 1) \in Links
  BY <1>1 DEF Slots, Links
<1>4. b \in Book
  <2>1. EmptyLevel \in LevelType
    BY DEF EmptyLevel, LevelType, Links
  <2>2. b.levels \in [Levels -> LevelType] /\ b.occupied \in [Words -> SUBSET Bits]
    BY <1>2, <2>1
  <2>3. b.pool \in [Slots -> SlotType]
    BY <1>2, <1>3, BlankIs
  <2>4. b.free_head \in Links /\ b.pool_used \in Int
    BY <1>1, <1>2 DEF Links, Slots
  <2>5. b.ids \in Index
    <3>1. b.ids \in [{} -> Slots] /\ DOMAIN b.ids = {}
      BY <1>2
    <3> QED
      BY <3>1, IndexIs
  <2>6. b.best_bid \in Int /\ b.best_ask \in Int
    BY <1>2, TicksAre
  <2>7. b = [levels |-> b.levels, occupied |-> b.occupied, pool |-> b.pool,
             free_head |-> b.free_head, pool_used |-> b.pool_used, ids |-> b.ids,
             best_bid |-> b.best_bid, best_ask |-> b.best_ask]
    BY DEF FreshBook
  <2> HIDE DEF b
  <2> QED
    BY <2>2, <2>3, <2>4, <2>5, <2>6, <2>7 DEF Book
<1>5. ASSUME NEW s \in Slots
      PROVE  /\ ~b.pool[s].live /\ b.pool[s].qty = 0
             /\ b.pool[s].next = IF s = PoolSize THEN NullSlot ELSE s + 1
  <2> DEFINE n == IF s = PoolSize THEN NullSlot ELSE s + 1
  <2>1. n \in Links /\ b.pool[s] = Blank(n)
    BY <1>2, <1>3
  <2> HIDE DEF n, b
  <2>2. Blank(n).live = FALSE /\ Blank(n).qty = 0 /\ Blank(n).next = n
    BY <2>1, BlankIs
  <2> QED
    BY <2>1, <2>2 DEF n
<1>6. LiveSlots(b) = {} /\ Dead(b) = Slots /\ DOMAIN b.ids = {}
  <2>1. LiveSlots(b) = {}
    BY <1>5 DEF LiveSlots
  <2>2. DOMAIN b.ids = {}
    BY <1>2
  <2> QED
    BY <2>1, <2>2 DEF Dead
<1> HIDE DEF b
<1>7. \A i : At(b, i) = {}
  BY <1>6 DEF At
<1>8. Aged(age, PoolSize)
  BY <1>1 DEF Aged, Slots
<1>9. Weighs(M, b)
  <2>1. {} \in SUBSET Slots
    OBVIOUS
  <2>2. \A S \in SUBSET Slots : \A s \in Slots \ S : S \union {s} \in SUBSET Slots
    OBVIOUS
  <2>3. \A s \in Slots : b.pool[s].qty = 0
    BY <1>5
  <2> QED
    BY <2>1, <2>2, <2>3 DEF Weighs
<1>10. Sound(b) /\ Indexed(b)
  BY <1>6 DEF Sound, Indexed
<1>11. Queued(b, age)
  <2>1. \A i \in Levels : b.levels[i].head = NullSlot /\ b.levels[i].tail = NullSlot
    BY <1>2 DEF EmptyLevel
  <2> QED
    BY <1>7, <2>1 DEF Queued, Ends, Linked, Oldest, Youngest
<1>12. Spare(b, age)
  <2>1. Youngest(Slots, age, b.free_head)
    BY <1>1, <1>2 DEF Youngest, Slots, NullSlot
  <2>2. ASSUME NEW s \in Slots
        PROVE  Youngest(Earlier(Slots, age, s), age, b.pool[s].next)
    <3>0. s \in Nat /\ 1 <= s /\ s <= PoolSize
      BY <1>1 DEF Slots
    <3>1. CASE s = PoolSize
      <4>1. Earlier(Slots, age, s) = {}
        BY <1>1, <3>0, <3>1 DEF Earlier, Slots
      <4>2. b.pool[s].next = NullSlot
        BY <1>5, <3>1
      <4> QED
        BY <4>1, <4>2 DEF Youngest
    <3>2. CASE s # PoolSize
      <4>1. s + 1 \in Slots /\ s + 1 # NullSlot /\ age[s + 1] < age[s]
        BY <1>1, <3>0, <3>2 DEF Slots, NullSlot
      <4>2. \A r \in Earlier(Slots, age, s) : age[r] <= age[s + 1]
        BY <1>1, <3>0, <3>2, <4>1 DEF Earlier, Slots
      <4>3. s + 1 \in Earlier(Slots, age, s)
        BY <4>1 DEF Earlier
      <4>4. b.pool[s].next = s + 1
        BY <1>5, <3>2
      <4> QED
        BY <4>1, <4>2, <4>3, <4>4 DEF Youngest
    <3> QED
      BY <3>1, <3>2
  <2> QED
    BY <1>6, <2>1, <2>2 DEF Spare
<1>13. Counted(b, M)
  <2>1. Cardinality({}) = 0
    BY FS_EmptySet
  <2>2. \A i \in Levels : b.levels[i].orders = 0 /\ b.levels[i].qty = 0
    BY <1>2 DEF EmptyLevel
  <2>3. M[{}] = 0
    OBVIOUS
  <2> QED
    BY <1>2, <1>6, <1>7, <2>1, <2>2, <2>3 DEF Counted
<1>14. Kept(b, age, PoolSize, M)
  BY <1>4, <1>8, <1>9, <1>10, <1>11, <1>12, <1>13 DEF Kept
<1>15. Mirror(b, age, EmptyShadow)
  <2> DEFINE none == [i \in {} |-> 0]
  <2>1. none \in [{} -> Lines] /\ none \in [{} -> Int] /\ DOMAIN none = {}
    OBVIOUS
  <2> HIDE DEF none
  <2>2. none \in UNION {[D -> Lines] : D \in SUBSET Ids}
        /\ none \in UNION {[D -> Int] : D \in SUBSET Ids}
    BY <2>1, BooksAre
  <2>3. EmptyShadow = [book |-> none, ahead |-> {}, fills |-> none]
    BY DEF EmptyShadow, none
  <2>4. EmptyShadow \in Shadow
    BY <2>2, <2>3 DEF Shadow
  <2>5. DOMAIN EmptyShadow.book = {} /\ EmptyShadow.ahead = {}
    BY <2>1, <2>3
  <2> QED
    BY <1>6, <2>4, <2>5 DEF Mirror
<1>16. Settled(b)
  <2>1. Taken(b) = {} /\ \A t : Makers(b, t) = {}
    BY <1>6, <1>7 DEF Taken, Makers
  <2>2. Marks(b, {})
    BY <1>2 DEF Marks
  <2>3. BestFor(b, "Buy") = InvalidTick /\ BestFor(b, "Sell") = InvalidTick
    BY <1>2 DEF BestFor
  <2>4. TopIs(b, "Buy") /\ TopIs(b, "Sell")
    BY <2>1, <2>3 DEF TopIs
  <2>5. Apart(b)
    BY <1>6 DEF Apart
  <2> QED
    BY <2>1, <2>2, <2>4, <2>5 DEF Settled
<1> QED
  BY <1>14, <1>15, <1>16 DEF Faithful, b

\* A call begins with no fills told.
LEMMA CallBegins ==
  ASSUME NEW b, NEW sh, Faithful(b, sh), Settled(b)
  PROVE  Fine(Step(b, <<>>), [sh EXCEPT !.fills = EmptyShadow.fills])
<1> DEFINE l == [sh EXCEPT !.fills = EmptyShadow.fills]
           none == [i \in {} |-> 0]
<1>1. PICK age, now, M : Kept(b, age, now, M) /\ Mirror(b, age, sh)
  BY DEF Faithful
<1>2. EmptyShadow.fills = none
  BY DEF EmptyShadow
<1>3. none \in UNION {[D -> Int] : D \in SUBSET Ids}
  <2>1. none \in [{} -> Int] /\ DOMAIN none = {}
    OBVIOUS
  <2> HIDE DEF none
  <2> QED
    BY <2>1, BooksAre
<1>4. sh \in Shadow
  BY <1>1 DEF Mirror
<1>5. l = [sh EXCEPT !.fills = none]
  BY <1>2
<1> HIDE DEF none, l
<1>6. l \in Shadow /\ l.book = sh.book /\ l.ahead = sh.ahead
  BY <1>3, <1>4, <1>5 DEF Shadow
<1>7. Mirror(b, age, l)
  BY <1>1, <1>6 DEF Mirror
<1>8. Faithful(b, l)
  BY <1>1, <1>7 DEF Faithful
<1> QED
  BY <1>8, NoneIs, StepIs DEF l

\* Every command keeps the book in order and tells all it does.
LEMMA CommandsAre ==
  ASSUME NEW b, NEW sh, Fine(Step(b, <<>>), sh), NEW c \in Commands
  PROVE  /\ c.type = "AddLimit" =>
              Fine(AddLimitTo(Step(b, <<>>), c.id, c.side, c.tick, c.qty, c.tif), sh)
         /\ c.type = "AddMarket" => Fine(AddMarketTo(b, c.id, c.side, c.qty), sh)
         /\ c.type = "Cancel" => Fine(CancelIn(b, c.id), sh)
         /\ c.type = "Modify" => Fine(ModifyIn(b, c.id, c.tick, c.qty), sh)
         /\ c.type = "Reduce" => Fine(ReduceIn(b, c.id, c.qty), sh)
         /\ c.type = "Execute" => Fine(ExecuteIn(b, c.id, c.qty), sh)
         /\ c.type = "Replace" => Fine(ReplaceIn(b, c.id, c.id2, c.tick, c.qty), sh)
<1>0. InTicks \subseteq Int /\ InQty \subseteq Int
  BY BookAssumption
<1>1. ASSUME c.type = "AddLimit"
      PROVE  Fine(AddLimitTo(Step(b, <<>>), c.id, c.side, c.tick, c.qty, c.tif), sh)
  <2>1. c.id \in AnyId /\ c.side \in Sides /\ c.tick \in Int /\ c.qty \in Int /\ c.tif \in Tifs
    BY <1>0, <1>1 DEF Commands
  <2> QED
    BY <2>1, AddLimitIs
<1>2. ASSUME c.type = "AddMarket"
      PROVE  Fine(AddMarketTo(b, c.id, c.side, c.qty), sh)
  <2>1. c.side \in Sides /\ c.qty \in Int
    BY <1>0, <1>2 DEF Commands
  <2> QED
    BY <2>1, AddMarketIs
<1>3. Fine(CancelIn(b, c.id), sh)
  BY CancelIs
<1>4. ASSUME c.type = "Modify"
      PROVE  Fine(ModifyIn(b, c.id, c.tick, c.qty), sh)
  <2>1. c.id \in AnyId /\ c.tick \in Int /\ c.qty \in Int
    BY <1>0, <1>4 DEF Commands, AnyId
  <2> QED
    BY <2>1, ModifyIs
<1>5. ASSUME c.type \in {"Reduce", "Execute"}
      PROVE  Fine(ReduceIn(b, c.id, c.qty), sh) /\ Fine(ExecuteIn(b, c.id, c.qty), sh)
  <2>1. c.qty \in Int
    BY <1>0, <1>5 DEF Commands
  <2> QED
    BY <2>1, ReduceIs, ExecuteIs
<1>6. ASSUME c.type = "Replace"
      PROVE  Fine(ReplaceIn(b, c.id, c.id2, c.tick, c.qty), sh)
  <2>1. c.id2 \in AnyId /\ c.tick \in Int /\ c.qty \in Int
    BY <1>0, <1>6 DEF Commands
  <2> QED
    BY <2>1, ReplaceIs
<1> QED
  BY <1>1, <1>2, <1>3, <1>4, <1>5, <1>6

\* What a call that went as it should leaves of the variables.
LEMMA ReturnIs ==
  ASSUME NEW r, Fine(r, [shadow EXCEPT !.fills = EmptyShadow.fills]), Return(r)
  PROVE  IInv'
<1>1. bk' = r.b /\ shadow' = Told([shadow EXCEPT !.fills = EmptyShadow.fills], r.events)
  BY DEF Return, Told
<1>2. Faithful(bk', shadow') /\ Settled(bk')
  BY <1>1 DEF Fine
<1> QED
  BY <1>2 DEF IInv

\* The invariant holds at the start.
LEMMA InitIInv == Init => IInv
BY FreshIs DEF Init, IInv

\* Every step keeps it.
LEMMA NextIInv ==
  ASSUME IInv, [Next]_vars
  PROVE  IInv'
<1> DEFINE sh == [shadow EXCEPT !.fills = EmptyShadow.fills]
<1>1. Fine(Step(bk, <<>>), sh)
  BY CallBegins DEF IInv
<1>2. CASE Clear
  <2>1. bk' = FreshBook /\ shadow' = EmptyShadow
    BY <1>2 DEF Clear
  <2>2. Faithful(bk', shadow') /\ Settled(bk')
    BY <2>1, FreshIs
  <2> QED
    BY <2>2 DEF IInv
<1>3. CASE cmd' \in Commands /\ Apply(cmd')
  <2> DEFINE c == cmd'
  <2>1. c \in Commands /\ Apply(c)
    BY <1>3
  <2>2. /\ c.type = "AddLimit" =>
             Fine(AddLimitTo(Step(bk, <<>>), c.id, c.side, c.tick, c.qty, c.tif), sh)
        /\ c.type = "AddMarket" => Fine(AddMarketTo(bk, c.id, c.side, c.qty), sh)
        /\ c.type = "Cancel" => Fine(CancelIn(bk, c.id), sh)
        /\ c.type = "Modify" => Fine(ModifyIn(bk, c.id, c.tick, c.qty), sh)
        /\ c.type = "Reduce" => Fine(ReduceIn(bk, c.id, c.qty), sh)
        /\ c.type = "Execute" => Fine(ExecuteIn(bk, c.id, c.qty), sh)
        /\ c.type = "Replace" => Fine(ReplaceIn(bk, c.id, c.id2, c.tick, c.qty), sh)
    BY <1>1, <2>1, CommandsAre
  <2>3. \E r : Return(r) /\ Fine(r, sh)
    BY <2>1, <2>2 DEF Apply, AddLimit, AddMarket, Cancel, Modify, Reduce, Execute, Replace
  <2> QED
    BY <2>3, ReturnIs
<1>4. CASE UNCHANGED vars
  BY <1>4 DEF vars, IInv
<1> QED
  BY <1>2, <1>3, <1>4 DEF Next

\* The invariant holds after every sequence of calls: the book is in order, the
\* events have told an observer all of it, and its bitmap and best prices are right.
THEOREM SpecIInv == Spec => []IInv
<1> QED
  BY InitIInv, NextIInv, PTL DEF Spec

-----------------------------------------------------------------------------
(***************************************************************************)
(* The cached best prices.                                                  *)
(***************************************************************************)

\* What the best prices of a settled book are.
LEMMA BidsAndAsks ==
  ASSUME NEW b \in Book, Sound(b), Settled(b)
  PROVE  LET at(side) == {b.pool[s].tick : s \in {r \in LiveSlots(b) : b.pool[r].side = side}}
             bids == at("Buy")
             asks == at("Sell")
         IN /\ b.best_bid = IF bids = {} THEN InvalidTick ELSE Max(bids)
            /\ b.best_ask = IF asks = {} THEN InvalidTick ELSE Min(asks)
            /\ bids # {} /\ asks # {} => b.best_bid < b.best_ask
<1> DEFINE bids == {b.pool[s].tick : s \in {r \in LiveSlots(b) : b.pool[r].side = "Buy"}}
           asks == {b.pool[s].tick : s \in {r \in LiveSlots(b) : b.pool[r].side = "Sell"}}
<1>1. /\ bids = {b.pool[s].tick : s \in Makers(b, "Sell")}
      /\ asks = {b.pool[s].tick : s \in Makers(b, "Buy")}
  BY OppositeIs DEF Makers
<1>2. bids \subseteq Ticks /\ asks \subseteq Ticks
  BY OrderIs
<1>3. Ticks \subseteq Int /\ InvalidTick \notin Ticks /\ MinTick \in Int /\ MaxTick \in Int
      /\ \A t \in Ticks : MinTick <= t /\ t <= MaxTick
  BY TicksAre, BookAssumption DEF Ticks
<1>4. TopIs(b, "Buy") /\ TopIs(b, "Sell") /\ Apart(b)
  BY DEF Settled
<1>5. BestFor(b, "Buy") = b.best_ask /\ BestFor(b, "Sell") = b.best_bid
  BY DEF BestFor
<1>6. b.best_bid \in Int /\ b.best_ask \in Int
  BY DEF Book
<1>7. b.best_bid = IF bids = {} THEN InvalidTick ELSE Max(bids)
  <2>1. CASE b.best_bid = InvalidTick
    <3>1. bids = {}
      BY <1>1, <1>4, <1>5, <2>1 DEF TopIs
    <3> QED
      BY <2>1, <3>1
  <2>2. CASE b.best_bid # InvalidTick
    <3>1. b.best_bid \in bids
      BY <1>1, <1>4, <1>5, <2>2 DEF TopIs, SomeoneAt
    <3>2. \A t \in bids : ~(t > b.best_bid)
      BY <1>1, <1>4, <1>5, <2>2 DEF TopIs, NoneBetter, Better
    <3> HIDE DEF bids
    <3>3. bids \subseteq Int /\ bids # {} /\ MaxTick \in Int /\ \A t \in bids : t <= MaxTick
      BY <1>2, <1>3, <3>1
    <3>4. Max(bids) \in bids /\ \A t \in bids : t <= Max(bids)
      BY <3>3, MaxIs
    <3>5. Max(bids) = b.best_bid
      <4>1. Max(bids) \in Int /\ ~(Max(bids) > b.best_bid) /\ b.best_bid <= Max(bids)
        BY <3>1, <3>2, <3>3, <3>4
      <4> QED
        BY <1>6, <4>1
    <3> QED
      BY <3>3, <3>5
  <2> QED
    BY <2>1, <2>2
<1>8. b.best_ask = IF asks = {} THEN InvalidTick ELSE Min(asks)
  <2>1. CASE b.best_ask = InvalidTick
    <3>1. asks = {}
      BY <1>1, <1>4, <1>5, <2>1 DEF TopIs
    <3> QED
      BY <2>1, <3>1
  <2>2. CASE b.best_ask # InvalidTick
    <3>1. b.best_ask \in asks
      BY <1>1, <1>4, <1>5, <2>2 DEF TopIs, SomeoneAt
    <3>2. \A t \in asks : ~(t < b.best_ask)
      BY <1>1, <1>4, <1>5, <2>2 DEF TopIs, NoneBetter, Better
    <3> HIDE DEF asks
    <3>3. asks \subseteq Int /\ asks # {} /\ MinTick \in Int /\ \A t \in asks : MinTick <= t
      BY <1>2, <1>3, <3>1
    <3>4. Min(asks) \in asks /\ \A t \in asks : Min(asks) <= t
      BY <3>3, MinIs
    <3>5. Min(asks) = b.best_ask
      <4>1. Min(asks) \in Int /\ ~(Min(asks) < b.best_ask) /\ Min(asks) <= b.best_ask
        BY <3>1, <3>2, <3>3, <3>4
      <4> QED
        BY <1>6, <4>1
    <3> QED
      BY <3>3, <3>5
  <2> QED
    BY <2>1, <2>2
<1>9. ASSUME bids # {}, asks # {}
      PROVE  b.best_bid < b.best_ask
  <2>1. b.best_bid # InvalidTick
    <3>1. Makers(b, "Sell") # {}
      BY <1>1, <1>9
    <3> QED
      BY <1>4, <1>5, <3>1 DEF TopIs
  <2>2. b.best_ask # InvalidTick
    <3>1. Makers(b, "Buy") # {}
      BY <1>1, <1>9
    <3> QED
      BY <1>4, <1>5, <3>1 DEF TopIs
  <2>3. SomeoneAt(b, "Sell", b.best_bid) /\ SomeoneAt(b, "Buy", b.best_ask)
    BY <1>4, <1>5, <2>1, <2>2 DEF TopIs
  <2>4. PICK r \in LiveSlots(b) : b.pool[r].side = "Buy" /\ b.pool[r].tick = b.best_bid
    BY <2>3, OppositeIs DEF SomeoneAt, Makers
  <2>5. PICK s \in LiveSlots(b) : b.pool[s].side = "Sell" /\ b.pool[s].tick = b.best_ask
    BY <2>3, OppositeIs DEF SomeoneAt, Makers
  <2> QED
    BY <1>4, <2>4, <2>5 DEF Apart
<1> QED
  BY <1>7, <1>8, <1>9

\* Its best prices are the best of the resting orders, and they do not cross.
THEOREM SpecBestIsBest == Spec => []BestIsBest
<1>1. IInv => BestIsBest
  <2> SUFFICES ASSUME IInv PROVE BestIsBest
    OBVIOUS
  <2>1. bk \in Book /\ Sound(bk) /\ Settled(bk)
    BY FaithfulIs DEF IInv
  <2> QED
    BY <2>1, BidsAndAsks DEF BestIsBest
<1> QED
  BY <1>1, SpecIInv, PTL

-----------------------------------------------------------------------------
(***************************************************************************)
(* Walks along the links.                                                   *)
(***************************************************************************)

\* What slot the link of slot s leads to.
Link(b, link, s) == IF link = "next" THEN b.pool[s].next ELSE b.pool[s].prev

\* The links of b lead from x through T in the order of rank.
Strung(b, link, T, rank, x) ==
  /\ Oldest(T, rank, x)
  /\ \A s \in T : Oldest(Later(T, rank, s), rank, Link(b, link, s))

\* The list q holds T in the order of rank.
Listed(q, T, rank) ==
  /\ DOMAIN q = 1 .. Cardinality(T)
  /\ \A k \in DOMAIN q : q[k] \in T /\ Cardinality(Earlier(T, rank, q[k])) = k - 1
  /\ \A s \in T : \E k \in DOMAIN q : q[k] = s

\* Where in such a list a slot stands.
LEMMA StandsAt ==
  ASSUME NEW rank, NEW now, Aged(rank, now), NEW T \in SUBSET Slots, NEW s \in T
  PROVE  /\ Cardinality(Earlier(T, rank, s)) \in Nat
         /\ Cardinality(Earlier(T, rank, s)) < Cardinality(T)
         /\ Later(T, rank, s) = {} => Cardinality(T) = Cardinality(Earlier(T, rank, s)) + 1
         /\ \A r \in T : rank[s] < rank[r] =>
              Cardinality(Earlier(T, rank, s)) < Cardinality(Earlier(T, rank, r))
<1> DEFINE E(r) == Earlier(T, rank, r)
<1>1. \A r \in T : E(r) \in SUBSET Slots /\ E(r) \subseteq T \ {r}
  <2>1. \A r \in T : rank[r] \in Nat
    BY DEF Aged
  <2> QED
    BY <2>1 DEF Earlier
<1>2. \A r \in T : Cardinality(E(r)) \in Nat /\ IsFiniteSet(E(r))
  BY <1>1, SetsOfSlots
<1>3. s \in Slots \ E(s)
  BY <1>1
<1>4. Cardinality(E(s) \union {s}) = Cardinality(E(s)) + 1
  BY <1>1, <1>3, SetsOfSlots
<1>5. ASSUME NEW U \in SUBSET Slots, E(s) \union {s} \subseteq U
      PROVE  Cardinality(E(s)) < Cardinality(U)
  <2> DEFINE S == E(s) \union {s}
  <2>1. IsFiniteSet(U) /\ Cardinality(U) \in Nat
    BY SetsOfSlots
  <2> HIDE DEF S
  <2>2. Cardinality(S) <= Cardinality(U)
    BY <1>5, <2>1, FS_Subset DEF S
  <2>3. Cardinality(S) = Cardinality(E(s)) + 1
    BY <1>4 DEF S
  <2>4. Cardinality(E(s)) \in Nat
    BY <1>2
  <2> HIDE DEF E
  <2> QED
    BY <2>1, <2>2, <2>3, <2>4
<1>6. Cardinality(E(s)) < Cardinality(T)
  <2>1. E(s) \union {s} \subseteq T
    BY <1>1
  <2> QED
    BY <1>5, <2>1
<1>7. ASSUME Later(T, rank, s) = {}
      PROVE  Cardinality(T) = Cardinality(E(s)) + 1
  <2>1. \A r \in T : r = s \/ r \in E(s)
    <3> SUFFICES ASSUME NEW r \in T, r # s PROVE r \in E(s)
      OBVIOUS
    <3>1. rank[r] \in Nat /\ rank[s] \in Nat /\ rank[r] # rank[s]
      BY DEF Aged
    <3>2. ~(rank[s] < rank[r])
      BY <1>7 DEF Later
    <3> QED
      BY <3>1, <3>2 DEF Earlier
  <2>2. T = E(s) \union {s}
    BY <1>1, <2>1
  <2> QED
    BY <1>4, <2>2
<1>8. ASSUME NEW r \in T, rank[s] < rank[r]
      PROVE  Cardinality(E(s)) < Cardinality(E(r))
  <2>1. \A u \in T : rank[u] \in Nat
    BY DEF Aged
  <2>2. E(s) \union {s} \subseteq E(r)
    BY <1>8, <2>1 DEF Earlier
  <2>3. E(r) \in SUBSET Slots
    BY <1>1
  <2> QED
    BY <1>5, <2>2, <2>3
<1> QED
  BY <1>2, <1>6, <1>7, <1>8

\* Those before the next one are those before this one, and this one.
LEMMA NextStandsAt ==
  ASSUME NEW rank, NEW now, Aged(rank, now), NEW T \in SUBSET Slots, NEW s \in T,
         NEW r, r # NullSlot, Oldest(Later(T, rank, s), rank, r)
  PROVE  r \in T /\ Cardinality(Earlier(T, rank, r)) = Cardinality(Earlier(T, rank, s)) + 1
<1>1. r \in T /\ rank[s] < rank[r] /\ \A u \in Later(T, rank, s) : rank[r] <= rank[u]
  BY DEF Oldest, Later
<1>2. \A u \in T : rank[u] \in Nat /\ \A v \in T : rank[u] = rank[v] => u = v
  BY DEF Aged
<1>3. ASSUME NEW u \in T
      PROVE  rank[u] < rank[r] <=> rank[u] < rank[s] \/ u = s
  <2>1. ~(rank[s] < rank[u]) \/ rank[r] <= rank[u]
    BY <1>1 DEF Later
  <2>2. rank[u] \in Nat /\ rank[r] \in Nat /\ rank[s] \in Nat /\ (rank[u] = rank[s] => u = s)
    BY <1>1, <1>2
  <2> QED
    BY <1>1, <2>1, <2>2
<1>4. Earlier(T, rank, r) = Earlier(T, rank, s) \union {s}
  BY <1>3 DEF Earlier
<1>5. s \in Slots \ Earlier(T, rank, s) /\ Earlier(T, rank, s) \in SUBSET Slots
  BY <1>2 DEF Earlier
<1> QED
  BY <1>1, <1>4, <1>5, SetsOfSlots

\* How far a walk of k links has come.
Walked(T, rank, s, k) ==
  IF s = NullSlot THEN Cardinality(T) <= k
  ELSE s \in T /\ Cardinality(Earlier(T, rank, s)) = k

\* A link further.
LEMMA WalkMore ==
  ASSUME NEW b, NEW link, NEW rank, NEW now, Aged(rank, now), NEW T \in SUBSET Slots, NEW x,
         Strung(b, link, T, rank, x), NEW s, NEW k \in Nat, Walked(T, rank, s, k)
  PROVE  Walked(T, rank, IF s = NullSlot THEN s ELSE Link(b, link, s), k + 1)
<1>1. Cardinality(T) \in Nat
  BY SetsOfSlots
<1>2. CASE s = NullSlot
  BY <1>1, <1>2 DEF Walked
<1>3. CASE s # NullSlot
  <2> DEFINE r == Link(b, link, s)
  <2>1. s \in T /\ Cardinality(Earlier(T, rank, s)) = k
    BY <1>3 DEF Walked
  <2>2. Oldest(Later(T, rank, s), rank, r)
    BY <2>1 DEF Strung
  <2> HIDE DEF r
  <2>3. CASE r = NullSlot
    <3>1. Later(T, rank, s) = {}
      BY <2>2, <2>3 DEF Oldest
    <3>2. Cardinality(T) = k + 1
      BY <2>1, <3>1, StandsAt
    <3> QED
      BY <1>1, <1>3, <2>3, <3>2 DEF Walked, r
  <2>4. CASE r # NullSlot
    <3>1. r \in T /\ Cardinality(Earlier(T, rank, r)) = k + 1
      BY <2>1, <2>2, <2>4, NextStandsAt
    <3> QED
      BY <1>3, <2>4, <3>1 DEF Walked, r
  <2> QED
    BY <2>3, <2>4
<1> QED
  BY <1>2, <1>3

\* A walk begins at the eldest.
LEMMA WalkBegins ==
  ASSUME NEW rank, NEW now, Aged(rank, now), NEW T \in SUBSET Slots, NEW x, Oldest(T, rank, x)
  PROVE  Walked(T, rank, x, 0)
<1>1. CASE x = NullSlot
  <2>1. Cardinality(T) = 0
    BY <1>1, SetsOfSlots DEF Oldest
  <2> QED
    BY <1>1, <2>1 DEF Walked
<1>2. CASE x # NullSlot
  <2>1. x \in T /\ \A r \in T : rank[x] <= rank[r]
    BY <1>2 DEF Oldest
  <2>2. \A r \in T : rank[r] \in Nat
    BY DEF Aged
  <2>3. Earlier(T, rank, x) = {}
    BY <2>1, <2>2 DEF Earlier
  <2> QED
    BY <1>2, <2>1, <2>3, SetsOfSlots DEF Walked
<1> QED
  BY <1>1, <1>2

ChainPasses(f, b, s, link) ==
  f = [k \in 0 .. PoolSize |->
         IF k = 0 THEN s
         ELSE LET r == f[k - 1] IN
              IF r = NullSlot THEN r
              ELSE IF link = "next" THEN b.pool[r].next ELSE b.pool[r].prev]

\* The slots of a walk, up to its end.
Met(F) == [k \in 1 .. Cardinality({j \in 0 .. PoolSize : F[j] # NullSlot}) |-> F[k - 1]]

\* Chain is a loop along the links.
LEMMA ChainRuns ==
  ASSUME NEW b, NEW s, NEW link \in {"next", "prev"}
  PROVE  \E F : Runs(F, link, s, b, 0) /\ Chain(b, s, link) = Met(F)
<1> DEFINE p == CHOOSE f : ChainPasses(f, b, s, link)
<1>1. PICK f : Passes(f, link, s, b, 0, PoolSize)
  BY PassesExist, BookAssumption
<1>2. ChainPasses(f, b, s, link)
  BY <1>1 DEF Passes, ChainPasses, Pass
<1>3. ChainPasses(p, b, s, link)
  BY <1>2
<1>4. Chain(b, s, link) = Met(p)
  BY DEF Chain, ChainPasses, Met
<1> HIDE DEF p
<1>5. Passes(p, link, s, b, 0, PoolSize)
  BY <1>3 DEF Passes, ChainPasses, Pass
<1>6. Runs(p, link, s, b, 0)
  BY <1>5, PassesRun
<1> QED
  BY <1>4, <1>6

\* A walk along links that string T meets T, in the order of rank.
LEMMA ChainIs ==
  ASSUME NEW b, NEW link \in {"next", "prev"}, NEW rank, NEW now, Aged(rank, now),
         NEW T \in SUBSET Slots, NEW x, Strung(b, link, T, rank, x)
  PROVE  /\ Listed(Chain(b, x, link), T, rank)
         /\ Chain(b, x, link) \in [1 .. Cardinality(T) -> T]
<1> DEFINE q == Chain(b, x, link)
           n == Cardinality(T)
<1>1. PoolSize \in Nat /\ n \in Nat /\ n <= PoolSize
  BY BookAssumption, SetsOfSlots
<1>2. PICK F : Runs(F, link, x, b, 0) /\ q = Met(F)
  BY ChainRuns
<1> DEFINE W == {k \in 0 .. PoolSize : ~Walked(T, rank, F[k], k)}
<1>3. W = {}
  <2> SUFFICES ASSUME W # {} PROVE FALSE
    OBVIOUS
  <2>1. PICK k \in W : \A j \in W : k <= j
    <3>1. W \subseteq Nat
      BY <1>1
    <3> HIDE DEF W
    <3> QED
      BY <3>1, LeastNat
  <2>2. k \in 0 .. PoolSize /\ ~Walked(T, rank, F[k], k)
    BY <2>1
  <2>3. k # 0
    <3>1. F[0] = x
      BY <1>2 DEF Runs
    <3>2. Walked(T, rank, x, 0)
      BY WalkBegins DEF Strung
    <3> QED
      BY <2>2, <3>1, <3>2
  <2>4. k \in 1 .. PoolSize /\ k - 1 \in 0 .. PoolSize /\ ~(k <= k - 1) /\ k - 1 \in Nat
        /\ k - 1 + 1 = k
    BY <1>1, <2>2, <2>3
  <2>5. Walked(T, rank, F[k - 1], k - 1)
    BY <2>1, <2>4
  <2>6. F[k] = IF F[k - 1] = NullSlot THEN F[k - 1] ELSE Link(b, link, F[k - 1])
    BY <1>2, <2>4 DEF Runs, Pass, Link
  <2>7. Walked(T, rank, IF F[k - 1] = NullSlot THEN F[k - 1] ELSE Link(b, link, F[k - 1]),
               k - 1 + 1)
    BY <2>4, <2>5, WalkMore
  <2> QED
    BY <2>2, <2>4, <2>6, <2>7
<1>4. ASSUME NEW k \in 0 .. PoolSize
      PROVE  /\ F[k] # NullSlot <=> k < n
             /\ F[k] # NullSlot => F[k] \in T /\ Cardinality(Earlier(T, rank, F[k])) = k
  <2>1. Walked(T, rank, F[k], k) /\ k \in Nat
    BY <1>1, <1>3
  <2>2. CASE F[k] = NullSlot
    BY <1>1, <2>1, <2>2 DEF Walked
  <2>3. CASE F[k] # NullSlot
    <3>1. F[k] \in T /\ Cardinality(Earlier(T, rank, F[k])) = k
      BY <2>1, <2>3 DEF Walked
    <3>2. Cardinality(Earlier(T, rank, F[k])) < n
      BY <3>1, StandsAt
    <3> QED
      BY <2>3, <3>1, <3>2
  <2> QED
    BY <2>2, <2>3
<1> HIDE DEF n
<1>5. Cardinality({j \in 0 .. PoolSize : F[j] # NullSlot}) = n
  <2>1. {j \in 0 .. PoolSize : F[j] # NullSlot} = 0 .. n - 1
    BY <1>1, <1>4
  <2>2. 0 \in Int /\ n - 1 \in Int /\ (0 > n - 1 => n = 0) /\ (n - 1) - 0 + 1 = n
    BY <1>1
  <2>3. Cardinality(0 .. n - 1) = n
    BY <2>2, FS_Interval
  <2> QED
    BY <2>1, <2>3
<1>6. DOMAIN q = 1 .. n /\ \A k \in 1 .. n : q[k] = F[k - 1]
  BY <1>2, <1>5 DEF Met
<1>7. ASSUME NEW k \in 1 .. n
      PROVE  q[k] \in T /\ Cardinality(Earlier(T, rank, q[k])) = k - 1
  <2>1. k - 1 \in 0 .. PoolSize /\ k - 1 < n
    BY <1>1
  <2> QED
    BY <1>4, <1>6, <2>1
<1>8. ASSUME NEW s \in T
      PROVE  \E k \in 1 .. n : q[k] = s
  <2> DEFINE k == Cardinality(Earlier(T, rank, s)) + 1
  <2>1. k \in 1 .. n /\ k - 1 = Cardinality(Earlier(T, rank, s))
    <3>1. Cardinality(Earlier(T, rank, s)) \in Nat /\ Cardinality(Earlier(T, rank, s)) < n
      BY StandsAt DEF n
    <3> QED
      BY <1>1, <3>1
  <2> HIDE DEF k
  <2>2. q[k] \in T /\ Cardinality(Earlier(T, rank, q[k])) = Cardinality(Earlier(T, rank, s))
    BY <1>7, <2>1
  <2>3. ~(rank[q[k]] < rank[s]) /\ ~(rank[s] < rank[q[k]])
    <3>1. Cardinality(Earlier(T, rank, s)) \in Nat
      BY StandsAt
    <3>2. rank[s] < rank[q[k]] => FALSE
      <4>1. rank[s] < rank[q[k]] =>
              Cardinality(Earlier(T, rank, s)) < Cardinality(Earlier(T, rank, q[k]))
        BY <2>2, StandsAt
      <4> QED
        BY <2>2, <3>1, <4>1
    <3>3. rank[q[k]] < rank[s] => FALSE
      <4>1. rank[q[k]] < rank[s] =>
              Cardinality(Earlier(T, rank, q[k])) < Cardinality(Earlier(T, rank, s))
        BY <2>2, StandsAt
      <4> QED
        BY <2>2, <3>1, <4>1
    <3> QED
      BY <3>2, <3>3
  <2>4. rank[q[k]] \in Nat /\ rank[s] \in Nat /\ (rank[q[k]] = rank[s] => q[k] = s)
    BY <2>2 DEF Aged
  <2>5. q[k] = s
    BY <2>3, <2>4
  <2> QED
    BY <2>1, <2>5
<1>9. q \in [1 .. n -> T]
  <2>1. q = [k \in 1 .. n |-> F[k - 1]]
    BY <1>2, <1>5 DEF Met
  <2>2. \A k \in 1 .. n : F[k - 1] \in T
    BY <1>6, <1>7
  <2> HIDE DEF q
  <2> QED
    BY <2>1, <2>2
<1> QED
  BY <1>6, <1>7, <1>8, <1>9 DEF Listed, n

-----------------------------------------------------------------------------

\* Age the other way around.
Turned(age, now) == [s \in Slots |-> now - age[s]]

\* Oldest and youngest change places.
LEMMA TurnedIs ==
  ASSUME NEW age, NEW now, Aged(age, now), NEW T \in SUBSET Slots
  PROVE  LET rank == Turned(age, now) IN
         /\ Aged(rank, now + 1)
         /\ \A x : Oldest(T, rank, x) <=> Youngest(T, age, x)
         /\ \A s \in Slots : /\ Earlier(T, rank, s) = Later(T, age, s)
                             /\ Later(T, rank, s) = Earlier(T, age, s)
<1> DEFINE rank == Turned(age, now)
<1>1. /\ now \in Nat /\ \A s \in Slots : age[s] \in Nat /\ age[s] < now
      /\ \A r, s \in Slots : age[r] = age[s] => r = s
  BY DEF Aged
<1>2. \A s \in Slots : rank[s] = now - age[s]
  BY DEF Turned
<1>3. \A s \in Slots : now - age[s] \in Nat /\ now - age[s] < now + 1
  BY <1>1
<1>4. rank \in [Slots -> Nat] /\ now + 1 \in Nat
  BY <1>1, <1>3 DEF Turned
<1> HIDE DEF rank
<1>5. \A r, s \in Slots : /\ rank[r] < rank[s] <=> age[s] < age[r]
                          /\ rank[r] <= rank[s] <=> age[s] <= age[r]
                          /\ rank[r] = rank[s] <=> age[s] = age[r]
  BY <1>1, <1>2
<1>6. Aged(rank, now + 1)
  BY <1>1, <1>2, <1>3, <1>4, <1>5 DEF Aged
<1>7. \A x : Oldest(T, rank, x) <=> Youngest(T, age, x)
  BY <1>5 DEF Oldest, Youngest
<1>8. \A s \in Slots : /\ Earlier(T, rank, s) = Later(T, age, s)
                       /\ Later(T, rank, s) = Earlier(T, age, s)
  BY <1>5 DEF Earlier, Later
<1> QED
  BY <1>6, <1>7, <1>8 DEF rank

\* The lists that a book in order holds: its queues both ways, and the free list.
LEMMA QueueIs ==
  ASSUME NEW b, NEW age, NEW now, NEW M, Kept(b, age, now, M), NEW i \in Levels
  PROVE  /\ Listed(Queue(b, i), At(b, i), age)
         /\ Queue(b, i) \in [1 .. Cardinality(At(b, i)) -> At(b, i)]
<1>1. Aged(age, now) /\ Ends(b, age, i) /\ Linked(b, age, i)
  BY DEF Kept, Queued
<1>2. Strung(b, "next", At(b, i), age, b.levels[i].head)
  BY <1>1 DEF Strung, Ends, Linked, Link
<1>3. At(b, i) \in SUBSET Slots
  BY AtIs
<1>4. "next" \in {"next", "prev"}
  OBVIOUS
<1> QED
  BY <1>1, <1>2, <1>3, <1>4, ChainIs DEF Queue

\* A queue met from its tail along the links back.
LEMMA QueueBackIs ==
  ASSUME NEW b, NEW age, NEW now, NEW M, Kept(b, age, now, M), NEW i \in Levels
  PROVE  LET p == Chain(b, b.levels[i].tail, "prev") IN
         /\ Listed(p, At(b, i), Turned(age, now))
         /\ p \in [1 .. Cardinality(At(b, i)) -> At(b, i)]
<1> DEFINE T == At(b, i)
           rank == Turned(age, now)
<1>1. Aged(age, now) /\ Ends(b, age, i) /\ Linked(b, age, i)
  BY DEF Kept, Queued
<1>2. T \in SUBSET Slots
  BY AtIs
<1>3. /\ Youngest(T, age, b.levels[i].tail)
      /\ \A s \in T : Youngest(Earlier(T, age, s), age, Link(b, "prev", s))
  BY <1>1 DEF Ends, Linked, Link
<1> HIDE DEF T
<1>4. Aged(rank, now + 1) /\ Oldest(T, rank, b.levels[i].tail)
  BY <1>1, <1>2, <1>3, TurnedIs
<1>5. ASSUME NEW s \in T
      PROVE  Oldest(Later(T, rank, s), rank, Link(b, "prev", s))
  <2>1. s \in Slots /\ Earlier(T, age, s) \in SUBSET Slots
    BY <1>2 DEF Earlier
  <2>2. Later(T, rank, s) = Earlier(T, age, s)
    BY <1>1, <1>2, <2>1, TurnedIs
  <2>3. Oldest(Earlier(T, age, s), rank, Link(b, "prev", s))
    BY <1>1, <1>3, <2>1, TurnedIs
  <2> QED
    BY <2>2, <2>3
<1>6. Strung(b, "prev", T, rank, b.levels[i].tail)
  BY <1>4, <1>5 DEF Strung
<1>7. "prev" \in {"next", "prev"}
  OBVIOUS
<1> HIDE DEF rank
<1> QED
  BY <1>2, <1>4, <1>6, <1>7, ChainIs DEF T, rank

\* The free list.
LEMMA FreeListIs ==
  ASSUME NEW b, NEW age, NEW now, NEW M, Kept(b, age, now, M)
  PROVE  LET p == Chain(b, b.free_head, "next") IN
         /\ Listed(p, Dead(b), Turned(age, now))
         /\ p \in [1 .. Cardinality(Dead(b)) -> Dead(b)]
<1> DEFINE T == Dead(b)
           rank == Turned(age, now)
<1>1. Aged(age, now) /\ Spare(b, age)
  BY DEF Kept
<1>2. T \in SUBSET Slots
  BY DEF Dead
<1>3. /\ Youngest(T, age, b.free_head)
      /\ \A s \in T : Youngest(Earlier(T, age, s), age, Link(b, "next", s))
  BY <1>1 DEF Spare, Link
<1> HIDE DEF T
<1>4. Aged(rank, now + 1) /\ Oldest(T, rank, b.free_head)
  BY <1>1, <1>2, <1>3, TurnedIs
<1>5. ASSUME NEW s \in T
      PROVE  Oldest(Later(T, rank, s), rank, Link(b, "next", s))
  <2>1. s \in Slots /\ Earlier(T, age, s) \in SUBSET Slots
    BY <1>2 DEF Earlier
  <2>2. Later(T, rank, s) = Earlier(T, age, s)
    BY <1>1, <1>2, <2>1, TurnedIs
  <2>3. Oldest(Earlier(T, age, s), rank, Link(b, "next", s))
    BY <1>1, <1>3, <2>1, TurnedIs
  <2> QED
    BY <2>2, <2>3
<1>6. Strung(b, "next", T, rank, b.free_head)
  BY <1>4, <1>5 DEF Strung
<1>7. "next" \in {"next", "prev"}
  OBVIOUS
<1> HIDE DEF rank
<1> QED
  BY <1>2, <1>4, <1>6, <1>7, ChainIs DEF T, rank

\* No two slots stand in one place.
LEMMA OnePlace ==
  ASSUME NEW rank, NEW now, Aged(rank, now), NEW T \in SUBSET Slots, NEW r \in T, NEW s \in T,
         Cardinality(Earlier(T, rank, r)) = Cardinality(Earlier(T, rank, s))
  PROVE  r = s
<1>1. Cardinality(Earlier(T, rank, s)) \in Nat
  BY StandsAt
<1>2. rank[s] < rank[r] => Cardinality(Earlier(T, rank, s)) < Cardinality(Earlier(T, rank, r))
  BY StandsAt
<1>3. rank[r] < rank[s] => Cardinality(Earlier(T, rank, r)) < Cardinality(Earlier(T, rank, s))
  BY StandsAt
<1>4. rank[r] \in Nat /\ rank[s] \in Nat /\ (rank[r] = rank[s] => r = s)
  BY DEF Aged
<1> QED
  BY <1>1, <1>2, <1>3, <1>4

\* A list of slots is met backwards along the links back.
LEMMA ReverseIs ==
  ASSUME NEW age, NEW now, Aged(age, now), NEW T \in SUBSET Slots,
         NEW q \in [1 .. Cardinality(T) -> T], Listed(q, T, age),
         NEW p \in [1 .. Cardinality(T) -> T], Listed(p, T, Turned(age, now))
  PROVE  p = Reverse(q) /\ Len(q) = Cardinality(T)
<1> DEFINE n == Cardinality(T)
           rank == Turned(age, now)
<1>1. n \in Nat /\ IsFiniteSet(T)
  BY SetsOfSlots
<1>2. ASSUME NEW s \in T
      PROVE  Cardinality(Earlier(T, age, s)) = n - 1 - Cardinality(Later(T, age, s))
  <2> DEFINE E == Earlier(T, age, s)
             L == Later(T, age, s)
  <2>1. \A r \in T : age[r] \in Nat /\ (age[r] = age[s] => r = s)
    BY DEF Aged
  <2>2. E \in SUBSET Slots /\ L \in SUBSET Slots /\ E \intersect L = {} /\ E \union L = T \ {s}
    BY <2>1 DEF Earlier, Later
  <2>3. IsFiniteSet(E) /\ IsFiniteSet(L) /\ Cardinality(E) \in Nat /\ Cardinality(L) \in Nat
    BY <2>2, SetsOfSlots
  <2>4. Cardinality(T \ {s}) = n - 1
    BY SetsOfSlots
  <2> HIDE DEF E, L, n
  <2>5. Cardinality(E \union L) = Cardinality(E) + Cardinality(L) - Cardinality(E \intersect L)
    BY <2>3, FS_Union
  <2>6. Cardinality(E \intersect L) = 0
    BY <2>2, FS_EmptySet
  <2>7. Cardinality(E \union L) = n - 1
    BY <2>2, <2>4
  <2>8. Cardinality(E) = n - 1 - Cardinality(L)
    BY <1>1, <2>3, <2>5, <2>6, <2>7
  <2> QED
    BY <2>8 DEF E, L, n
<1> HIDE DEF n
<1>3. Len(q) = n /\ q \in Seq(T)
  BY <1>1 DEF n
<1>4. DOMAIN q = 1 .. n /\ DOMAIN p = 1 .. n
  BY DEF n
<1>5. ASSUME NEW k \in 1 .. n
      PROVE  p[k] = q[(n - k) + 1]
  <2> DEFINE j == (n - k) + 1
  <2>1. j \in 1 .. n /\ j - 1 = n - k /\ k \in Nat
    BY <1>1
  <2> HIDE DEF j
  <2>2. p[k] \in T /\ Cardinality(Earlier(T, rank, p[k])) = k - 1
    BY <1>4 DEF Listed
  <2>3. q[j] \in T /\ Cardinality(Earlier(T, age, q[j])) = j - 1
    BY <1>4, <2>1 DEF Listed
  <2>4. Earlier(T, rank, p[k]) = Later(T, age, p[k])
    BY <2>2, TurnedIs
  <2>5. Cardinality(Earlier(T, age, p[k])) = n - 1 - (k - 1)
    BY <1>2, <2>2, <2>4
  <2>6. Cardinality(Earlier(T, age, p[k])) = Cardinality(Earlier(T, age, q[j]))
    BY <1>1, <2>1, <2>3, <2>5
  <2>7. p[k] = q[j]
    BY <2>2, <2>3, <2>6, OnePlace
  <2> QED
    BY <2>7 DEF j
<1>6. p = [k \in 1 .. n |-> q[(n - k) + 1]]
  BY <1>5 DEF n
<1> QED
  BY <1>3, <1>6 DEF Reverse, n

\* Different places in a list hold different slots.
LEMMA ListedOnce ==
  ASSUME NEW q, NEW T, NEW rank, Listed(q, T, rank), NEW j \in DOMAIN q, NEW k \in DOMAIN q,
         q[j] = q[k], Cardinality(T) \in Nat
  PROVE  j = k
<1>1. j - 1 = k - 1 /\ j \in Int /\ k \in Int
  BY DEF Listed
<1> QED
  BY <1>1

\* What the slots of a list add up to is what the set of them weighs.
LEMMA SumIs ==
  ASSUME NEW b \in Book, NEW M, Weighs(M, b), NEW T \in SUBSET Slots, NEW rank,
         NEW q \in [1 .. Cardinality(T) -> T], Listed(q, T, rank)
  PROVE  Sum(b, q) = M[T]
<1> DEFINE n == Cardinality(T)
           P(k) == {q[j] : j \in 1 .. k}
<1>1. n \in Nat /\ DOMAIN q = 1 .. n
  BY SetsOfSlots
<1> HIDE DEF n
<1>2. PICK F : Carries(F, "weigh", b, 0, q, n) /\ F[n] = Sum(b, q)
  BY <1>1, SumCarries
<1> DEFINE W == {k \in 0 .. n : F[k] # M[P(k)]}
<1>3. W = {}
  <2> SUFFICES ASSUME W # {} PROVE FALSE
    OBVIOUS
  <2>1. PICK k \in W : \A j \in W : k <= j
    <3>1. W \subseteq Nat
      BY <1>1
    <3> HIDE DEF W
    <3> QED
      BY <3>1, LeastNat
  <2>2. k \in 0 .. n /\ F[k] # M[P(k)]
    BY <2>1
  <2>3. k # 0
    <3>1. P(0) = {}
      OBVIOUS
    <3>2. F[0] = 0 /\ M[{}] = 0
      BY <1>2 DEF Carries, Weighs
    <3> HIDE DEF P
    <3> QED
      BY <2>2, <3>1, <3>2
  <2>4. k \in 1 .. n /\ k - 1 \in 0 .. n /\ ~(k <= k - 1) /\ k \notin 1 .. k - 1
        /\ 1 .. k = (1 .. k - 1) \union {k} /\ 1 .. k - 1 \subseteq 1 .. n
    BY <1>1, <2>2, <2>3
  <2>5. F[k - 1] = M[P(k - 1)]
    BY <2>1, <2>4
  <2>6. F[k] = F[k - 1] + b.pool[q[k]].qty
    BY <1>2, <2>4 DEF Carries, Do
  <2>7. P(k) = P(k - 1) \union {q[k]}
    BY <2>4
  <2>8. P(k - 1) \in SUBSET Slots /\ q[k] \in Slots \ P(k - 1)
    <3>1. \A j \in 1 .. k - 1 : q[j] \in Slots /\ q[j] # q[k]
      BY <1>1, <2>4, ListedOnce DEF n
    <3>2. q[k] \in Slots
      BY <1>1, <2>4 DEF n
    <3> QED
      BY <3>1, <3>2
  <2> HIDE DEF P
  <2>9. M[P(k - 1) \union {q[k]}] = M[P(k - 1)] + b.pool[q[k]].qty
    BY <2>8 DEF Weighs
  <2> QED
    BY <2>2, <2>5, <2>6, <2>7, <2>9
<1>4. P(n) = T
  BY <1>1 DEF Listed
<1>5. F[n] = M[P(n)]
  <2>1. n \in 0 .. n
    BY <1>1
  <2> QED
    BY <1>3, <2>1
<1> HIDE DEF P
<1> QED
  BY <1>2, <1>4, <1>5

-----------------------------------------------------------------------------
(***************************************************************************)
(* The structure of the book.                                               *)
(***************************************************************************)

\* The counters of a level are those of its queue, and its links back run the
\* same queue from the tail.
LEMMA QueueCounts ==
  ASSUME NEW b, NEW age, NEW now, NEW M, Kept(b, age, now, M), NEW i \in Levels
  PROVE  LET q == Queue(b, i) IN
         /\ b.levels[i].orders = Len(q)
         /\ Chain(b, b.levels[i].tail, "prev") = Reverse(q)
         /\ b.levels[i].qty = Sum(b, q)
<1> DEFINE T == At(b, i)
           q == Queue(b, i)
           p == Chain(b, b.levels[i].tail, "prev")
<1>1. b \in Book /\ Aged(age, now) /\ Weighs(M, b) /\ T \in SUBSET Slots
      /\ b.levels[i].orders = Cardinality(T) /\ b.levels[i].qty = M[T]
  BY AtIs DEF Kept, Counted
<1>2. Listed(q, T, age) /\ q \in [1 .. Cardinality(T) -> T]
  BY QueueIs
<1>3. Listed(p, T, Turned(age, now)) /\ p \in [1 .. Cardinality(T) -> T]
  BY QueueBackIs
<1> HIDE DEF T, q, p
<1>4. p = Reverse(q) /\ Len(q) = Cardinality(T)
  BY <1>1, <1>2, <1>3, ReverseIs
<1>5. Sum(b, q) = M[T]
  BY <1>1, <1>2, SumIs
<1> QED
  BY <1>1, <1>4, <1>5 DEF q, p

\* Those of a list are the members of what it lists.
LEMMA ListedAre ==
  ASSUME NEW q, NEW T, NEW rank, Listed(q, T, rank)
  PROVE  /\ ToSet(q) = T
         /\ \A k \in DOMAIN q : q[k] \in T
BY DEF Listed, ToSet

\* An occupied level has its bit set.
LEMMA BitIs ==
  ASSUME NEW b, NEW M, Counted(b, M), Marks(b, Taken(b)), NEW i \in Levels
  PROVE  (i % WordBits \in b.occupied[i \div WordBits]) <=> b.levels[i].orders # 0
<1>1. i \div WordBits \in Words /\ i % WordBits \in Bits
      /\ Place(i \div WordBits, i % WordBits) = i
  BY WordOf
<1>2. i % WordBits \in b.occupied[i \div WordBits] <=> i \in Taken(b)
  BY <1>1 DEF Marks
<1>3. b.levels[i].orders = Cardinality(At(b, i))
  BY DEF Counted
<1>4. Cardinality(At(b, i)) = 0 <=> At(b, i) = {}
  BY AtIs, SetsOfSlots
<1> QED
  BY <1>2, <1>3, <1>4 DEF Taken

\* Every order of a level is alive, carries its price, and is found by its id.
LEMMA OrdersOf ==
  ASSUME NEW b \in Book, Sound(b), NEW i \in Levels, NEW s \in At(b, i)
  PROVE  LET o == b.pool[s] IN
         o.live /\ o.tick = TickOf(i) /\ o.qty > 0 /\ Find(b, o.id) = s
<1>1. s \in LiveSlots(b) /\ b.pool[s].tick = TickOf(i)
  BY DEF At
<1>2. /\ b.pool[s].live /\ b.pool[s].qty \in Nat \ {0}
      /\ b.pool[s].id \in DOMAIN b.ids /\ b.ids[b.pool[s].id] = s
  BY <1>1, OrderIs
<1> QED
  BY <1>1, <1>2 DEF Find

\* A level has one side: a bid and an ask at one price would have traded.
LEMMA OneSideOf ==
  ASSUME NEW b \in Book, Sound(b), Apart(b), NEW i \in Levels, NEW q,
         \A k \in DOMAIN q : q[k] \in At(b, i)
  PROVE  Cardinality({b.pool[q[k]].side : k \in DOMAIN q}) <= 1
<1> DEFINE S == {b.pool[q[k]].side : k \in DOMAIN q}
<1>1. \A j, k \in DOMAIN q : b.pool[q[j]].side = b.pool[q[k]].side
  <2> SUFFICES ASSUME NEW j \in DOMAIN q, NEW k \in DOMAIN q
               PROVE  b.pool[q[j]].side = b.pool[q[k]].side
    OBVIOUS
  <2>1. /\ q[j] \in LiveSlots(b) /\ q[k] \in LiveSlots(b)
        /\ b.pool[q[j]].tick = b.pool[q[k]].tick
    BY DEF At
  <2> QED
    BY <2>1, OneSide
<1>2. CASE S = {}
  <2>1. Cardinality(S) = 0
    BY <1>2, FS_EmptySet
  <2> QED
    BY <2>1
<1>3. CASE S # {}
  <2>1. PICK x : x \in S
    BY <1>3
  <2>2. S = {x}
    BY <1>1, <2>1
  <2> HIDE DEF S
  <2>3. Cardinality(S) = 1
    BY <2>2, FS_Singleton
  <2> QED
    BY <2>3 DEF S
<1> QED
  BY <1>2, <1>3

\* All that is said of one level.
LevelSound(b, i) ==
  LET lv == b.levels[i]
      q  == Queue(b, i)
  IN /\ lv.orders = Len(q)
     /\ (i % WordBits \in b.occupied[i \div WordBits]) <=> lv.orders # 0
     /\ Chain(b, lv.tail, "prev") = Reverse(q)
     /\ lv.qty = Sum(b, q)
     /\ \A k \in DOMAIN q :
          LET o == b.pool[q[k]] IN
          o.live /\ o.tick = TickOf(i) /\ o.qty > 0 /\ Find(b, o.id) = q[k]
     /\ Cardinality({b.pool[q[k]].side : k \in DOMAIN q}) <= 1

\* Every level is sound.
LEMMA LevelSoundIs ==
  ASSUME NEW b, NEW age, NEW now, NEW M, Kept(b, age, now, M), Settled(b), NEW i \in Levels
  PROVE  LevelSound(b, i) /\ ToSet(Queue(b, i)) = At(b, i)
<1> DEFINE q == Queue(b, i)
<1>1. b \in Book /\ Sound(b) /\ Counted(b, M) /\ Marks(b, Taken(b)) /\ Apart(b)
  BY DEF Kept, Settled
<1>2. /\ b.levels[i].orders = Len(q)
      /\ Chain(b, b.levels[i].tail, "prev") = Reverse(q)
      /\ b.levels[i].qty = Sum(b, q)
  BY QueueCounts
<1>3. Listed(q, At(b, i), age)
  BY QueueIs
<1> HIDE DEF q
<1>4. ToSet(q) = At(b, i) /\ \A k \in DOMAIN q : q[k] \in At(b, i)
  BY <1>3, ListedAre
<1>5. (i % WordBits \in b.occupied[i \div WordBits]) <=> b.levels[i].orders # 0
  BY <1>1, BitIs
<1>6. \A k \in DOMAIN q :
        LET o == b.pool[q[k]] IN
        o.live /\ o.tick = TickOf(i) /\ o.qty > 0 /\ Find(b, o.id) = q[k]
  BY <1>1, <1>4, OrdersOf
<1>7. Cardinality({b.pool[q[k]].side : k \in DOMAIN q}) <= 1
  BY <1>1, <1>4, OneSideOf
<1>8. LevelSound(b, i)
  BY <1>2, <1>5, <1>6, <1>7 DEF LevelSound, q
<1>9. ToSet(Queue(b, i)) = At(b, i)
  BY <1>4 DEF q
<1> QED
  BY <1>8, <1>9

\* The free list holds the dead slots, each once.
LEMMA FreeAre ==
  ASSUME NEW b, NEW age, NEW now, NEW M, Kept(b, age, now, M)
  PROVE  LET free == Chain(b, b.free_head, "next") IN
         ToSet(free) = Slots \ LiveSlots(b) /\ IsInjective(free)
<1> DEFINE free == Chain(b, b.free_head, "next")
<1>1. Listed(free, Dead(b), Turned(age, now))
  BY FreeListIs
<1>2. Dead(b) \in SUBSET Slots
  BY DEF Dead
<1>3. Cardinality(Dead(b)) \in Nat
  BY <1>2, SetsOfSlots
<1> HIDE DEF free
<1>4. ToSet(free) = Dead(b)
  BY <1>1, ListedAre
<1>5. \A j, k \in DOMAIN free : free[j] = free[k] => j = k
  BY <1>1, <1>3, ListedOnce
<1> QED
  BY <1>4, <1>5 DEF Dead, IsInjective, free

\* What is said of the book as a whole.
WholeSound(b) ==
  /\ UNION {ToSet(Queue(b, i)) : i \in Levels} = LiveSlots(b)
  /\ LET free == Chain(b, b.free_head, "next") IN
     ToSet(free) = Slots \ LiveSlots(b) /\ IsInjective(free)
  /\ b.pool_used = Cardinality(LiveSlots(b))
  /\ DOMAIN b.ids = {b.pool[s].id : s \in LiveSlots(b)}

\* So is the book as a whole.
LEMMA WholeIs ==
  ASSUME NEW b, NEW age, NEW now, NEW M, Kept(b, age, now, M), Settled(b)
  PROVE  WholeSound(b)
<1>1. b \in Book /\ Sound(b) /\ Indexed(b) /\ Counted(b, M)
  BY DEF Kept
<1>2. UNION {ToSet(Queue(b, i)) : i \in Levels} = LiveSlots(b)
  <2>1. \A i \in Levels : ToSet(Queue(b, i)) = At(b, i)
    BY LevelSoundIs
  <2>2. \A i \in Levels : At(b, i) \subseteq LiveSlots(b)
    BY AtIs
  <2>3. \A s \in LiveSlots(b) : \E i \in Levels : s \in At(b, i)
    BY <1>1, OrderIs
  <2> QED
    BY <2>1, <2>2, <2>3
<1>3. LET free == Chain(b, b.free_head, "next") IN
      ToSet(free) = Slots \ LiveSlots(b) /\ IsInjective(free)
  BY FreeAre
<1>4. b.pool_used = Cardinality(LiveSlots(b))
  BY <1>1 DEF Counted
<1>5. DOMAIN b.ids = {b.pool[s].id : s \in LiveSlots(b)}
  BY <1>1 DEF Sound, Indexed
<1> QED
  BY <1>2, <1>3, <1>4, <1>5 DEF WholeSound

\* The book is well formed after every sequence of calls.
THEOREM SpecWellFormed == Spec => []WellFormed
<1>1. IInv => WellFormed
  <2> SUFFICES ASSUME IInv PROVE WellFormed
    OBVIOUS
  <2>1. Settled(bk) /\ \E age, now, M : Kept(bk, age, now, M)
    BY DEF IInv, Faithful
  <2>2. PICK age, now, M : Kept(bk, age, now, M)
    BY <2>1
  <2>3. \A i \in Levels : LevelSound(bk, i)
    BY <2>1, <2>2, LevelSoundIs
  <2>4. WholeSound(bk)
    BY <2>1, <2>2, WholeIs
  <2> QED
    BY <2>3, <2>4 DEF WellFormed, LevelSound, WholeSound, Levels, Sum
<1> QED
  BY <1>1, SpecIInv, PTL

-----------------------------------------------------------------------------
(***************************************************************************)
(* What the events tell.                                                    *)
(***************************************************************************)

\* The orders of a book by id.
LEMMA BookOfIs ==
  ASSUME NEW b, NEW sh, Faithful(b, sh)
  PROVE  sh.book = BookOf(b)
<1>1. /\ b \in Book /\ Sound(b) /\ Indexed(b) /\ sh \in Shadow
      /\ DOMAIN sh.book = DOMAIN b.ids
      /\ \A i \in DOMAIN b.ids : sh.book[i] = LineOf(b.pool[b.ids[i]])
  BY FaithfulIs
<1>2. DOMAIN b.ids = {b.pool[s].id : s \in LiveSlots(b)}
  BY <1>1 DEF Sound, Indexed
<1> DEFINE Of(i) == CHOOSE r \in LiveSlots(b) : b.pool[r].id = i
<1>3. \A i \in DOMAIN b.ids : Of(i) = b.ids[i]
  <2> SUFFICES ASSUME NEW i \in DOMAIN b.ids PROVE Of(i) = b.ids[i]
    OBVIOUS
  <2>1. b.ids[i] \in LiveSlots(b) /\ b.pool[b.ids[i]].id = i
    BY <1>1 DEF Indexed
  <2>2. Of(i) \in LiveSlots(b) /\ b.pool[Of(i)].id = i
    BY <2>1
  <2> HIDE DEF Of
  <2>3. b.ids[b.pool[Of(i)].id] = Of(i)
    BY <1>1, <2>2 DEF Sound
  <2> QED
    BY <2>2, <2>3
<1>4. BookOf(b) = [i \in {b.pool[s].id : s \in LiveSlots(b)} |->
                     [side |-> b.pool[Of(i)].side, tick |-> b.pool[Of(i)].tick,
                      qty |-> b.pool[Of(i)].qty]]
  BY DEF BookOf
<1> HIDE DEF Of
<1>5. BookOf(b) = [i \in DOMAIN b.ids |-> LineOf(b.pool[Of(i)])]
  BY <1>2, <1>4 DEF LineOf
<1>6. BookOf(b) = [i \in DOMAIN b.ids |-> LineOf(b.pool[b.ids[i]])]
  BY <1>3, <1>5
<1>7. sh.book = [i \in DOMAIN sh.book |-> sh.book[i]]
  BY <1>1 DEF Shadow
<1> QED
  BY <1>1, <1>6, <1>7

\* The pairs of ids at two places of a list, the earlier place first.
PairsOf(b, q) ==
  {<<b.pool[q[p[1]]].id, b.pool[q[p[2]]].id>> :
     p \in {p \in (1 .. Len(q)) \X (1 .. Len(q)) : p[1] < p[2]}}

\* The ids of two members of T, the elder first.
PairIn(b, T, rank, x) ==
  \E r, s \in T : rank[r] < rank[s] /\ x = <<b.pool[r].id, b.pool[s].id>>

\* Places in a list are in the order of rank.
LEMMA PlacesAre ==
  ASSUME NEW rank, NEW now, Aged(rank, now), NEW T \in SUBSET Slots, NEW q,
         Listed(q, T, rank), NEW j \in DOMAIN q, NEW k \in DOMAIN q
  PROVE  /\ q[j] \in T /\ q[k] \in T
         /\ j < k <=> rank[q[j]] < rank[q[k]]
<1>1. /\ q[j] \in T /\ q[k] \in T /\ j \in Int /\ k \in Int
      /\ Cardinality(Earlier(T, rank, q[j])) = j - 1
      /\ Cardinality(Earlier(T, rank, q[k])) = k - 1
  BY DEF Listed
<1>2. rank[q[j]] < rank[q[k]] => j < k
  <2>1. rank[q[j]] < rank[q[k]] =>
          Cardinality(Earlier(T, rank, q[j])) < Cardinality(Earlier(T, rank, q[k]))
    BY <1>1, StandsAt
  <2> QED
    BY <1>1, <2>1
<1>3. rank[q[k]] < rank[q[j]] => k < j
  <2>1. rank[q[k]] < rank[q[j]] =>
          Cardinality(Earlier(T, rank, q[k])) < Cardinality(Earlier(T, rank, q[j]))
    BY <1>1, StandsAt
  <2> QED
    BY <1>1, <2>1
<1>4. rank[q[j]] = rank[q[k]] => j = k
  <2>1. rank[q[j]] = rank[q[k]] => q[j] = q[k]
    BY <1>1 DEF Aged
  <2> QED
    BY <1>1, <2>1
<1>5. rank[q[j]] \in Nat /\ rank[q[k]] \in Nat
  BY <1>1 DEF Aged
<1> QED
  BY <1>1, <1>2, <1>3, <1>4, <1>5

\* The pairs of places in a list are the pairs of its members, by rank.
LEMMA PairsAre ==
  ASSUME NEW b, NEW rank, NEW now, Aged(rank, now), NEW T \in SUBSET Slots,
         NEW q \in [1 .. Cardinality(T) -> T], Listed(q, T, rank), NEW x
  PROVE  x \in PairsOf(b, q) <=> PairIn(b, T, rank, x)
<1>1. Cardinality(T) \in Nat
  BY SetsOfSlots
<1>2. DOMAIN q = 1 .. Len(q)
  BY <1>1
<1>3. ASSUME x \in PairsOf(b, q)
      PROVE  \E r, s \in T : rank[r] < rank[s] /\ x = <<b.pool[r].id, b.pool[s].id>>
  <2>1. PICK p \in (1 .. Len(q)) \X (1 .. Len(q)) :
          p[1] < p[2] /\ x = <<b.pool[q[p[1]]].id, b.pool[q[p[2]]].id>>
    BY <1>3 DEF PairsOf
  <2>2. p[1] \in DOMAIN q /\ p[2] \in DOMAIN q
    BY <1>2, <2>1
  <2>3. q[p[1]] \in T /\ q[p[2]] \in T /\ rank[q[p[1]]] < rank[q[p[2]]]
    BY <2>1, <2>2, PlacesAre
  <2> QED
    BY <2>1, <2>3
<1>4. ASSUME NEW r \in T, NEW s \in T, rank[r] < rank[s],
             x = <<b.pool[r].id, b.pool[s].id>>
      PROVE  x \in PairsOf(b, q)
  <2>1. PICK j \in DOMAIN q : q[j] = r
    BY DEF Listed
  <2>2. PICK k \in DOMAIN q : q[k] = s
    BY DEF Listed
  <2>3. j < k
    BY <1>4, <2>1, <2>2, PlacesAre
  <2> DEFINE p == <<j, k>>
  <2>4. p \in (1 .. Len(q)) \X (1 .. Len(q)) /\ p[1] = j /\ p[2] = k
    BY <1>2
  <2> HIDE DEF p
  <2>5. p[1] < p[2] /\ x = <<b.pool[q[p[1]]].id, b.pool[q[p[2]]].id>>
    BY <1>4, <2>1, <2>2, <2>3, <2>4
  <2> QED
    BY <2>4, <2>5 DEF PairsOf
<1> QED
  BY <1>3, <1>4 DEF PairIn

\* Who stands before whom: the pairs of orders at one price, the elder first.
LEMMA AheadOfIs ==
  ASSUME NEW b, NEW age, NEW now, NEW M, Kept(b, age, now, M), NEW x
  PROVE  x \in AheadOf(b) <=>
           \E r, s \in LiveSlots(b) : /\ b.pool[r].tick = b.pool[s].tick /\ age[r] < age[s]
                                      /\ x = <<b.pool[r].id, b.pool[s].id>>
<1>1. b \in Book /\ Sound(b) /\ Aged(age, now)
  BY DEF Kept
<1>2. x \in AheadOf(b) <=> \E i \in Levels : x \in PairsOf(b, Queue(b, i))
  BY DEF AheadOf, PairsOf, Levels
<1>3. ASSUME NEW i \in Levels
      PROVE  x \in PairsOf(b, Queue(b, i)) <=> PairIn(b, At(b, i), age, x)
  <2>1. /\ Listed(Queue(b, i), At(b, i), age) /\ At(b, i) \in SUBSET Slots
        /\ Queue(b, i) \in [1 .. Cardinality(At(b, i)) -> At(b, i)]
    BY QueueIs, AtIs
  <2> DEFINE q == Queue(b, i)
             T == At(b, i)
  <2>2. /\ Aged(age, now) /\ T \in SUBSET Slots
        /\ q \in [1 .. Cardinality(T) -> T] /\ Listed(q, T, age)
    BY <1>1, <2>1
  <2> HIDE DEF q, T
  <2>3. x \in PairsOf(b, q) <=> PairIn(b, T, age, x)
    BY <2>2, PairsAre
  <2> QED
    BY <2>3 DEF q, T
<1>4. \A r, s \in LiveSlots(b) :
        b.pool[r].tick = b.pool[s].tick <=> \E i \in Levels : r \in At(b, i) /\ s \in At(b, i)
  <2> SUFFICES ASSUME NEW r \in LiveSlots(b), NEW s \in LiveSlots(b)
               PROVE  b.pool[r].tick = b.pool[s].tick <=>
                        \E i \in Levels : r \in At(b, i) /\ s \in At(b, i)
    OBVIOUS
  <2>1. Idx(b.pool[r].tick) \in Levels /\ TickOf(Idx(b.pool[r].tick)) = b.pool[r].tick
    BY <1>1, OrderIs
  <2> QED
    BY <2>1 DEF At
<1>5. \A i \in Levels : At(b, i) \subseteq LiveSlots(b)
  BY AtIs
<1> QED
  BY <1>2, <1>3, <1>4, <1>5 DEF PairIn

\* The observer has the same pairs.
LEMMA AheadIs ==
  ASSUME NEW b, NEW age, NEW now, NEW M, Kept(b, age, now, M), NEW sh, Mirror(b, age, sh)
  PROVE  sh.ahead = AheadOf(b)
<1>1. b \in Book /\ Sound(b) /\ Indexed(b)
  BY DEF Kept
<1>2. /\ sh.ahead \subseteq (DOMAIN b.ids) \X (DOMAIN b.ids)
      /\ \A i, j \in DOMAIN b.ids :
           <<i, j>> \in sh.ahead <=> /\ b.pool[b.ids[i]].tick = b.pool[b.ids[j]].tick
                                     /\ age[b.ids[i]] < age[b.ids[j]]
  BY DEF Mirror
<1>3. ASSUME NEW x \in sh.ahead
      PROVE  x \in AheadOf(b)
  <2>1. PICK i \in DOMAIN b.ids, j \in DOMAIN b.ids : x = <<i, j>>
    BY <1>2
  <2>2. /\ b.ids[i] \in LiveSlots(b) /\ b.pool[b.ids[i]].id = i
        /\ b.ids[j] \in LiveSlots(b) /\ b.pool[b.ids[j]].id = j
    BY <1>1 DEF Indexed
  <2>3. b.pool[b.ids[i]].tick = b.pool[b.ids[j]].tick /\ age[b.ids[i]] < age[b.ids[j]]
    BY <1>2, <2>1
  <2>4. x = <<b.pool[b.ids[i]].id, b.pool[b.ids[j]].id>>
    BY <2>1, <2>2
  <2> QED
    BY <2>2, <2>3, <2>4, AheadOfIs
<1>4. ASSUME NEW x \in AheadOf(b)
      PROVE  x \in sh.ahead
  <2>1. PICK r \in LiveSlots(b), s \in LiveSlots(b) :
          /\ b.pool[r].tick = b.pool[s].tick /\ age[r] < age[s]
          /\ x = <<b.pool[r].id, b.pool[s].id>>
    BY AheadOfIs
  <2>2. /\ b.pool[r].id \in DOMAIN b.ids /\ b.ids[b.pool[r].id] = r
        /\ b.pool[s].id \in DOMAIN b.ids /\ b.ids[b.pool[s].id] = s
    BY <1>1 DEF Sound
  <2> QED
    BY <1>2, <2>1, <2>2
<1> QED
  BY <1>3, <1>4

\* An observer of the events has every order, its size and its place.
THEOREM SpecEventsTellTheBook == Spec => []EventsTellTheBook
<1>1. IInv => EventsTellTheBook
  <2> SUFFICES ASSUME IInv PROVE EventsTellTheBook
    OBVIOUS
  <2>1. Faithful(bk, shadow)
    BY DEF IInv
  <2>2. shadow.book = BookOf(bk)
    BY <2>1, BookOfIs
  <2>3. shadow.ahead = AheadOf(bk)
    BY <2>1, AheadIs DEF Faithful
  <2> QED
    BY <2>2, <2>3 DEF EventsTellTheBook
<1> QED
  BY <1>1, SpecIInv, PTL
=============================================================================
