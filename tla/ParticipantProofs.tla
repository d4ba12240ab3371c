-------------------------- MODULE ParticipantProofs -------------------------
(***************************************************************************)
(* The two programs that trade on what they see of the market: Agent, the    *)
(* simulated market maker, then TickToTrade, the tool that times a round     *)
(* trip.  The two share no state; each has its own theorems.                 *)
(***************************************************************************)
EXTENDS Agent, TickToTrade, FiniteSetTheorems, SequenceTheorems, WellFoundedInduction, TLAPS

-----------------------------------------------------------------------------
(***************************************************************************)
(* The agent, for any prices, books, sizes of prints and refusals of its gate: *)
(* fills are earned, a position at its limit is not added to by what is       *)
(* decided then, and a side that is pulled is out a latency later.            *)
(***************************************************************************)

-----------------------------------------------------------------------------
(***************************************************************************)
(* Numbers.                                                                 *)
(***************************************************************************)

\* A set of numbers has a least one: the form induction takes here.
LEMMA LeastNat ==
  ASSUME NEW T, T \subseteq Nat, T # {}
  PROVE  \E x \in T : \A y \in T : x <= y
<1>1. IsWellFoundedOn(OpToRel(<, Nat), Nat)
  BY NatLessThanWellFounded
<1>2. PICK x \in T : \A y \in T : <<y, x>> \notin OpToRel(<, Nat)
  BY <1>1, WFMin
<1>3. \A y \in T : ~ (y < x)
  BY <1>2 DEF OpToRel
<1> QED
  BY <1>3

\* A finite set of numbers has a greatest one.
LEMMA GreatestNat ==
  ASSUME NEW S, IsFiniteSet(S), S \subseteq Nat, S # {}
  PROVE  \E x \in S : \A y \in S : y <= x
<1> DEFINE n == Cardinality(S)
           upto(x) == {y \in S : y <= x}
           T == {n - Cardinality(upto(x)) : x \in S}
<1>1. n \in Nat
  BY FS_CardinalityType
<1>2. ASSUME NEW x \in S
      PROVE  IsFiniteSet(upto(x)) /\ Cardinality(upto(x)) \in Nat /\ Cardinality(upto(x)) <= n
  <2>1. IsFiniteSet(upto(x)) /\ Cardinality(upto(x)) <= n
    BY FS_Subset, upto(x) \subseteq S
  <2> QED
    BY <2>1, FS_CardinalityType
<1> HIDE DEF n, upto
<1>3. T \subseteq Nat /\ T # {}
  <2>1. \A x \in S : n - Cardinality(upto(x)) \in Nat
    BY <1>1, <1>2
  <2> QED
    BY <2>1
<1> HIDE DEF T
<1>4. PICK t \in T : \A u \in T : t <= u
  BY <1>3, LeastNat
<1>5. PICK x \in S : t = n - Cardinality(upto(x))
  BY DEF T
<1>6. ASSUME NEW y \in S
      PROVE  y <= x
  <2> SUFFICES ASSUME x < y PROVE FALSE
    OBVIOUS
  <2>1. upto(x) \subseteq upto(y) /\ y \in upto(y) /\ y \notin upto(x)
    <3>1. x \in Nat /\ y \in Nat /\ \A z \in S : z \in Nat
      OBVIOUS
    <3>2. \A z \in S : z <= x => z <= y
      BY <3>1
    <3>3. ~(y <= x) /\ y <= y
      BY <3>1
    <3> QED
      BY <3>2, <3>3 DEF upto
  <2>2. Cardinality(upto(x)) <= Cardinality(upto(y)) /\ Cardinality(upto(x)) # Cardinality(upto(y))
    BY <1>2, <2>1, FS_Subset
  <2>3. n - Cardinality(upto(y)) \in T
    BY DEF T
  <2>4. t <= n - Cardinality(upto(y))
    BY <1>4, <2>3
  <2>5. Cardinality(upto(x)) \in Nat /\ Cardinality(upto(y)) \in Nat
    BY <1>2
  <2> QED
    BY <1>1, <1>5, <2>2, <2>4, <2>5
<1> QED
  BY <1>6

\* The sizes of the levels s, added in the order the fold takes them.
Adds(g, b, s) ==
  g = [t \in SUBSET s |-> IF t = {} THEN 0
                          ELSE Abs(b[CHOOSE u \in t : TRUE]) + g[t \ {CHOOSE u \in t : TRUE}]]

LEMMA AddsAt ==
  ASSUME NEW b, NEW s, NEW g, Adds(g, b, s), NEW t \in SUBSET s
  PROVE  g[t] = IF t = {} THEN 0
                ELSE Abs(b[CHOOSE u \in t : TRUE]) + g[t \ {CHOOSE u \in t : TRUE}]
BY DEF Adds

\* Two such functions agree where both are defined.
LEMMA AddsAgree ==
  ASSUME NEW b, NEW r, NEW s, IsFiniteSet(r), NEW g, NEW h, Adds(g, b, r), Adds(h, b, s),
         r \subseteq s
  PROVE  g[r] = h[r]
<1> DEFINE T == {Cardinality(t) : t \in {u \in SUBSET r : g[u] # h[u]}}
<1> SUFFICES ASSUME T # {} PROVE FALSE
  OBVIOUS
<1>1. \A t \in SUBSET r : IsFiniteSet(t) /\ Cardinality(t) \in Nat
  BY FS_Subset, FS_CardinalityType
<1>2. T \subseteq Nat
  BY <1>1
<1>3. PICK k \in T : \A j \in T : k <= j
  <2> HIDE DEF T
  <2> QED
    BY <1>2, LeastNat
<1>4. PICK t \in SUBSET r : g[t] # h[t] /\ k = Cardinality(t)
  OBVIOUS
<1> DEFINE x == CHOOSE u \in t : TRUE
<1>5. /\ g[t] = IF t = {} THEN 0 ELSE Abs(b[x]) + g[t \ {x}]
      /\ h[t] = IF t = {} THEN 0 ELSE Abs(b[x]) + h[t \ {x}]
  BY DEF Adds
<1>6. t # {} /\ x \in t /\ g[t \ {x}] # h[t \ {x}]
  BY <1>4, <1>5
<1>7. Cardinality(t \ {x}) = Cardinality(t) - 1
  BY <1>1, <1>6, FS_RemoveElement
<1>8. Cardinality(t \ {x}) \in T
  BY <1>6
<1> HIDE DEF T
<1> QED
  BY <1>1, <1>3, <1>4, <1>7, <1>8

LEMMA AddsExist ==
  ASSUME NEW b, NEW S, IsFiniteSet(S)
  PROVE  \E g : Adds(g, b, S)
<1> DEFINE T == {Cardinality(s) : s \in {t \in SUBSET S : ~ \E g : Adds(g, b, t)}}
<1> SUFFICES ASSUME T # {} PROVE FALSE
  BY S \in SUBSET S
<1>1. \A t \in SUBSET S : IsFiniteSet(t) /\ Cardinality(t) \in Nat
  BY FS_Subset, FS_CardinalityType
<1>2. T \subseteq Nat
  BY <1>1
<1>3. PICK k \in T : \A j \in T : k <= j
  <2> HIDE DEF T
  <2> QED
    BY <1>2, LeastNat
<1>4. PICK s \in SUBSET S : k = Cardinality(s) /\ ~ \E g : Adds(g, b, s)
  OBVIOUS
<1>5. ASSUME NEW t \in SUBSET s, t # s
      PROVE  \E g : Adds(g, b, t)
  <2>1. Cardinality(t) < Cardinality(s)
    <3>1. Cardinality(t) <= Cardinality(s) /\ Cardinality(t) # Cardinality(s)
      BY <1>1, <1>5, FS_Subset
    <3> QED
      BY <1>1, <3>1
  <2>2. Cardinality(t) \notin T
    <3> HIDE DEF T
    <3> QED
      BY <1>1, <1>2, <1>3, <1>4, <2>1
  <2> QED
    BY <2>2
<1> DEFINE h(t) == CHOOSE g : Adds(g, b, t)
           x == CHOOSE u \in s : TRUE
           g == [t \in SUBSET s |-> IF t = {} THEN 0
                                    ELSE IF t # s THEN h(t)[t]
                                    ELSE Abs(b[x]) + h(s \ {x})[s \ {x}]]
<1>6. ASSUME NEW t \in SUBSET s, t # s
      PROVE  Adds(h(t), b, t)
  BY <1>5, <1>6
<1>7. ASSUME NEW t \in SUBSET s, t # {}
      PROVE  LET y == CHOOSE u \in t : TRUE IN g[t] = Abs(b[y]) + g[t \ {y}]
  <2> DEFINE y == CHOOSE u \in t : TRUE
             r == t \ {y}
  <2>1. y \in t /\ r \in SUBSET s /\ r # s /\ r \in SUBSET t /\ r # t
    BY <1>7
  <2>2. g[r] = h(r)[r]
    <3>1. CASE r # {}
      BY <2>1, <3>1
    <3>2. CASE r = {}
      <4>1. h(r)[r] = 0
        <5>1. Adds(h(r), b, r) /\ r \in SUBSET r
          BY <1>6, <2>1
        <5> HIDE DEF h, r
        <5> QED
          BY <3>2, <5>1, AddsAt
      <4> QED
        BY <2>1, <3>2, <4>1
    <3> QED
      BY <3>1, <3>2
  <2>3. CASE t = s
    BY <1>7, <2>2, <2>3
  <2>4. CASE t # s
    <3>1. g[t] = h(t)[t]
      BY <1>7, <2>4
    <3>2. h(t)[t] = Abs(b[y]) + h(t)[r]
      <4>1. Adds(h(t), b, t) /\ t \in SUBSET t
        BY <1>6, <2>4
      <4> HIDE DEF h
      <4> QED
        BY <1>7, <4>1, AddsAt
    <3>3. h(r)[r] = h(t)[r]
      <4>1. Adds(h(t), b, t) /\ Adds(h(r), b, r) /\ IsFiniteSet(r)
        BY <1>1, <1>6, <2>1, <2>4
      <4> HIDE DEF h, r
      <4> QED
        BY <2>1, <4>1, AddsAgree
    <3> QED
      BY <2>2, <3>1, <3>2, <3>3
  <2> QED
    BY <2>3, <2>4
<1>8. Adds(g, b, s)
  <2>1. g[{}] = 0
    OBVIOUS
  <2>2. g = [t \in SUBSET s |-> g[t]]
    OBVIOUS
  <2> HIDE DEF g
  <2> QED
    BY <1>7, <2>1, <2>2 DEF Adds
<1> HIDE DEF g
<1> QED
  BY <1>4, <1>8

\* The sum of the sizes of levels is a number.
LEMMA SumIsNumber ==
  ASSUME NEW b \in [Ticks -> Int], NEW S \in SUBSET Ticks
  PROVE  MapThenSumSet(LAMBDA u : Abs(b[u]), S) \in Int
<1>1. IsFiniteSet(S) /\ \A t \in SUBSET S : IsFiniteSet(t) /\ Cardinality(t) \in Nat
  BY AgentAssumption, FS_Subset, FS_CardinalityType
<1> DEFINE g == CHOOSE g : Adds(g, b, S)
<1>2. Adds(g, b, S)
  BY <1>1, AddsExist
<1>3. MapThenSumSet(LAMBDA u : Abs(b[u]), S) = g[S]
  BY DEF MapThenSumSet, MapThenFoldSet, Adds
<1> HIDE DEF g
<1> DEFINE T == {Cardinality(t) : t \in {u \in SUBSET S : g[u] \notin Int}}
<1>4. T = {}
  <2> SUFFICES ASSUME T # {} PROVE FALSE
    OBVIOUS
  <2>1. T \subseteq Nat
    BY <1>1
  <2>2. PICK k \in T : \A j \in T : k <= j
    <3> HIDE DEF T
    <3> QED
      BY <2>1, LeastNat
  <2>3. PICK t \in SUBSET S : g[t] \notin Int /\ k = Cardinality(t)
    OBVIOUS
  <2> DEFINE x == CHOOSE u \in t : TRUE
  <2>4. g[t] = IF t = {} THEN 0 ELSE Abs(b[x]) + g[t \ {x}]
    BY <1>2 DEF Adds
  <2>5. t # {} /\ x \in t
    BY <2>3, <2>4
  <2>6. Abs(b[x]) \in Int
    BY <2>5 DEF Abs
  <2>7. g[t \ {x}] \notin Int
    BY <2>3, <2>4, <2>5, <2>6
  <2>8. Cardinality(t \ {x}) = Cardinality(t) - 1 /\ Cardinality(t) \in Nat
    BY <1>1, <2>5, FS_RemoveElement
  <2>9. Cardinality(t \ {x}) \in T
    BY <2>7
  <2> HIDE DEF T
  <2> QED
    BY <2>2, <2>3, <2>8, <2>9
<1> QED
  BY <1>3, <1>4

-----------------------------------------------------------------------------
(***************************************************************************)
(* The book.                                                                *)
(***************************************************************************)

LEMMA QtyIsNumber ==
  ASSUME NEW b \in [Ticks -> Int], NEW tick
  PROVE  QtyAt(b, tick) \in Int
BY DEF QtyAt, Abs

\* A side that is not empty has a best price.
LEMMA BestIs ==
  ASSUME NEW b \in [Ticks -> Int], HasBoth(b), NEW side \in Sides
  PROVE  BestOf(b, side) \in Ticks /\ BestOf(b, side) \in Int /\ BestOf(b, side) # NoTick
<1> DEFINE R == Resting(b, side)
<1>1. R \subseteq Ticks /\ R # {} /\ IsFiniteSet(R) /\ R \subseteq Nat
  BY AgentAssumption, FS_Subset DEF HasBoth, Resting, Sides
<1>2. (\E x \in R : \A y \in R : x <= y) /\ (\E x \in R : \A y \in R : y <= x)
  BY <1>1, LeastNat, GreatestNat
<1>3. BestOf(b, side) \in R
  BY <1>2 DEF BestOf
<1> QED
  BY <1>1, <1>3, AgentAssumption DEF NoTick

LEMMA PrintKeepsBook ==
  ASSUME NEW b \in [Ticks -> Int], NEW aggressor, NEW tick, NEW qty \in Nat
  PROVE  AfterPrint(b, aggressor, tick, qty) \in [Ticks -> Int]
<1> DEFINE hit == {t \in Resting(b, IF aggressor = "Buy" THEN "Sell" ELSE "Buy") :
                     IF aggressor = "Buy" THEN t <= tick ELSE tick <= t}
           before(t) == MapThenSumSet(LAMBDA u : Abs(b[u]),
                                      {u \in hit : IF aggressor = "Buy" THEN u < t ELSE t < u})
           left(t) == Abs(b[t]) - Least(Abs(b[t]), Most(0, qty - before(t)))
<1>1. ASSUME NEW t \in Ticks
      PROVE  left(t) \in Int /\ b[t] \in Int
  <2>1. {u \in hit : IF aggressor = "Buy" THEN u < t ELSE t < u} \in SUBSET Ticks
    BY DEF Resting
  <2> HIDE DEF hit
  <2>2. before(t) \in Int
    BY <2>1, SumIsNumber
  <2> HIDE DEF before
  <2> QED
    BY <2>2 DEF Least, Most, Abs
<1>2. AfterPrint(b, aggressor, tick, qty)
        = [t \in Ticks |-> IF t \notin hit THEN b[t] ELSE IF b[t] > 0 THEN left(t) ELSE -left(t)]
  BY DEF AfterPrint
<1> HIDE DEF hit, left
<1> QED
  BY <1>1, <1>2

-----------------------------------------------------------------------------
(***************************************************************************)
(* One quote.  Each operation on it keeps what FillsAreEarned says of it.     *)
(***************************************************************************)

\* The fields of a quote, all of them numbers but the first.
Typed(q) ==
  /\ DOMAIN q = {"live", "tick", "remaining", "queue_ahead", "level_at_join",
                 "level_at_last_snapshot", "traded", "paid"}
  /\ q.live \in BOOLEAN
  /\ q.tick \in Int /\ q.remaining \in Int /\ q.queue_ahead \in Int /\ q.level_at_join \in Int
  /\ q.level_at_last_snapshot \in Int /\ q.traded \in Int /\ q.paid \in Int

\* One that rests has something left to fill.
Rests(q) == Typed(q) /\ (q.live => q.remaining > 0)

\* agent.hpp:249: an order that arrives has earned nothing yet.
THEOREM NewIsEarned ==
  ASSUME NEW tick \in Int, NEW level_size \in Int
  PROVE  /\ Rests(NewQuote(tick, level_size)) /\ Earned(NewQuote(tick, level_size))
         /\ Rests(NoQuote) /\ Earned(NoQuote)
  BY AgentAssumption DEF Rests, Typed, Earned, NewQuote, NoQuote, NoTick

\* agent.hpp:230: placing an order keeps the slot, empties it or starts a new one.
THEOREM PlaceIsEarned ==
  ASSUME NEW q, Rests(q), Earned(q), NEW side \in Sides, NEW tick \in Int,
         NEW level_size \in Int, NEW refused
  PROVE  LET r == Place(q, side, tick, level_size, refused) IN Rests(r) /\ Earned(r)
<1>1. Place(q, side, tick, level_size, refused) \in {q, NoQuote, NewQuote(tick, level_size)}
  BY DEF Place
<1> QED
  BY <1>1, NewIsEarned

\* fill_model.hpp:68: a print moves the queue, then fills, and never does both with
\* the same unit; an order it fills completely is gone.
THEOREM PrintIsEarned ==
  ASSUME NEW q, Rests(q), Earned(q), NEW side \in Sides, NEW aggressor \in Sides,
         NEW tick \in Int, NEW qty \in Nat
  PROVE  LET r == Spent(ApplyPrint(q, side, aggressor, tick, qty)) IN
         Rests(r) /\ Earned(r)
<1> DEFINE eat  == Least(qty, q.queue_ahead)
           fill == Least(qty - eat, q.remaining)
           add  == IF Through(q, side, tick) THEN 0 ELSE qty
           p    == ApplyPrint(q, side, aggressor, tick, qty)
<1>1. /\ eat \in Int /\ fill \in Int /\ add \in Int
      /\ q.queue_ahead > 0 /\ qty < q.queue_ahead => eat = qty
      /\ ~(q.queue_ahead > 0 /\ qty < q.queue_ahead) => q.queue_ahead - eat <= 0
      /\ fill = q.remaining \/ eat + fill = qty
      /\ fill <= q.remaining
  BY DEF Least, Rests, Typed
<1>2. CASE ~Touches(q, side, aggressor, tick)
  BY <1>2, NewIsEarned DEF ApplyPrint, Spent
<1>3. CASE Touches(q, side, aggressor, tick) /\ Through(q, side, tick) /\ SweepRule = "Through"
  <2>1. p.live /\ p.remaining = 0
    BY <1>3 DEF ApplyPrint, Touches, Rests, Typed
  <2> QED
    BY <2>1, NewIsEarned DEF Spent
<1>4. CASE Touches(q, side, aggressor, tick) /\ ~(Through(q, side, tick) /\ SweepRule = "Through")
  <2> HIDE DEF eat, fill, add
  <2>1. p = [q EXCEPT !.queue_ahead = @ - eat, !.remaining = @ - fill, !.paid = @ + qty,
                      !.traded = @ + add]
    BY <1>4 DEF ApplyPrint, eat, fill, add
  <2> HIDE DEF p
  <2>q. Typed(q) /\ q.live
    BY <1>4 DEF Touches, Rests
  <2>2. /\ Typed(p) /\ p.live /\ p.queue_ahead = q.queue_ahead - eat
        /\ p.remaining = q.remaining - fill
        /\ p.paid = q.paid + qty /\ p.level_at_join = q.level_at_join
    <3>1. DOMAIN p = DOMAIN q /\ p.live = q.live
      BY <2>1, <2>q DEF Typed
    <3>2. /\ p.tick = q.tick /\ p.level_at_last_snapshot = q.level_at_last_snapshot
          /\ p.traded = q.traded + add
          /\ p.queue_ahead = q.queue_ahead - eat
          /\ p.remaining = q.remaining - fill
          /\ p.paid = q.paid + qty /\ p.level_at_join = q.level_at_join
      BY <2>1, <2>q DEF Typed
    <3>3. Typed(p)
      BY <1>1, <2>q, <3>1, <3>2 DEF Typed, add
    <3> QED
      BY <2>q, <3>1, <3>2, <3>3
  <2>3. CASE p.remaining = 0
    BY <2>2, <2>3, NewIsEarned DEF Spent, p
  <2>4. CASE p.remaining # 0
    <3>1. Spent(p) = p /\ p.remaining > 0 /\ eat + fill = qty
      BY <1>1, <2>2, <2>4 DEF Spent, Rests, Typed
    <3>2. Typed(q) /\ q.live /\ QuoteSize \in Int
      BY <1>4, AgentAssumption DEF Touches, Rests
    <3>3. p.paid = (p.level_at_join - p.queue_ahead) + (QuoteSize - p.remaining)
      BY <1>1, <2>2, <3>1, <3>2 DEF Earned, Typed
    <3>4. p.queue_ahead > 0 => p.remaining = QuoteSize
      BY <1>1, <2>2, <3>1, <3>2 DEF Earned, Typed
    <3> QED
      BY <2>2, <3>1, <3>3, <3>4 DEF Rests, Earned, p
  <2> QED
    BY <2>3, <2>4
<1> QED
  BY <1>2, <1>3, <1>4

\* fill_model.hpp:103: what a level lost without trading moves the queue, never the
\* order, and at most by the queue there is.
THEOREM DecayIsEarned ==
  ASSUME NEW q, Rests(q), Earned(q), NEW level_size \in Int
  PROVE  LET r == ApplySnapshotDecay(q, level_size) IN
         Rests(r) /\ Earned(r) /\ (q.queue_ahead >= 0 => r.queue_ahead >= 0)
<1> DEFINE prev   == q.level_at_last_snapshot
           shrink == prev - q.traded - level_size
           part   == (Kappa * q.queue_ahead * shrink) \div prev
           off    == IF prev > 0 /\ q.queue_ahead > 0 /\ shrink > 0
                       THEN Least(q.queue_ahead, part) ELSE 0
           r      == ApplySnapshotDecay(q, level_size)
<1>1. CASE ~q.live
  BY <1>1 DEF ApplySnapshotDecay
<1>2. CASE q.live
  <2>1. Typed(q) /\ Kappa \in Int
    BY AgentAssumption DEF Rests
  <2>2. prev > 0 => part \in Int
    BY <2>1 DEF Typed
  <2> HIDE DEF part
  <2>3. off \in Int /\ off <= (IF q.queue_ahead > 0 THEN q.queue_ahead ELSE 0)
    BY <2>1, <2>2 DEF Least, Typed
  <2> HIDE DEF off
  <2>4. r = [q EXCEPT !.queue_ahead = @ - off, !.paid = @ + off,
                      !.level_at_last_snapshot = level_size, !.traded = 0]
    BY <1>2 DEF ApplySnapshotDecay, off, part
  <2> HIDE DEF r
  <2>5. /\ Typed(r) /\ r.live = q.live /\ r.queue_ahead = q.queue_ahead - off
        /\ r.remaining = q.remaining /\ r.paid = q.paid + off
        /\ r.level_at_join = q.level_at_join
    <3>1. DOMAIN r = DOMAIN q /\ r.live = q.live
      BY <2>1, <2>4 DEF Typed
    <3>2. /\ r.tick = q.tick /\ r.level_at_last_snapshot = level_size /\ r.traded = 0
          /\ r.queue_ahead = q.queue_ahead - off
          /\ r.remaining = q.remaining /\ r.paid = q.paid + off
          /\ r.level_at_join = q.level_at_join
      BY <2>1, <2>4 DEF Typed
    <3>3. Typed(r)
      BY <2>1, <2>3, <3>1, <3>2 DEF Typed
    <3> QED
      BY <3>1, <3>2, <3>3
  <2>6. q.queue_ahead <= 0 => off = 0
    BY <2>1 DEF off, Typed
  <2>7. /\ r.paid = (r.level_at_join - r.queue_ahead) + (QuoteSize - r.remaining)
        /\ r.queue_ahead > 0 => r.remaining = QuoteSize
        /\ q.queue_ahead >= 0 => r.queue_ahead >= 0
    BY <1>2, <2>1, <2>3, <2>5, <2>6, AgentAssumption DEF Earned, Typed
  <2> QED
    BY <1>2, <2>5, <2>7 DEF Rests, Earned, r
<1> QED
  BY <1>1, <1>2

\* What holds of each of the agent's quotes: one that is not live is blank.
Slot(q) ==
  /\ Rests(q) /\ Earned(q)
  /\ q.live => q.tick # NoTick
  /\ ~q.live => q = NoQuote

LEMMA BlankIsSlot == Slot(NoQuote) /\ NoQuote.remaining = 0 /\ ~NoQuote.live
<1>1. Rests(NoQuote) /\ Earned(NoQuote)
  BY NewIsEarned, 0 \in Int
<1> QED
  BY <1>1 DEF Slot, NoQuote

LEMMA SlotFacts ==
  ASSUME NEW q, Slot(q)
  PROVE  /\ q.live \in BOOLEAN /\ q.tick \in Int /\ q.remaining \in Nat
         /\ q.tick = NoTick <=> ~q.live
<1>1. q.live \in BOOLEAN /\ q.tick \in Int /\ q.remaining \in Int
  BY DEF Slot, Rests, Typed
<1>2. q.live => q.remaining > 0 /\ q.tick # NoTick
  BY DEF Slot, Rests
<1>3. ~q.live => q.remaining = 0 /\ q.tick = NoTick
  BY DEF Slot, NoQuote
<1> QED
  BY <1>1, <1>2, <1>3

\* A decision adds no more than one order, and one not to quote none.
LEMMA PlaceIs ==
  ASSUME NEW q, Slot(q), NEW side \in Sides, NEW tick \in Int, NEW level_size \in Int, NEW refused
  PROVE  LET r == Place(q, side, tick, level_size, refused) IN
         /\ Slot(r)
         /\ r.remaining <= q.remaining + (IF tick = NoTick THEN 0 ELSE QuoteSize)
         /\ tick = NoTick => ~r.live
<1> DEFINE r == Place(q, side, tick, level_size, refused)
<1>1. q.remaining \in Nat /\ QuoteSize \in Nat
  BY SlotFacts, AgentAssumption
<1>2. CASE tick = NoTick
  <2>1. r = NoQuote
    BY <1>2 DEF Place
  <2> QED
    BY <1>1, <1>2, <2>1, BlankIsSlot
<1>3. CASE tick # NoTick
  <2>1. CASE r = q
    BY <1>1, <1>3, <2>1
  <2>2. CASE r = NoQuote
    BY <1>1, <1>3, <2>2, BlankIsSlot
  <2>3. CASE r = NewQuote(tick, level_size)
    <3>1. r.remaining = QuoteSize /\ r.live /\ r.tick = tick
      BY <2>3 DEF NewQuote
    <3>2. Rests(r) /\ Earned(r)
      BY <2>3, NewIsEarned
    <3> HIDE DEF r
    <3>3. Slot(r)
      BY <1>3, <3>1, <3>2 DEF Slot
    <3> QED
      BY <1>1, <1>3, <3>1, <3>3 DEF r
  <2> QED
    BY <2>1, <2>2, <2>3 DEF Place
<1> QED
  BY <1>2, <1>3

\* A print takes from the quote what it fills.
LEMMA PrintIs ==
  ASSUME NEW q, Slot(q), NEW side \in Sides, NEW aggressor \in Sides,
         NEW tick \in Int, NEW qty \in Nat
  PROVE  LET p == ApplyPrint(q, side, aggressor, tick, qty) IN
         /\ Slot(Spent(p)) /\ Spent(p).remaining = p.remaining
         /\ p.remaining \in Nat /\ p.remaining <= q.remaining
         /\ ~q.live => Spent(p) = q
<1> DEFINE p == ApplyPrint(q, side, aggressor, tick, qty)
           eat  == Least(qty, q.queue_ahead)
           fill == Least(qty - eat, q.remaining)
<1>1. Typed(q) /\ q.remaining \in Nat /\ Rests(Spent(p)) /\ Earned(Spent(p))
  BY SlotFacts, PrintIsEarned DEF Slot, Rests
<1>2. CASE ~Touches(q, side, aggressor, tick)
  <2>1. p = q
    BY <1>2 DEF ApplyPrint
  <2>2. Spent(q) = q
    BY DEF Slot, Rests, Spent
  <2> QED
    BY <1>1, <2>1, <2>2
<1>3. CASE Touches(q, side, aggressor, tick)
  <2>1. q.live /\ q.tick # NoTick
    BY <1>3 DEF Touches, Slot
  <2>2. p.live /\ p.tick = q.tick /\ p.remaining \in {0, q.remaining - fill}
    BY <1>1, <1>3, <2>1 DEF ApplyPrint, Typed
  <2>3. fill \in Nat /\ fill <= q.remaining
    BY <1>1 DEF Least, Typed
  <2> HIDE DEF p, fill
  <2>4. p.remaining \in Nat /\ p.remaining <= q.remaining
    BY <1>1, <2>2, <2>3
  <2>5. Slot(Spent(p)) /\ Spent(p).remaining = p.remaining
    <3>1. CASE p.remaining = 0
      BY <2>2, <3>1, BlankIsSlot DEF Spent
    <3>2. CASE p.remaining # 0
      BY <1>1, <2>1, <2>2, <3>2 DEF Spent, Slot
    <3> QED
      BY <3>1, <3>2
  <2> QED
    BY <2>1, <2>4, <2>5 DEF p
<1> QED
  BY <1>2, <1>3

\* The decay leaves the order itself alone.
LEMMA DecayIs ==
  ASSUME NEW q, Slot(q), NEW level_size \in Int
  PROVE  LET r == ApplySnapshotDecay(q, level_size) IN
         Slot(r) /\ r.remaining = q.remaining /\ r.live = q.live /\ r.tick = q.tick
<1> DEFINE r == ApplySnapshotDecay(q, level_size)
<1>1. Rests(r) /\ Earned(r)
  BY DecayIsEarned DEF Slot
<1>2. r.remaining = q.remaining /\ r.live = q.live /\ r.tick = q.tick /\ (~q.live => r = q)
  BY DEF ApplySnapshotDecay, Slot, Rests, Typed
<1> QED
  BY <1>1, <1>2 DEF Slot

-----------------------------------------------------------------------------
(***************************************************************************)
(* Decisions.                                                               *)
(***************************************************************************)

Decisions == [effective : Int, bid : Int, ask : Int]

Wanted(d, side) == IF side = "Buy" THEN d.bid ELSE d.ask

Fields == {"bid", "ask", "pending", "inv", "best_bid", "best_ask"}

\* An agent that has seen no price has done nothing.
AgentOK(a) ==
  /\ DOMAIN a = Fields
  /\ \A side \in Sides : Slot(Quote(a, side))
  /\ a.pending \in Seq(Decisions)
  /\ a.inv \in Int /\ a.best_bid \in Int /\ a.best_ask \in Int
  /\ a.best_bid = NoTick =>
       a.pending = <<>> /\ a.inv = 0 /\ \A side \in Sides : ~Quote(a, side).live

\* What FoldLeft does with the decisions q from the agent v on.
Folds(g, v, q, k, bs, as, refused) ==
  g = [s \in SUBSET (1 .. k) |->
         IF s = {} THEN v ELSE TakeEffect(g[s \ {Max(s)}], q[Max(s)], bs, as, refused)]

\* There is such a function for every list, which an induction over its length
\* shows: take the first length for which there is none.
LEMMA FoldExists ==
  ASSUME NEW v, NEW q, NEW n \in Nat, NEW bs, NEW as, NEW refused
  PROVE  \E g : Folds(g, v, q, n, bs, as, refused)
<1> DEFINE T == {k \in Nat : ~ \E g : Folds(g, v, q, k, bs, as, refused)}
<1> SUFFICES ASSUME T # {} PROVE FALSE
  OBVIOUS
<1>1. PICK k \in T : \A j \in T : k <= j
  BY LeastNat
<1>2. k # 0
  <2> DEFINE g == [s \in SUBSET (1 .. 0) |-> v]
  <2>1. \A s \in SUBSET (1 .. 0) : s = {}
    OBVIOUS
  <2>2. Folds(g, v, q, 0, bs, as, refused)
    BY <2>1 DEF Folds
  <2> QED
    BY <2>2
<1>3. k \in Nat /\ k - 1 \in Nat /\ k - 1 \notin T
  <2>1. k \in Nat
    BY <1>1
  <2>2. k - 1 \in Nat /\ ~(k <= k - 1)
    BY <1>2, <2>1
  <2> QED
    BY <1>1, <2>1, <2>2
<1>4. PICK h : Folds(h, v, q, k - 1, bs, as, refused)
  BY <1>3
<1> DEFINE op(x, d) == TakeEffect(x, d, bs, as, refused)
           g == [s \in SUBSET (1 .. k) |-> IF k \in s THEN op(h[s \ {k}], q[k]) ELSE h[s]]
<1>5. ASSUME NEW s \in SUBSET (1 .. k), k \notin s
      PROVE  s \in SUBSET (1 .. k - 1)
  BY <1>1, <1>5
<1> HIDE DEF op
<1>6. ASSUME NEW s \in SUBSET (1 .. k)
      PROVE  g[s] = IF s = {} THEN v ELSE op(g[s \ {Max(s)}], q[Max(s)])
  <2>1. CASE k \in s
    <3>1. k \in s /\ \A y \in s : k >= y
      BY <1>1, <2>1
    <3>2. \A x \in s : (\A y \in s : x >= y) => x = k
      BY <1>1, <2>1
    <3>3. Max(s) = k
      BY <3>1, <3>2 DEF Max
    <3>4. s \ {k} \in SUBSET (1 .. k) /\ k \notin s \ {k}
      OBVIOUS
    <3>5. g[s \ {k}] = h[s \ {k}]
      BY <3>4
    <3> QED
      BY <2>1, <3>3, <3>5
  <2>2. CASE k \notin s
    <3>1. s \in SUBSET (1 .. k - 1) /\ g[s] = h[s]
      BY <1>5, <2>2
    <3>2. h[s] = IF s = {} THEN v ELSE op(h[s \ {Max(s)}], q[Max(s)])
      BY <1>4, <3>1 DEF Folds, op
    <3>3. s \ {Max(s)} \in SUBSET (1 .. k) /\ k \notin s \ {Max(s)}
      BY <2>2
    <3>4. g[s \ {Max(s)}] = h[s \ {Max(s)}]
      BY <3>3
    <3> QED
      BY <3>1, <3>2, <3>4
  <2> QED
    BY <2>1, <2>2
<1>7. Folds(g, v, q, k, bs, as, refused)
  <2> HIDE DEF g
  <2>1. g = [s \in SUBSET (1 .. k) |-> g[s]]
    BY DEF g
  <2> QED
    BY <1>6, <2>1 DEF Folds, op
<1> QED
  BY <1>1, <1>7

\* The agent after each of the decisions q.
Carries(F, v, q, n, bs, as, refused) ==
  /\ F[0] = v
  /\ \A k \in 1 .. n : F[k] = TakeEffect(F[k - 1], q[k], bs, as, refused)

Carried(v, q, bs, as, refused) == FoldLeft(LAMBDA x, d : TakeEffect(x, d, bs, as, refused), v, q)

CarriesAll(v, q, n, bs, as, refused) ==
  \E F : Carries(F, v, q, n, bs, as, refused) /\ F[n] = Carried(v, q, bs, as, refused)

LEMMA CarryAll ==
  ASSUME NEW v, NEW q, NEW n \in Nat, DOMAIN q = 1 .. n, NEW bs, NEW as, NEW refused
  PROVE  CarriesAll(v, q, n, bs, as, refused)
<1> DEFINE g == CHOOSE g : Folds(g, v, q, n, bs, as, refused)
           F == [k \in 0 .. n |-> g[1 .. k]]
<1>1. Folds(g, v, q, n, bs, as, refused)
  BY FoldExists
<1>2. Carried(v, q, bs, as, refused) = g[1 .. n]
  BY DEF Carried, FoldLeft, MapThenFoldSet, Folds
<1> HIDE DEF g
<1>3. F[0] = v
  <2>1. 1 .. 0 = {} /\ {} \in SUBSET (1 .. n) /\ 0 \in 0 .. n
    OBVIOUS
  <2>2. g[{}] = v
    BY <1>1, <2>1 DEF Folds
  <2> QED
    BY <2>1, <2>2
<1>4. ASSUME NEW k \in 1 .. n
      PROVE  F[k] = TakeEffect(F[k - 1], q[k], bs, as, refused)
  <2>1. /\ 1 .. k \in SUBSET (1 .. n) /\ 1 .. k # {} /\ k - 1 \in 0 .. n /\ k \in 0 .. n
        /\ k \in Nat \ {0}
    <3>1. k \in Nat /\ 1 <= k /\ k <= n
      OBVIOUS
    <3>2. 1 \in 1 .. k
      BY <3>1
    <3>3. \A x \in 1 .. k : x \in 1 .. n
      BY <3>1
    <3> QED
      BY <3>1, <3>2, <3>3
  <2>2. k \in 1 .. k /\ \A y \in 1 .. k : k >= y
    OBVIOUS
  <2>3. \A x \in 1 .. k : (\A y \in 1 .. k : x >= y) => x = k
    OBVIOUS
  <2>4. Max(1 .. k) = k
    BY <2>2, <2>3 DEF Max
  <2>5. (1 .. k) \ {k} = 1 .. k - 1
    OBVIOUS
  <2>6. g[1 .. k] = TakeEffect(g[1 .. k - 1], q[k], bs, as, refused)
    BY <1>1, <2>1, <2>4, <2>5 DEF Folds
  <2> QED
    BY <2>1, <2>6
<1>5. F[n] = Carried(v, q, bs, as, refused)
  <2>1. n \in 0 .. n
    OBVIOUS
  <2>2. F[n] = g[1 .. n]
    BY <2>1
  <2> HIDE DEF F
  <2> QED
    BY <1>2, <2>2
<1> HIDE DEF F
<1>6. Carries(F, v, q, n, bs, as, refused)
  BY <1>3, <1>4 DEF Carries
<1> QED
  BY <1>5, <1>6 DEF CarriesAll

\* The decisions that are due are the first ones.
LEMMA DueIs ==
  ASSUME NEW a, a.pending \in Seq(Decisions), NEW ts \in Int
  PROVE  LET n == Cardinality(Due(a, ts)) IN
         /\ n \in 0 .. Len(a.pending)
         /\ \A m \in 1 .. n : a.pending[m].effective <= ts
         /\ n < Len(a.pending) => ~(a.pending[n + 1].effective <= ts)
<1> DEFINE L == Len(a.pending)
           T == {k \in 1 .. L + 1 : k \notin Due(a, ts)}
<1>1. L \in Nat /\ DOMAIN a.pending = 1 .. L
  OBVIOUS
<1> HIDE DEF L
<1>2. L + 1 \in T /\ T \subseteq Nat
  BY <1>1 DEF Due
<1>3. PICK k \in T : \A j \in T : k <= j
  <2> HIDE DEF T
  <2> QED
    BY <1>2, LeastNat
<1>4. k \in 1 .. L + 1 /\ k \in Nat /\ k - 1 \in 0 .. L
  BY <1>1, <1>3
<1>5. \A m \in 1 .. k - 1 : m \in Due(a, ts)
  BY <1>1, <1>3, <1>4
<1>6. \A m \in 1 .. k - 1 : a.pending[m].effective <= ts
  <2> SUFFICES ASSUME NEW m \in 1 .. k - 1 PROVE a.pending[m].effective <= ts
    OBVIOUS
  <2>1. m \in Due(a, ts) /\ m \in 1 .. m
    BY <1>4, <1>5
  <2> QED
    BY <2>1 DEF Due
<1>7. k <= L => ~(a.pending[k].effective <= ts)
  <2> SUFFICES ASSUME k <= L, a.pending[k].effective <= ts PROVE FALSE
    OBVIOUS
  <2>1. \A m \in 1 .. k : m = k \/ m \in 1 .. k - 1
    BY <1>4
  <2>2. k \in Due(a, ts)
    BY <1>1, <1>4, <1>6, <2>1 DEF Due
  <2> QED
    BY <1>3, <2>2
<1>8. Due(a, ts) = 1 .. k - 1
  <2>1. ASSUME NEW m \in Due(a, ts)
        PROVE  m \in 1 .. k - 1
    <3>1. m \in 1 .. L /\ \A j \in 1 .. m : a.pending[j].effective <= ts
      BY <1>1 DEF Due
    <3>2. ~(k <= m)
      <4> SUFFICES ASSUME k <= m PROVE FALSE
        OBVIOUS
      <4>1. k \in 1 .. m /\ k <= L
        BY <1>1, <1>4, <3>1
      <4> QED
        BY <1>7, <3>1, <4>1
    <3> QED
      BY <1>4, <3>1, <3>2
  <2> QED
    BY <1>5, <2>1
<1>9. Cardinality(Due(a, ts)) = k - 1
  <2>1. Cardinality(1 .. k - 1) = k - 1
    BY <1>4, FS_Interval
  <2> QED
    BY <1>8, <2>1
<1> QED
  BY <1>1, <1>4, <1>6, <1>7, <1>9 DEF L

-----------------------------------------------------------------------------
(***************************************************************************)
(* How many of the first decisions want a side quoted.                      *)
(***************************************************************************)

Count(q, n, side) == Cardinality({k \in 1 .. n : Wanted(q[k], side) # NoTick})

LEMMA CountIs ==
  ASSUME NEW q, NEW n \in Nat, NEW side
  PROVE  /\ Count(q, n, side) \in Nat /\ Count(q, 0, side) = 0
         /\ Count(q, n + 1, side) = Count(q, n, side)
                                      + (IF Wanted(q[n + 1], side) = NoTick THEN 0 ELSE 1)
<1> DEFINE S == {k \in 1 .. n : Wanted(q[k], side) # NoTick}
           R == {k \in 1 .. n + 1 : Wanted(q[k], side) # NoTick}
<1>1. IsFiniteSet(S) /\ Cardinality(S) \in Nat /\ n + 1 \notin S
  <2>1. S \subseteq 1 .. n /\ IsFiniteSet(1 .. n)
    BY FS_Interval, n \in Int, 1 \in Int
  <2>2. n + 1 \notin S
    OBVIOUS
  <2> HIDE DEF S
  <2>3. IsFiniteSet(S)
    BY <2>1, FS_Subset
  <2> QED
    BY <2>2, <2>3, FS_CardinalityType
<1>2. Count(q, 0, side) = 0
  <2>1. {k \in 1 .. 0 : Wanted(q[k], side) # NoTick} = {}
    OBVIOUS
  <2> QED
    BY <2>1, FS_EmptySet DEF Count
<1>3. CASE Wanted(q[n + 1], side) = NoTick
  <2>1. R = S
    BY <1>3
  <2> HIDE DEF R, S
  <2>2. Cardinality(R) = Cardinality(S) + 0
    BY <1>1, <2>1
  <2> QED
    BY <1>1, <1>2, <1>3, <2>2 DEF Count, R, S
<1>4. CASE Wanted(q[n + 1], side) # NoTick
  <2>1. R = S \cup {n + 1}
    BY <1>4
  <2> HIDE DEF R, S
  <2>2. Cardinality(R) = Cardinality(S) + 1
    BY <1>1, <2>1, FS_AddElement
  <2> QED
    BY <1>1, <1>2, <1>4, <2>2 DEF Count, R, S
<1> QED
  BY <1>3, <1>4

\* The first n and those of the rest are all of them.
LEMMA CountSplits ==
  ASSUME NEW q \in Seq(Decisions), NEW n \in 0 .. Len(q), NEW side
  PROVE  Count(q, Len(q), side)
           = Count(q, n, side) + Count(SubSeq(q, n + 1, Len(q)), Len(q) - n, side)
<1> DEFINE L == Len(q)
           s == SubSeq(q, n + 1, L)
           T == {k \in Nat :
                   n + k <= L /\ Count(q, n + k, side) # Count(q, n, side) + Count(s, k, side)}
<1>1. L \in Nat /\ n \in Nat /\ n <= L
  OBVIOUS
<1>2. \A k \in 1 .. L - n : s[k] = q[n + k]
  OBVIOUS
<1>3. T = {}
  <2> SUFFICES ASSUME T # {} PROVE FALSE
    OBVIOUS
  <2> HIDE DEF L, s
  <2>1. PICK k \in T : \A j \in T : k <= j
    BY LeastNat
  <2>2. /\ k \in Nat /\ n + k <= L
        /\ Count(q, n + k, side) # Count(q, n, side) + Count(s, k, side)
    BY <2>1
  <2> HIDE DEF T
  <2>3. k # 0
    <3>1. Count(q, n, side) \in Nat /\ Count(s, 0, side) = 0
      BY <1>1, CountIs
    <3>2. n + 0 = n
      BY <1>1
    <3> QED
      BY <2>2, <3>1, <3>2
  <2>4. PICK m \in Nat : k = m + 1
    BY <2>2, <2>3
  <2>5. m \notin T
    <3>1. ~(k <= m)
      BY <2>4
    <3> QED
      BY <2>1, <3>1
  <2>6. Count(q, n + m, side) = Count(q, n, side) + Count(s, m, side)
    <3>1. n + m <= L
      BY <1>1, <2>2, <2>4
    <3> QED
      BY <2>5, <3>1 DEF T
  <2>7. s[m + 1] = q[n + k] /\ n + k = (n + m) + 1 /\ n + m \in Nat
    BY <1>1, <1>2, <2>2, <2>4
  <2>8. /\ Count(q, (n + m) + 1, side)
             = Count(q, n + m, side) + (IF Wanted(q[(n + m) + 1], side) = NoTick THEN 0 ELSE 1)
        /\ Count(q, n, side) \in Nat
    BY <1>1, <2>7, CountIs
  <2>9. /\ Count(s, m + 1, side)
             = Count(s, m, side) + (IF Wanted(s[m + 1], side) = NoTick THEN 0 ELSE 1)
        /\ Count(s, m, side) \in Nat
    BY CountIs
  <2> QED
    BY <2>2, <2>4, <2>6, <2>7, <2>8, <2>9
<1>4. L - n \in Nat /\ n + (L - n) = L
  BY <1>1
<1> HIDE DEF L, s
<1> QED
  BY <1>3, <1>4 DEF L, s

\* One more decision counts when it wants the side.
LEMMA CountAppend ==
  ASSUME NEW q \in Seq(Decisions), NEW d \in Decisions, NEW side
  PROVE  Count(Append(q, d), Len(Append(q, d)), side)
           = Count(q, Len(q), side) + (IF Wanted(d, side) = NoTick THEN 0 ELSE 1)
<1> DEFINE L == Len(q)
           s == Append(q, d)
<1>1. L \in Nat /\ Len(s) = L + 1 /\ s[L + 1] = d /\ \A k \in 1 .. L : s[k] = q[k]
  OBVIOUS
<1> HIDE DEF L, s
<1>2. {k \in 1 .. L : Wanted(s[k], side) # NoTick} = {k \in 1 .. L : Wanted(q[k], side) # NoTick}
  BY <1>1
<1>3. Count(s, L, side) = Count(q, L, side)
  BY <1>2 DEF Count
<1>4. Count(s, L + 1, side)
        = Count(s, L, side) + (IF Wanted(s[L + 1], side) = NoTick THEN 0 ELSE 1)
  BY <1>1, CountIs
<1> QED
  BY <1>1, <1>3, <1>4 DEF L, s

-----------------------------------------------------------------------------
(***************************************************************************)
(* Decisions taking effect.                                                 *)
(***************************************************************************)

\* All but the quotes.
Same(x, y) ==
  y.pending = x.pending /\ y.inv = x.inv /\ y.best_bid = x.best_bid /\ y.best_ask = x.best_ask

\* agent.hpp:223: each decision places both sides.
LEMMA EffectIs ==
  ASSUME NEW x, AgentOK(x), x.best_bid # NoTick, NEW d \in Decisions,
         NEW bs \in Int, NEW as \in Int, NEW refused
  PROVE  LET y == TakeEffect(x, d, bs, as, refused) IN
         /\ AgentOK(y) /\ Same(x, y)
         /\ \A side \in Sides :
              /\ Quote(y, side).remaining
                   <= Quote(x, side).remaining + (IF Wanted(d, side) = NoTick THEN 0 ELSE QuoteSize)
              /\ Wanted(d, side) = NoTick => ~Quote(y, side).live
<1> DEFINE y == TakeEffect(x, d, bs, as, refused)
           size(side) == IF side = "Buy" THEN bs ELSE as
           placed(side) == Place(Quote(x, side), side, Wanted(d, side), size(side), refused)
<1>1. DOMAIN y = Fields /\ Same(x, y)
  BY DEF AgentOK, TakeEffect, Fields, Same
<1>2. ASSUME NEW side \in Sides
      PROVE  Quote(y, side) = placed(side)
  BY <1>2 DEF AgentOK, TakeEffect, Fields, Quote, Wanted, Sides
<1>3. ASSUME NEW side \in Sides
      PROVE  /\ Slot(placed(side))
             /\ placed(side).remaining
                   <= Quote(x, side).remaining + (IF Wanted(d, side) = NoTick THEN 0 ELSE QuoteSize)
             /\ Wanted(d, side) = NoTick => ~placed(side).live
  <2>1. Slot(Quote(x, side)) /\ Wanted(d, side) \in Int /\ size(side) \in Int
    BY DEF AgentOK, Wanted, Decisions
  <2> HIDE DEF size
  <2> QED
    BY <2>1, PlaceIs
<1> HIDE DEF y, placed
<1>4. AgentOK(y)
  BY <1>1, <1>2, <1>3 DEF AgentOK, Same
<1> QED
  BY <1>1, <1>2, <1>3, <1>4 DEF y

\* What y is when the first k of the decisions q have taken effect on x.
After(x, y, q, k) ==
  /\ AgentOK(y) /\ Same(x, y)
  /\ \A side \in Sides :
       /\ Quote(y, side).remaining <= Quote(x, side).remaining + QuoteSize * Count(q, k, side)
       /\ IF k = 0 THEN Quote(y, side) = Quote(x, side)
          ELSE Wanted(q[k], side) = NoTick => ~Quote(y, side).live

LEMMA AfterNone ==
  ASSUME NEW x, AgentOK(x), NEW q
  PROVE  After(x, x, q, 0)
<1>1. ASSUME NEW side \in Sides
      PROVE  Quote(x, side).remaining <= Quote(x, side).remaining + QuoteSize * Count(q, 0, side)
  <2>1. Count(q, 0, side) = 0 /\ Quote(x, side).remaining \in Nat /\ QuoteSize \in Nat
    BY CountIs, SlotFacts, AgentAssumption, 0 \in Nat DEF AgentOK
  <2> QED
    BY <2>1
<1> QED
  BY <1>1 DEF After, Same

LEMMA AfterOneMore ==
  ASSUME NEW x, AgentOK(x), x.best_bid # NoTick, NEW q, NEW k \in Nat, q[k + 1] \in Decisions,
         NEW y, After(x, y, q, k), NEW bs \in Int, NEW as \in Int, NEW refused
  PROVE  After(x, TakeEffect(y, q[k + 1], bs, as, refused), q, k + 1)
<1> DEFINE d == q[k + 1]
           z == TakeEffect(y, d, bs, as, refused)
<1>1. AgentOK(y) /\ Same(x, y) /\ y.best_bid # NoTick
  BY DEF After, Same
<1>2. /\ AgentOK(z) /\ Same(y, z)
      /\ \A side \in Sides :
           /\ Quote(z, side).remaining
                <= Quote(y, side).remaining + (IF Wanted(d, side) = NoTick THEN 0 ELSE QuoteSize)
           /\ Wanted(d, side) = NoTick => ~Quote(z, side).live
  BY <1>1, EffectIs
<1>3. Same(x, z)
  BY <1>1, <1>2 DEF Same
<1> HIDE DEF z, d
<1>4. ASSUME NEW side \in Sides
      PROVE  Quote(z, side).remaining
               <= Quote(x, side).remaining + QuoteSize * Count(q, k + 1, side)
  <2>1. /\ Quote(x, side).remaining \in Nat /\ Quote(y, side).remaining \in Nat
        /\ Quote(z, side).remaining \in Nat /\ QuoteSize \in Nat
    BY <1>1, <1>2, SlotFacts, AgentAssumption DEF AgentOK
  <2>2. /\ Count(q, k + 1, side) = Count(q, k, side) + (IF Wanted(d, side) = NoTick THEN 0 ELSE 1)
        /\ Count(q, k, side) \in Nat
    BY CountIs DEF d
  <2>3. Quote(y, side).remaining <= Quote(x, side).remaining + QuoteSize * Count(q, k, side)
    BY DEF After
  <2>4. /\ Quote(z, side).remaining
                <= Quote(y, side).remaining + (IF Wanted(d, side) = NoTick THEN 0 ELSE QuoteSize)
    BY <1>2
  <2>5. QuoteSize * Count(q, k, side) \in Nat
    BY <2>1, <2>2
  <2>6. QuoteSize * Count(q, k + 1, side)
          = QuoteSize * Count(q, k, side) + (IF Wanted(d, side) = NoTick THEN 0 ELSE QuoteSize)
    BY <2>1, <2>2
  <2> QED
    BY <2>1, <2>3, <2>4, <2>5, <2>6
<1>5. k + 1 # 0
  OBVIOUS
<1> QED
  BY <1>2, <1>3, <1>4, <1>5 DEF After, d, z

\* agent.hpp:220: what Activate does, for the number of decisions that are due.
Activated(a, r, ts, n) ==
  LET x == [a EXCEPT !.pending = SubSeq(@, n + 1, Len(@))] IN
  /\ n \in 0 .. Len(a.pending)
  /\ \A m \in 1 .. n : a.pending[m].effective <= ts
  /\ n < Len(a.pending) => ~(a.pending[n + 1].effective <= ts)
  /\ After(x, r, a.pending, n)

LEMMA ActivateIs ==
  ASSUME NEW a, AgentOK(a), NEW ts \in Int, NEW bs \in Int, NEW as \in Int, NEW refused
  PROVE  \E n \in 0 .. Len(a.pending) : Activated(a, Activate(a, ts, bs, as, refused), ts, n)
<1> DEFINE n == Cardinality(Due(a, ts))
           p == a.pending
           L == Len(p)
           x == [a EXCEPT !.pending = SubSeq(@, n + 1, Len(@))]
           q == SubSeq(p, 1, n)
<1>1. p \in Seq(Decisions) /\ L \in Nat /\ DOMAIN p = 1 .. L /\ \A k \in 1 .. L : p[k] \in Decisions
  BY DEF AgentOK
<1>2. /\ n \in 0 .. L
      /\ \A m \in 1 .. n : p[m].effective <= ts
      /\ n < L => ~(p[n + 1].effective <= ts)
  BY <1>1, DueIs
<1>3. Activate(a, ts, bs, as, refused) = Carried(x, q, bs, as, refused)
  BY DEF Activate, Carried
<1> HIDE DEF n
<1>4. AgentOK(x) /\ x.inv = a.inv /\ x.best_bid = a.best_bid /\ x.pending = SubSeq(p, n + 1, L)
  <2>1. /\ DOMAIN x = DOMAIN a /\ x.bid = a.bid /\ x.ask = a.ask /\ x.inv = a.inv
        /\ x.best_bid = a.best_bid /\ x.best_ask = a.best_ask /\ x.pending = SubSeq(p, n + 1, L)
    BY DEF AgentOK, Fields
  <2>2. \A side \in Sides : Quote(x, side) = Quote(a, side)
    BY <2>1 DEF Quote
  <2>3. SubSeq(p, n + 1, L) \in Seq(Decisions)
    BY <1>1, <1>2
  <2>4. p = <<>> => SubSeq(p, n + 1, L) = <<>>
    BY <1>1, <1>2
  <2> HIDE DEF x
  <2> QED
    BY <2>1, <2>2, <2>3, <2>4 DEF AgentOK
<1>5. n \in Nat /\ DOMAIN q = 1 .. n /\ \A k \in 1 .. n : q[k] = p[k]
  BY <1>1, <1>2
<1> HIDE DEF p, q, x, L
<1>6. PICK F : Carries(F, x, q, n, bs, as, refused) /\ F[n] = Carried(x, q, bs, as, refused)
  <2>1. CarriesAll(x, q, n, bs, as, refused)
    BY <1>5, CarryAll
  <2> QED
    BY <2>1 DEF CarriesAll
<1>7. CASE n = 0
  <2>1. F[0] = x
    BY <1>6 DEF Carries
  <2>2. After(x, F[n], p, n)
    BY <1>4, <1>7, <2>1, AfterNone
  <2> QED
    BY <1>2, <1>3, <1>6, <2>2 DEF Activated, x, p, L
<1>8. CASE n # 0
  <2>1. x.best_bid # NoTick
    <3>1. L # 0
      BY <1>1, <1>2, <1>5, <1>8
    <3>2. p # <<>>
      BY <3>1 DEF L
    <3> QED
      BY <1>4, <3>2 DEF AgentOK, p
  <2> DEFINE T == {k \in Nat : k <= n /\ ~After(x, F[k], p, k)}
  <2>2. T = {}
    <3> SUFFICES ASSUME T # {} PROVE FALSE
      OBVIOUS
    <3>1. PICK k \in T : \A j \in T : k <= j
      BY LeastNat
    <3>2. k \in Nat /\ k <= n /\ ~After(x, F[k], p, k)
      BY <3>1
    <3> HIDE DEF T
    <3>3. k # 0
      <4>1. F[0] = x
        BY <1>6 DEF Carries
      <4> QED
        BY <1>4, <3>2, <4>1, AfterNone
    <3>4. PICK m \in Nat : k = m + 1
      BY <3>2, <3>3
    <3>5. m \notin T
      <4>1. ~(k <= m)
        BY <3>4
      <4> QED
        BY <3>1, <4>1
    <3>6. After(x, F[m], p, m)
      <4>1. m <= n
        BY <1>5, <3>2, <3>4
      <4> QED
        BY <3>5, <4>1 DEF T
    <3>7. m + 1 \in 1 .. n /\ (m + 1) - 1 = m /\ m + 1 \in 1 .. L
      BY <1>2, <1>1, <1>5, <3>2, <3>4
    <3>8. F[m + 1] = TakeEffect(F[m], p[m + 1], bs, as, refused)
      BY <1>5, <1>6, <3>7 DEF Carries
    <3>9. p[m + 1] \in Decisions
      BY <1>1, <3>7
    <3> QED
      BY <1>4, <2>1, <3>2, <3>4, <3>6, <3>8, <3>9, AfterOneMore
  <2>3. After(x, F[n], p, n)
    BY <1>5, <2>2
  <2> QED
    BY <1>2, <1>3, <1>6, <2>3 DEF Activated, x, p, L
<1> QED
  BY <1>7, <1>8

-----------------------------------------------------------------------------
(***************************************************************************)
(* Deciding.                                                                *)
(***************************************************************************)

\* agent.hpp:277: nothing new is decided, and what was decided last pulls the sides
\* at their limits, or one more decision is, and that pulls them.
Decided(a, r, ts) ==
  /\ AgentOK(r) /\ r.inv = a.inv
  /\ \A side \in Sides : Quote(r, side) = Quote(a, side)
  /\ \/ /\ r.pending = a.pending
        /\ \A side \in Sides : Position(a, side) >= MaxInventory =>
             IF a.pending = <<>> THEN ~Quote(a, side).live
             ELSE Wanted(a.pending[Len(a.pending)], side) = NoTick
     \/ \E d \in Decisions :
          /\ r.pending = Append(a.pending, d) /\ d.effective = ts + Latency
          /\ \A side \in Sides : Position(a, side) >= MaxInventory => Wanted(d, side) = NoTick

LEMMA WantIs ==
  ASSUME NEW a, AgentOK(a), NEW model \in ModelPrices
  PROVE  /\ WantBid(a, model.bid) \in Int /\ WantAsk(a, model.ask) \in Int
         /\ Position(a, "Buy") >= MaxInventory => WantBid(a, model.bid) = NoTick
         /\ Position(a, "Sell") >= MaxInventory => WantAsk(a, model.ask) = NoTick
<1>1. /\ model.bid \in Int /\ model.ask \in Int /\ Offset \in Int /\ MaxInventory \in Int
      /\ a.inv \in Int /\ a.best_bid \in Int /\ a.best_ask \in Int
  BY AgentAssumption DEF AgentOK
<1>2. a.bid.tick \in Int /\ a.ask.tick \in Int
  <2>1. Slot(Quote(a, "Buy")) /\ Slot(Quote(a, "Sell"))
    BY DEF AgentOK, Sides
  <2>2. Slot(a.bid) /\ Slot(a.ask)
    BY <2>1 DEF Quote
  <2> QED
    BY <2>2, SlotFacts
<1>3. Least(model.bid, a.best_bid - Offset) \in Int /\ Most(model.ask, a.best_ask + Offset) \in Int
  BY <1>1 DEF Least, Most
<1>4. WantBid(a, model.bid) \in Int /\ WantAsk(a, model.ask) \in Int
  BY <1>2, <1>3 DEF WantBid, WantAsk, Hold, NoTick
<1>5. /\ a.inv >= MaxInventory => WantBid(a, model.bid) = NoTick
      /\ a.inv <= -MaxInventory => WantAsk(a, model.ask) = NoTick
  BY DEF WantBid, WantAsk
<1>6. /\ Position(a, "Buy") >= MaxInventory => a.inv >= MaxInventory
      /\ Position(a, "Sell") >= MaxInventory => a.inv <= -MaxInventory
  BY <1>1 DEF Position
<1> QED
  BY <1>4, <1>5, <1>6

LEMMA DecideIs ==
  ASSUME NEW a, AgentOK(a), NEW ts \in Int, NEW model \in ModelPrices
  PROVE  Decided(a, Decide(a, ts, model), ts)
<1> DEFINE bid == WantBid(a, model.bid)
           ask == WantAsk(a, model.ask)
           had == IF a.pending # <<>>
                    THEN [bid |-> Last(a.pending).bid, ask |-> Last(a.pending).ask]
                  ELSE [bid |-> a.bid.tick, ask |-> a.ask.tick]
           d   == [effective |-> ts + Latency, bid |-> bid, ask |-> ask]
           r   == Decide(a, ts, model)
<1>1. /\ bid \in Int /\ ask \in Int
      /\ Position(a, "Buy") >= MaxInventory => bid = NoTick
      /\ Position(a, "Sell") >= MaxInventory => ask = NoTick
  BY WantIs
<1>2. r = IF a.best_bid = NoTick \/ had = [bid |-> bid, ask |-> ask] THEN a
          ELSE [a EXCEPT !.pending = Append(@, d)]
  BY DEF Decide
<1> HIDE DEF bid, ask, r
<1>3. CASE a.best_bid = NoTick
  <2>1. r = a
    BY <1>2, <1>3
  <2>2. \A side \in Sides : ~(Position(a, side) >= MaxInventory)
    BY <1>3, AgentAssumption DEF AgentOK, Position
  <2> QED
    BY <2>1, <2>2 DEF Decided, r
<1>4. CASE a.best_bid # NoTick /\ had = [bid |-> bid, ask |-> ask]
  <2>1. r = a
    BY <1>2, <1>4
  <2>2. ASSUME NEW side \in Sides, Position(a, side) >= MaxInventory
        PROVE  IF a.pending = <<>> THEN ~Quote(a, side).live
               ELSE Wanted(a.pending[Len(a.pending)], side) = NoTick
    <3>1. IF side = "Buy" THEN had.bid = NoTick ELSE had.ask = NoTick
      BY <1>1, <1>4, <2>2 DEF Sides
    <3>2. CASE a.pending = <<>>
      <4>1. Quote(a, side).tick = NoTick
        BY <3>1, <3>2 DEF Quote
      <4>2. Slot(Quote(a, side))
        BY DEF AgentOK
      <4> QED
        BY <3>2, <4>1, <4>2, SlotFacts
    <3>3. CASE a.pending # <<>>
      BY <3>1, <3>3 DEF Wanted, Last
    <3> QED
      BY <3>2, <3>3
  <2> QED
    BY <2>1, <2>2 DEF Decided, r
<1>5. CASE a.best_bid # NoTick /\ had # [bid |-> bid, ask |-> ask]
  <2>1. r = [a EXCEPT !.pending = Append(@, d)]
    BY <1>2, <1>5
  <2>2. d \in Decisions /\ d.effective = ts + Latency /\ d.bid = bid /\ d.ask = ask
    BY <1>1, AgentAssumption DEF Decisions
  <2> HIDE DEF d
  <2>3. /\ DOMAIN r = Fields /\ r.pending = Append(a.pending, d) /\ r.inv = a.inv
        /\ r.bid = a.bid /\ r.ask = a.ask /\ r.best_bid = a.best_bid /\ r.best_ask = a.best_ask
    BY <2>1 DEF AgentOK, Fields
  <2>4. \A side \in Sides : Quote(r, side) = Quote(a, side)
    BY <2>3 DEF Quote
  <2>5. Append(a.pending, d) \in Seq(Decisions)
    BY <2>2 DEF AgentOK
  <2>6. AgentOK(r)
    BY <1>5, <2>3, <2>4, <2>5 DEF AgentOK
  <2>7. \A side \in Sides : Position(a, side) >= MaxInventory => Wanted(d, side) = NoTick
    BY <1>1, <2>2 DEF Wanted, Sides
  <2> QED
    BY <2>2, <2>3, <2>4, <2>6, <2>7 DEF Decided, r
<1> QED
  BY <1>3, <1>4, <1>5

-----------------------------------------------------------------------------
(***************************************************************************)
(* Events.  What one does to the agent: decisions come due, its quotes move,   *)
(* and it decides again.                                                    *)
(***************************************************************************)

\* What a quote gains the position, it loses itself, and none comes to life.
Moved(x, y) ==
  /\ AgentOK(y) /\ y.pending = x.pending
  /\ \A side \in Sides :
       /\ Position(y, side) + Quote(y, side).remaining
            <= Position(x, side) + Quote(x, side).remaining
       /\ ~Quote(x, side).live => ~Quote(y, side).live

Sees(a, r, ts) ==
  \E n \in 0 .. Len(a.pending) : \E x, y :
    Activated(a, x, ts, n) /\ Moved(x, y) /\ Decided(y, r, ts)

\* sim_main.cpp, on_snapshot: the decay moves queues only.
LEMMA SnapshotSees ==
  ASSUME NEW a, AgentOK(a), NEW ts \in Int, NEW b \in [Ticks -> Int], HasBoth(b),
         NEW model \in ModelPrices, NEW refused
  PROVE  Sees(a, OnSnapshot(a, ts, b, model, refused), ts)
<1> DEFINE bb == BestOf(b, "Buy")
           ba == BestOf(b, "Sell")
           x  == Activate(a, ts, QtyAt(b, bb), QtyAt(b, ba), refused)
           lb == QtyAt(b, a.bid.tick)
           la == QtyAt(b, a.ask.tick)
           y  == [x EXCEPT !.bid = ApplySnapshotDecay(@, lb), !.ask = ApplySnapshotDecay(@, la),
                           !.best_bid = bb, !.best_ask = ba]
<1>1. bb \in Int /\ ba \in Int /\ bb # NoTick
  BY BestIs DEF Sides
<1>2. QtyAt(b, bb) \in Int /\ QtyAt(b, ba) \in Int /\ lb \in Int /\ la \in Int
  BY QtyIsNumber
<1>3. PICK n \in 0 .. Len(a.pending) : Activated(a, x, ts, n)
  <2> HIDE DEF bb, ba
  <2> QED
    BY <1>2, ActivateIs
<1>4. OnSnapshot(a, ts, b, model, refused) = Decide(y, ts, model)
  BY DEF OnSnapshot
<1> HIDE DEF bb, ba, lb, la, x
<1>5. AgentOK(x)
  BY <1>3 DEF Activated, After
<1>6. /\ DOMAIN y = Fields /\ y.pending = x.pending /\ y.inv = x.inv
      /\ y.best_bid = bb /\ y.best_ask = ba
      /\ y.bid = ApplySnapshotDecay(x.bid, lb) /\ y.ask = ApplySnapshotDecay(x.ask, la)
  BY <1>5 DEF AgentOK, Fields
<1> HIDE DEF y
<1>7. ASSUME NEW side \in Sides
      PROVE  /\ Slot(Quote(y, side)) /\ Quote(y, side).remaining = Quote(x, side).remaining
             /\ Quote(y, side).live = Quote(x, side).live
             /\ Position(y, side) = Position(x, side)
             /\ Position(y, side) + Quote(y, side).remaining \in Int
  <2> DEFINE size == IF side = "Buy" THEN lb ELSE la
  <2>1. Slot(Quote(x, side)) /\ size \in Int
    BY <1>2, <1>5 DEF AgentOK
  <2>2. Quote(y, side) = ApplySnapshotDecay(Quote(x, side), size)
    BY <1>6 DEF Quote
  <2>3. Position(y, side) = Position(x, side) /\ Position(x, side) \in Int
    BY <1>5, <1>6 DEF Position, AgentOK
  <2> HIDE DEF size
  <2>4. /\ Slot(Quote(y, side)) /\ Quote(y, side).remaining = Quote(x, side).remaining
        /\ Quote(y, side).live = Quote(x, side).live
    BY <2>1, <2>2, DecayIs
  <2>5. Quote(y, side).remaining \in Nat
    BY <2>4, SlotFacts
  <2> QED
    BY <2>3, <2>4, <2>5
<1>8. AgentOK(y)
  BY <1>1, <1>5, <1>6, <1>7 DEF AgentOK
<1>9. Moved(x, y)
  BY <1>6, <1>7, <1>8 DEF Moved
<1>10. Decided(y, OnSnapshot(a, ts, b, model, refused), ts)
  BY <1>4, <1>8, DecideIs
<1> QED
  BY <1>3, <1>9, <1>10 DEF Sees

\* A fill of either side, in numbers: i the position, b and k the quotes.
LEMMA FillMoves ==
  ASSUME NEW i \in Int, NEW b \in Nat, NEW k \in Nat, NEW bl \in Nat, NEW kl \in Nat,
         bl <= b, kl <= k
  PROVE  LET j == i + ((b - bl) - (k - kl)) IN j + bl <= i + b /\ -j + kl <= -i + k
OBVIOUS

\* sim_main.cpp, on_print: what a print fills goes from the quote to the position.
LEMMA PrintSees ==
  ASSUME NEW a, AgentOK(a), NEW ts \in Int, NEW b \in [Ticks -> Int], HasBoth(b),
         NEW aggressor \in Sides, NEW tick \in Ticks, NEW qty \in PrintSizes,
         NEW model \in ModelPrices, NEW refused
  PROVE  Sees(a, OnPrint(a, ts, b, aggressor, tick, qty, model, refused), ts)
<1> DEFINE sb == QtyAt(b, BestOf(b, "Buy"))
           sa == QtyAt(b, BestOf(b, "Sell"))
           x  == Activate(a, ts, sb, sa, refused)
           p  == ApplyPrint(x.bid, "Buy", aggressor, tick, qty)
           s  == ApplyPrint(x.ask, "Sell", aggressor, tick, qty)
           fill == (x.bid.remaining - p.remaining) - (x.ask.remaining - s.remaining)
           y  == [x EXCEPT !.bid = Spent(p), !.ask = Spent(s), !.inv = @ + fill]
           r  == OnPrint(a, ts, b, aggressor, tick, qty, model, refused)
<1>1. sb \in Int /\ sa \in Int
  BY QtyIsNumber
<1>2. tick \in Int /\ qty \in Nat
  BY AgentAssumption
<1>3. r = Decide(y, ts, model)
  BY DEF OnPrint
<1> HIDE DEF sb, sa, r
<1>4. PICK n \in 0 .. Len(a.pending) : Activated(a, x, ts, n)
  BY <1>1, ActivateIs
<1> HIDE DEF x
<1>5. AgentOK(x)
  BY <1>4 DEF Activated, After
<1>6. /\ DOMAIN y = Fields /\ y.pending = x.pending /\ y.inv = x.inv + fill
      /\ y.best_bid = x.best_bid /\ y.best_ask = x.best_ask
      /\ y.bid = Spent(p) /\ y.ask = Spent(s)
  BY <1>5 DEF AgentOK, Fields
<1> HIDE DEF y
<1>7. Slot(x.bid) /\ Slot(x.ask)
  <2>1. Slot(Quote(x, "Buy")) /\ Slot(Quote(x, "Sell"))
    BY <1>5 DEF AgentOK, Sides
  <2> QED
    BY <2>1 DEF Quote
<1>8. /\ Slot(Spent(p)) /\ Spent(p).remaining = p.remaining
      /\ p.remaining \in Nat /\ p.remaining <= x.bid.remaining
      /\ ~x.bid.live => Spent(p) = x.bid
  <2>1. "Buy" \in Sides
    BY DEF Sides
  <2> HIDE DEF fill
  <2> QED
    BY <1>2, <1>7, <2>1, PrintIs
<1>9. /\ Slot(Spent(s)) /\ Spent(s).remaining = s.remaining
      /\ s.remaining \in Nat /\ s.remaining <= x.ask.remaining
      /\ ~x.ask.live => Spent(s) = x.ask
  <2>1. "Sell" \in Sides
    BY DEF Sides
  <2> HIDE DEF fill
  <2> QED
    BY <1>2, <1>7, <2>1, PrintIs
<1>10. x.bid.remaining \in Nat /\ x.ask.remaining \in Nat /\ x.inv \in Int
  BY <1>5, <1>7, SlotFacts DEF AgentOK
<1> HIDE DEF p, s
<1>11. fill \in Int /\ (~x.bid.live /\ ~x.ask.live => fill = 0)
  <2>1. ~x.bid.live => p.remaining = x.bid.remaining
    BY <1>8
  <2>2. ~x.ask.live => s.remaining = x.ask.remaining
    BY <1>9
  <2>3. p.remaining \in Nat /\ s.remaining \in Nat
    BY <1>8, <1>9
  <2> QED
    BY <1>10, <2>1, <2>2, <2>3
<1>12. /\ y.inv + y.bid.remaining <= x.inv + x.bid.remaining
       /\ -y.inv + y.ask.remaining <= -x.inv + x.ask.remaining
  <2>1. y.bid.remaining = p.remaining /\ y.ask.remaining = s.remaining /\ y.inv = x.inv + fill
    BY <1>6, <1>8, <1>9
  <2>2. p.remaining \in Nat /\ s.remaining \in Nat
    BY <1>8, <1>9
  <2>3. p.remaining <= x.bid.remaining /\ s.remaining <= x.ask.remaining
    BY <1>8, <1>9
  <2> QED
    BY <1>10, <2>1, <2>2, <2>3, FillMoves
<1> HIDE DEF fill
<1>13. \A side \in Sides : Quote(y, side) = IF side = "Buy" THEN Spent(p) ELSE Spent(s)
  BY <1>6 DEF Quote
<1>14. ASSUME x.best_bid = NoTick
       PROVE  x.pending = <<>> /\ y.inv = 0 /\ \A side \in Sides : ~Quote(y, side).live
  <2>1. x.pending = <<>> /\ x.inv = 0 /\ ~Quote(x, "Buy").live /\ ~Quote(x, "Sell").live
    BY <1>5, <1>14 DEF AgentOK, Sides
  <2>2. ~x.bid.live /\ ~x.ask.live
    BY <2>1 DEF Quote
  <2>3. y.inv = 0
    BY <1>6, <1>11, <2>1, <2>2
  <2> QED
    BY <1>8, <1>9, <1>13, <2>1, <2>2, <2>3
<1>15. AgentOK(y)
  <2>1. y.inv \in Int
    BY <1>6, <1>10, <1>11
  <2> QED
    BY <1>5, <1>6, <1>8, <1>9, <1>13, <1>14, <2>1 DEF AgentOK
<1>16. Moved(x, y)
  <2>1. ASSUME NEW side \in Sides
        PROVE  Position(y, side) + Quote(y, side).remaining
                 <= Position(x, side) + Quote(x, side).remaining
    BY <1>12 DEF Position, Quote
  <2>2. ASSUME NEW side \in Sides, ~Quote(x, side).live
        PROVE  ~Quote(y, side).live
    BY <1>8, <1>9, <1>13, <2>2 DEF Quote
  <2> QED
    BY <1>6, <1>15, <2>1, <2>2 DEF Moved
<1>17. Decided(y, r, ts)
  BY <1>3, <1>15, DecideIs
<1> QED
  BY <1>4, <1>16, <1>17 DEF Sees, r

-----------------------------------------------------------------------------
(***************************************************************************)
(* The invariant.                                                           *)
(***************************************************************************)

\* The side is out of the book once the decisions effective by then are: from the
\* m-th on none wants it, and when m is 0 it is out already.
Pulled(a, side, by) ==
  \E m \in 0 .. Len(a.pending) :
    /\ m = 0 => ~Quote(a, side).live
    /\ \A l \in 1 .. m : a.pending[l].effective <= by
    /\ \A l \in 1 .. Len(a.pending) : l >= m => Wanted(a.pending[l], side) = NoTick

\* Every decision takes effect within a latency from now, and a side that came to
\* its limit is pulled by a latency after that.
AgentInv ==
  /\ now \in Nat /\ book \in [Ticks -> Int] /\ AgentOK(ag)
  /\ DOMAIN since = Sides
  /\ \A n \in 1 .. Len(ag.pending) : ag.pending[n].effective <= now + Latency
  /\ \A side \in Sides :
       IF Position(ag, side) >= MaxInventory
         THEN since[side] \in 0 .. now /\ Pulled(ag, side, since[side] + Latency)
       ELSE since[side] = Never

\* An agent whose oldest decisions have come due: the quotes and the position are
\* still those it had.
LEMMA RestIs ==
  ASSUME NEW a, AgentOK(a), NEW n \in 0 .. Len(a.pending)
  PROVE  LET x == [a EXCEPT !.pending = SubSeq(@, n + 1, Len(@))] IN
         /\ x.pending = SubSeq(a.pending, n + 1, Len(a.pending)) /\ x.inv = a.inv
         /\ \A side \in Sides : Quote(x, side) = Quote(a, side)
         /\ Len(x.pending) = Len(a.pending) - n
         /\ \A k \in 1 .. Len(a.pending) - n : x.pending[k] = a.pending[n + k]
<1> DEFINE x == [a EXCEPT !.pending = SubSeq(@, n + 1, Len(@))]
<1>1. a.pending \in Seq(Decisions) /\ Len(a.pending) \in Nat
  BY DEF AgentOK
<1>2. /\ x.pending = SubSeq(a.pending, n + 1, Len(a.pending)) /\ x.inv = a.inv
      /\ x.bid = a.bid /\ x.ask = a.ask
  BY DEF AgentOK, Fields
<1> HIDE DEF x
<1>3. \A side \in Sides : Quote(x, side) = Quote(a, side)
  BY <1>2 DEF Quote
<1>4. /\ Len(x.pending) = Len(a.pending) - n
      /\ \A k \in 1 .. Len(a.pending) - n : x.pending[k] = a.pending[n + k]
  BY <1>1, <1>2
<1> QED
  BY <1>2, <1>3, <1>4 DEF x

LEMMA DecisionsAreTimed ==
  ASSUME NEW a, AgentOK(a)
  PROVE  Len(a.pending) \in Nat /\ \A l \in 1 .. Len(a.pending) : a.pending[l].effective \in Int
<1>1. a.pending \in Seq(Decisions)
  BY DEF AgentOK
<1>2. \A d \in Decisions : d.effective \in Int
  BY DEF Decisions
<1>3. \A l \in 1 .. Len(a.pending) : a.pending[l] \in Decisions
  BY <1>1
<1> QED
  BY <1>1, <1>2, <1>3

\* What the steps of an event say of it: n decisions are gone from the front, and
\* one may have joined at the back.
SeesBut(a, r, ts, n, y) ==
  /\ AgentOK(y) /\ Decided(y, r, ts)
  /\ n \in 0 .. Len(a.pending)
  /\ \A m \in 1 .. n : a.pending[m].effective <= ts
  /\ n < Len(a.pending) => ~(a.pending[n + 1].effective <= ts)
  /\ y.pending = SubSeq(a.pending, n + 1, Len(a.pending))
  /\ Len(y.pending) = Len(a.pending) - n
  /\ \A k \in 1 .. Len(a.pending) - n : y.pending[k] = a.pending[n + k]
  /\ \A side \in Sides :
       /\ Position(y, side) + Quote(y, side).remaining
            <= Position(a, side) + Quote(a, side).remaining + QuoteSize * Count(a.pending, n, side)
       /\ IF n = 0 THEN ~Quote(a, side).live => ~Quote(y, side).live
          ELSE Wanted(a.pending[n], side) = NoTick => ~Quote(y, side).live

LEMMA SeesIs ==
  ASSUME NEW a, AgentOK(a), NEW r, NEW ts \in Int, Sees(a, r, ts)
  PROVE  \E n, y : SeesBut(a, r, ts, n, y)
<1> DEFINE b(n) == [a EXCEPT !.pending = SubSeq(@, n + 1, Len(@))]
<1>1. PICK n \in 0 .. Len(a.pending) : \E x, y :
              Activated(a, x, ts, n) /\ Moved(x, y) /\ Decided(y, r, ts)
  BY DEF Sees
<1>2. PICK x, y : Activated(a, x, ts, n) /\ Moved(x, y) /\ Decided(y, r, ts)
  BY <1>1
<1>3. /\ b(n).pending = SubSeq(a.pending, n + 1, Len(a.pending)) /\ b(n).inv = a.inv
      /\ \A side \in Sides : Quote(b(n), side) = Quote(a, side)
      /\ Len(b(n).pending) = Len(a.pending) - n
      /\ \A k \in 1 .. Len(a.pending) - n : b(n).pending[k] = a.pending[n + k]
  BY RestIs
<1>4. After(b(n), x, a.pending, n)
  BY <1>2 DEF Activated
<1> HIDE DEF b
<1>5. /\ AgentOK(x) /\ x.pending = b(n).pending /\ x.inv = a.inv
      /\ y.pending = x.pending /\ AgentOK(y)
  BY <1>2, <1>3, <1>4 DEF After, Same, Moved
<1>6. ASSUME NEW side \in Sides
      PROVE  Position(y, side) + Quote(y, side).remaining
               <= Position(a, side) + Quote(a, side).remaining
                    + QuoteSize * Count(a.pending, n, side)
  <2>1. Quote(x, side).remaining <= Quote(a, side).remaining + QuoteSize * Count(a.pending, n, side)
    BY <1>3, <1>4 DEF After
  <2>2. Position(y, side) + Quote(y, side).remaining <= Position(x, side) + Quote(x, side).remaining
    BY <1>2 DEF Moved
  <2>3. Position(x, side) = Position(a, side)
    BY <1>5 DEF Position
  <2>4. Position(a, side) \in Int /\ Position(y, side) \in Int
    BY <1>5 DEF Position, AgentOK
  <2>5. /\ Quote(x, side).remaining \in Nat /\ Quote(y, side).remaining \in Nat
        /\ Quote(a, side).remaining \in Nat
    BY <1>5, SlotFacts DEF AgentOK
  <2>6. Count(a.pending, n, side) \in Nat /\ QuoteSize \in Nat
    <3>1. n \in Nat
      BY DecisionsAreTimed
    <3>2. Count(a.pending, n, side) \in Nat
      BY <3>1, CountIs
    <3> QED
      BY <3>2, AgentAssumption
  <2>7. QuoteSize * Count(a.pending, n, side) \in Nat
    BY <2>6
  <2> QED
    BY <2>1, <2>2, <2>3, <2>4, <2>5, <2>7
<1>7. ASSUME NEW side \in Sides
      PROVE  IF n = 0 THEN ~Quote(a, side).live => ~Quote(y, side).live
             ELSE Wanted(a.pending[n], side) = NoTick => ~Quote(y, side).live
  <2>1. IF n = 0 THEN Quote(x, side) = Quote(a, side)
        ELSE Wanted(a.pending[n], side) = NoTick => ~Quote(x, side).live
    BY <1>3, <1>4 DEF After
  <2>2. ~Quote(x, side).live => ~Quote(y, side).live
    BY <1>2 DEF Moved
  <2> QED
    BY <2>1, <2>2
<1>8. SeesBut(a, r, ts, n, y)
  BY <1>2, <1>3, <1>5, <1>6, <1>7 DEF SeesBut, Activated
<1> QED
  BY <1>8

LEMMA ExposureIs ==
  ASSUME NEW a, AgentOK(a), NEW side \in Sides
  PROVE  /\ Exposure(a, side) = Position(a, side) + Quote(a, side).remaining
                                  + QuoteSize * Count(a.pending, Len(a.pending), side)
         /\ Position(a, side) \in Int /\ Quote(a, side).remaining \in Nat
<1>1. DOMAIN a.pending = 1 .. Len(a.pending)
  BY DEF AgentOK
<1>2. Position(a, side) \in Int /\ Quote(a, side).remaining \in Nat
  BY SlotFacts DEF AgentOK, Position
<1> QED
  BY <1>1, <1>2 DEF Exposure, Count, Wanted

\* Nothing of an event adds to the exposure of a side that ends it at its limit.
LEMMA SeesExposure ==
  ASSUME NEW a, AgentOK(a), NEW r, NEW ts \in Int, NEW n, NEW y, SeesBut(a, r, ts, n, y),
         NEW side \in Sides, Position(r, side) >= MaxInventory
  PROVE  Exposure(r, side) <= Exposure(a, side)
<1> DEFINE ca == Count(a.pending, Len(a.pending), side)
           cn == Count(a.pending, n, side)
           cy == Count(y.pending, Len(y.pending), side)
           cr == Count(r.pending, Len(r.pending), side)
<1>1. /\ a.pending \in Seq(Decisions) /\ n \in 0 .. Len(a.pending) /\ n \in Nat
      /\ AgentOK(y) /\ AgentOK(r)
  BY DEF AgentOK, SeesBut, Decided
<1>2. ca = cn + cy
  BY <1>1, CountSplits DEF SeesBut
<1>3. Quote(r, side) = Quote(y, side) /\ Position(r, side) = Position(y, side)
  BY DEF SeesBut, Decided, Position
<1>4. cr = cy
  <2>1. CASE r.pending = y.pending
    BY <2>1
  <2>2. CASE r.pending # y.pending
    <3>1. PICK d \in Decisions :
                 r.pending = Append(y.pending, d) /\ Wanted(d, side) = NoTick
      BY <1>3, <2>2 DEF SeesBut, Decided
    <3>2. y.pending \in Seq(Decisions)
      BY <1>1 DEF AgentOK
    <3>3. cr = cy + 0
      BY <3>1, <3>2, CountAppend
    <3>4. Len(y.pending) \in Nat
      BY <3>2
    <3>5. cy \in Nat
      BY <3>4, CountIs
    <3> HIDE DEF cr, cy
    <3> QED
      BY <3>3, <3>5
  <2> QED
    BY <2>1, <2>2
<1>5. cn \in Nat /\ cy \in Nat /\ QuoteSize \in Nat
  <2>1. Len(y.pending) \in Nat
    BY <1>1 DEF AgentOK
  <2> QED
    BY <1>1, <2>1, CountIs, AgentAssumption
<1>6. /\ Exposure(r, side) = Position(r, side) + Quote(r, side).remaining + QuoteSize * cr
      /\ Exposure(a, side) = Position(a, side) + Quote(a, side).remaining + QuoteSize * ca
      /\ Position(r, side) \in Int /\ Quote(r, side).remaining \in Nat
      /\ Position(a, side) \in Int /\ Quote(a, side).remaining \in Nat
  BY <1>1, ExposureIs
<1>7. Position(r, side) + Quote(r, side).remaining
        <= Position(a, side) + Quote(a, side).remaining + QuoteSize * cn
  BY <1>3 DEF SeesBut
<1> HIDE DEF ca, cn, cy, cr
<1>8. QuoteSize * ca = QuoteSize * cn + QuoteSize * cr
  BY <1>2, <1>4, <1>5
<1>9. QuoteSize * cn \in Nat /\ QuoteSize * cr \in Nat
  BY <1>4, <1>5
<1> QED
  BY <1>6, <1>7, <1>8, <1>9

\* A side whose pulling was due by now is out.
LEMMA SeesOut ==
  ASSUME NEW a, AgentOK(a), NEW r, NEW ts \in Int, NEW n, NEW y, SeesBut(a, r, ts, n, y),
         NEW side \in Sides, NEW by \in Int, by <= ts, Pulled(a, side, by)
  PROVE  ~Quote(r, side).live
<1>1. PICK m \in 0 .. Len(a.pending) :
             /\ m = 0 => ~Quote(a, side).live
             /\ \A l \in 1 .. m : a.pending[l].effective <= by
             /\ \A l \in 1 .. Len(a.pending) : l >= m => Wanted(a.pending[l], side) = NoTick
  BY DEF Pulled
<1>2. Len(a.pending) \in Nat /\ \A l \in 1 .. Len(a.pending) : a.pending[l].effective \in Int
  BY DecisionsAreTimed
<1>3. n \in 0 .. Len(a.pending) /\ n \in Nat /\ m \in Nat
  BY <1>1 DEF SeesBut
<1>4. n >= m
  <2> SUFFICES ASSUME n < m PROVE FALSE
    BY <1>3
  <2>1. n + 1 \in 1 .. m /\ n + 1 \in 1 .. Len(a.pending) /\ n < Len(a.pending)
    BY <1>1, <1>2, <1>3
  <2>2. a.pending[n + 1].effective <= by /\ a.pending[n + 1].effective \in Int
    BY <1>1, <1>2, <2>1
  <2>3. ~(a.pending[n + 1].effective <= ts)
    BY <2>1 DEF SeesBut
  <2> QED
    BY <2>2, <2>3
<1>5. ~Quote(y, side).live
  <2>1. CASE n = 0
    <3>1. ~Quote(a, side).live
      BY <1>1, <1>3, <1>4, <2>1
    <3> QED
      BY <2>1, <3>1 DEF SeesBut
  <2>2. CASE n # 0
    <3>1. n \in 1 .. Len(a.pending)
      BY <1>3, <2>2
    <3>2. Wanted(a.pending[n], side) = NoTick
      BY <1>1, <1>4, <3>1
    <3> QED
      BY <2>2, <3>2 DEF SeesBut
  <2> QED
    BY <2>1, <2>2
<1> QED
  BY <1>5 DEF SeesBut, Decided

\* A side that is being pulled, and ends the event at its limit, still is.
LEMMA SeesKeepsPulling ==
  ASSUME NEW a, AgentOK(a), NEW r, NEW ts \in Int, NEW n, NEW y, SeesBut(a, r, ts, n, y),
         NEW side \in Sides, Position(r, side) >= MaxInventory, NEW by \in Int, Pulled(a, side, by)
  PROVE  Pulled(r, side, by)
<1>1. PICK m \in 0 .. Len(a.pending) :
             /\ m = 0 => ~Quote(a, side).live
             /\ \A l \in 1 .. m : a.pending[l].effective <= by
             /\ \A l \in 1 .. Len(a.pending) : l >= m => Wanted(a.pending[l], side) = NoTick
  BY DEF Pulled
<1> DEFINE L == Len(a.pending)
           k == IF m <= n THEN 0 ELSE m - n
<1>2. /\ L \in Nat /\ n \in 0 .. L /\ n \in Nat /\ m \in 0 .. L /\ m \in Nat
      /\ Len(y.pending) = L - n /\ y.pending \in Seq(Decisions)
      /\ \A l \in 1 .. L - n : y.pending[l] = a.pending[n + l]
  BY DEF AgentOK, SeesBut
<1> HIDE DEF L
<1>3. k \in 0 .. L - n /\ k \in Nat
  BY <1>2
<1>4. k = 0 => ~Quote(y, side).live
  <2> SUFFICES ASSUME m <= n PROVE ~Quote(y, side).live
    BY <1>2
  <2>1. CASE n = 0
    <3>1. ~Quote(a, side).live
      BY <1>1, <1>2, <2>1
    <3> QED
      BY <2>1, <3>1 DEF SeesBut
  <2>2. CASE n # 0
    <3>1. n \in 1 .. L
      BY <1>2, <2>2
    <3>2. Wanted(a.pending[n], side) = NoTick
      BY <1>1, <1>2, <3>1 DEF L
    <3> QED
      BY <2>2, <3>2 DEF SeesBut
  <2> QED
    BY <2>1, <2>2
<1>5. ASSUME NEW l \in 1 .. k
      PROVE  y.pending[l].effective <= by
  <2>1. l \in 1 .. L - n /\ n + l \in 1 .. m
    BY <1>2
  <2> QED
    BY <1>1, <1>2, <2>1
<1>6. ASSUME NEW l \in 1 .. L - n, l >= k
      PROVE  Wanted(y.pending[l], side) = NoTick
  <2>1. n + l \in 1 .. L /\ n + l >= m
    BY <1>2, <1>6
  <2> QED
    BY <1>1, <1>2, <2>1 DEF L
<1> HIDE DEF k
<1>7. Quote(r, side) = Quote(y, side) /\ Position(y, side) = Position(r, side)
  BY DEF SeesBut, Decided, Position
<1>8. CASE r.pending = y.pending
  <2>1. k \in 0 .. Len(r.pending) /\ Len(r.pending) = L - n
    BY <1>2, <1>3, <1>8
  <2> QED
    BY <1>4, <1>5, <1>6, <1>7, <1>8, <2>1 DEF Pulled
<1>9. CASE r.pending # y.pending
  <2>1. PICK d \in Decisions : r.pending = Append(y.pending, d) /\ Wanted(d, side) = NoTick
    BY <1>7, <1>9 DEF SeesBut, Decided
  <2>2. /\ Len(r.pending) = (L - n) + 1 /\ r.pending[(L - n) + 1] = d
        /\ \A l \in 1 .. L - n : r.pending[l] = y.pending[l]
    <3>1. y.pending \in Seq(Decisions) /\ Len(y.pending) \in Nat /\ Len(y.pending) = L - n
      BY <1>2
    <3>2. /\ Len(r.pending) = Len(y.pending) + 1 /\ r.pending[Len(y.pending) + 1] = d
          /\ \A l \in 1 .. Len(y.pending) : r.pending[l] = y.pending[l]
      BY <2>1, <3>1
    <3> QED
      BY <3>1, <3>2
  <2>3. k \in 0 .. Len(r.pending)
    BY <1>2, <1>3, <2>2
  <2>4. \A l \in 1 .. k : r.pending[l].effective <= by
    <3>1. \A l \in 1 .. k : l \in 1 .. L - n
      BY <1>2, <1>3
    <3> QED
      BY <1>5, <2>2, <3>1
  <2>5. \A l \in 1 .. Len(r.pending) : l >= k => Wanted(r.pending[l], side) = NoTick
    <3>1. \A l \in 1 .. Len(r.pending) : l \in 1 .. L - n \/ l = (L - n) + 1
      BY <1>2, <2>2
    <3> QED
      BY <1>6, <2>1, <2>2, <3>1
  <2> QED
    BY <1>4, <1>7, <2>3, <2>4, <2>5 DEF Pulled
<1> QED
  BY <1>8, <1>9

\* A side that ends an event at its limit is pulled by a latency after it.
LEMMA SeesPulls ==
  ASSUME NEW a, AgentOK(a), NEW r, NEW ts \in Int, NEW n, NEW y, SeesBut(a, r, ts, n, y),
         \A l \in 1 .. Len(a.pending) : a.pending[l].effective <= ts + Latency
  PROVE  /\ AgentOK(r)
         /\ \A l \in 1 .. Len(r.pending) : r.pending[l].effective <= ts + Latency
         /\ \A side \in Sides : Position(r, side) >= MaxInventory => Pulled(r, side, ts + Latency)
<1> DEFINE L == Len(y.pending)
           by == ts + Latency
<1>1. L \in Nat /\ y.pending \in Seq(Decisions) /\ by \in Int /\ Latency \in Nat
  BY AgentAssumption DEF SeesBut, AgentOK
<1>2. \A l \in 1 .. L : y.pending[l].effective <= by
  <2>1. Len(a.pending) \in Nat /\ n \in 0 .. Len(a.pending) /\ L = Len(a.pending) - n
    BY DEF SeesBut, AgentOK
  <2>2. \A l \in 1 .. L : n + l \in 1 .. Len(a.pending)
    BY <2>1
  <2> QED
    BY <2>1, <2>2 DEF SeesBut
<1>3. Decided(y, r, ts) /\ AgentOK(r)
  BY DEF SeesBut, Decided
<1>4. \A side \in Sides : Quote(r, side) = Quote(y, side) /\ Position(r, side) = Position(y, side)
  BY <1>3 DEF Decided, Position
<1> HIDE DEF by
<1>5. CASE r.pending = y.pending /\ \A side \in Sides : Position(y, side) >= MaxInventory =>
             IF y.pending = <<>> THEN ~Quote(y, side).live
             ELSE Wanted(y.pending[L], side) = NoTick
  <2>1. ASSUME NEW side \in Sides, Position(r, side) >= MaxInventory
        PROVE  Pulled(r, side, by)
    <3>1. IF y.pending = <<>> THEN ~Quote(y, side).live ELSE Wanted(y.pending[L], side) = NoTick
      BY <1>4, <1>5, <2>1
    <3>2. L = 0 => y.pending = <<>>
      BY <1>1
    <3>3. L # 0 => y.pending # <<>>
      BY <1>1
    <3>4. L = 0 => ~Quote(r, side).live
      BY <1>4, <3>1, <3>2
    <3>5. \A l \in 1 .. L : l >= L => Wanted(y.pending[l], side) = NoTick
      <4>1. \A l \in 1 .. L : l >= L => l = L /\ L # 0
        BY <1>1
      <4> QED
        BY <3>1, <3>3, <4>1
    <3>6. L \in 0 .. L
      BY <1>1
    <3> QED
      BY <1>2, <1>5, <3>4, <3>5, <3>6 DEF Pulled
  <2> QED
    BY <1>2, <1>3, <1>5, <2>1 DEF by
<1>6. ASSUME NEW d \in Decisions, r.pending = Append(y.pending, d), d.effective = by,
             \A side \in Sides : Position(y, side) >= MaxInventory => Wanted(d, side) = NoTick
      PROVE  /\ \A l \in 1 .. Len(r.pending) : r.pending[l].effective <= by
             /\ \A side \in Sides : Position(r, side) >= MaxInventory => Pulled(r, side, by)
  <2>1. /\ Len(r.pending) = L + 1 /\ r.pending[L + 1] = d
        /\ \A l \in 1 .. L : r.pending[l] = y.pending[l]
    BY <1>1, <1>6
  <2>2. \A l \in 1 .. Len(r.pending) : l \in 1 .. L \/ l = L + 1
    BY <1>1, <2>1
  <2>3. \A l \in 1 .. Len(r.pending) : r.pending[l].effective <= by
    <3>1. by <= by
      BY <1>1
    <3> QED
      BY <1>2, <1>6, <2>1, <2>2, <3>1
  <2>4. ASSUME NEW side \in Sides, Position(r, side) >= MaxInventory
        PROVE  Pulled(r, side, by)
    <3>1. Wanted(d, side) = NoTick
      BY <1>4, <1>6, <2>4
    <3>2. L + 1 \in 0 .. Len(r.pending) /\ L + 1 # 0 /\ Len(r.pending) = L + 1
      BY <1>1, <2>1
    <3>3. \A l \in 1 .. Len(r.pending) : l >= L + 1 => l = L + 1
      BY <1>1, <2>1
    <3>4. \A l \in 1 .. Len(r.pending) : l >= L + 1 => Wanted(r.pending[l], side) = NoTick
      BY <2>1, <3>1, <3>3
    <3> QED
      BY <2>3, <3>2, <3>4 DEF Pulled
  <2> QED
    BY <2>3, <2>4
<1> QED
  BY <1>3, <1>5, <1>6 DEF Decided, by

\* What a step is to the clock and to the history, by the agent it leaves.
Clocked(ts) ==
  /\ now' = ts /\ DOMAIN since' = Sides
  /\ \A side \in Sides :
       since'[side] = IF ~(Position(ag', side) >= MaxInventory) THEN Never
                      ELSE IF since[side] # Never THEN since[side] ELSE ts

LEMMA ClockedIs ==
  ASSUME NEW ts, NEW a, AgentOK(a), NEW kind, At(ts, a, kind)
  PROVE  Clocked(ts) /\ ag' = a /\ event' = kind
<1>1. now' = ts /\ ag' = a /\ event' = kind
  BY DEF At
<1>2. a.inv \in Int /\ MaxInventory \in Int
  BY AgentAssumption DEF AgentOK
<1>3. (-a.inv >= MaxInventory) <=> (a.inv <= -MaxInventory)
  BY <1>2
<1>4. /\ DOMAIN since' = Sides
      /\ since'["Buy"] = IF ~(a.inv >= MaxInventory) THEN Never
                         ELSE IF since.Buy # Never THEN since.Buy ELSE ts
      /\ since'["Sell"] = IF ~(a.inv <= -MaxInventory) THEN Never
                          ELSE IF since.Sell # Never THEN since.Sell ELSE ts
  BY DEF At, Sides
<1>5. Position(a, "Buy") = a.inv /\ Position(a, "Sell") = -a.inv
  BY DEF Position
<1> QED
  BY <1>1, <1>3, <1>4, <1>5 DEF Clocked, Sides

\* A flat agent with nothing on its way.
Idle(a) == AgentOK(a) /\ a.inv = 0 /\ a.pending = <<>>

LEMMA FlatIsIdle ==
  ASSUME NEW a, AgentOK(a)
  PROVE  Flatten(a) = a \/ Idle(Flatten(a))
<1>1. CASE a.inv = 0
  BY <1>1 DEF Flatten
<1>2. CASE a.inv # 0
  <2> DEFINE r == Flatten(a)
  <2>1. /\ DOMAIN r = Fields /\ r.inv = 0 /\ r.pending = <<>> /\ r.bid = NoQuote /\ r.ask = NoQuote
        /\ r.best_bid = a.best_bid /\ r.best_ask = a.best_ask
    BY <1>2 DEF Flatten, AgentOK, Fields
  <2> HIDE DEF r
  <2>2. \A side \in Sides : Quote(r, side) = NoQuote
    BY <2>1 DEF Quote
  <2>3. <<>> \in Seq(Decisions)
    OBVIOUS
  <2>4. AgentOK(r)
    BY <2>1, <2>2, <2>3, BlankIsSlot DEF AgentOK
  <2> QED
    BY <2>1, <2>4 DEF Idle, r
<1> QED
  BY <1>1, <1>2

LEMMA FreshIsIdle == Idle(FreshAgent)
<1> DEFINE r == FreshAgent
<1>1. /\ DOMAIN r = Fields /\ r.inv = 0 /\ r.pending = <<>> /\ r.bid = NoQuote /\ r.ask = NoQuote
      /\ r.best_bid = NoTick /\ r.best_ask = NoTick
  BY DEF FreshAgent, Fields
<1> HIDE DEF r
<1>2. \A side \in Sides : Quote(r, side) = NoQuote
  BY <1>1 DEF Quote
<1>3. <<>> \in Seq(Decisions) /\ NoTick \in Int
  BY DEF NoTick
<1>4. AgentOK(r)
  BY <1>1, <1>2, <1>3, BlankIsSlot DEF AgentOK
<1> QED
  BY <1>1, <1>4 DEF Idle, r

\* A step shows the agent an event, leaves it alone, or closes it out.
StepIs(ts) ==
  /\ ts \in Nat /\ now <= ts /\ Clocked(ts) /\ book' \in [Ticks -> Int]
  /\ Sees(ag, ag', ts) \/ (event' = "none" /\ ag' = ag) \/ (event' = "none" /\ Idle(ag'))

LEMMA NextIs ==
  ASSUME now \in Nat, book \in [Ticks -> Int], AgentOK(ag), Next
  PROVE  \E ts \in Nat : StepIs(ts)
<1>1. ASSUME NEW ts \in now .. now + MaxStep, NEW model \in ModelPrices, NEW refused \in Refusals,
             NEW b \in Books, Snapshot(ts, b, model, refused)
      PROVE  StepIs(ts)
  <2>1. ts \in Nat /\ ts \in Int /\ now <= ts /\ b \in [Ticks -> Int] /\ book' = b
    BY <1>1, AgentAssumption DEF Snapshot
  <2>2. CASE HasBoth(b)
    <3> DEFINE r == OnSnapshot(ag, ts, b, model, refused)
    <3>1. Sees(ag, r, ts)
      BY <2>1, <2>2, SnapshotSees
    <3>2. AgentOK(r)
      BY <3>1 DEF Sees, Decided
    <3>3. At(ts, r, "snapshot")
      BY <1>1, <2>2 DEF Snapshot
    <3> HIDE DEF r
    <3> QED
      BY <2>1, <3>1, <3>2, <3>3, ClockedIs DEF StepIs
  <2>3. CASE ~HasBoth(b)
    <3>1. At(ts, ag, "none")
      BY <1>1, <2>3 DEF Snapshot
    <3> QED
      BY <2>1, <3>1, ClockedIs DEF StepIs
  <2> QED
    BY <2>2, <2>3
<1>2. ASSUME NEW ts \in now .. now + MaxStep, NEW model \in ModelPrices, NEW refused \in Refusals,
             NEW aggressor \in Sides, NEW tick \in Ticks, NEW qty \in PrintSizes,
             TapePrint(ts, aggressor, tick, qty, model, refused)
      PROVE  StepIs(ts)
  <2>1. ts \in Nat /\ ts \in Int /\ now <= ts
    BY AgentAssumption
  <2>2. book' \in [Ticks -> Int]
    BY <1>2, AgentAssumption, PrintKeepsBook DEF TapePrint
  <2>3. CASE HasBoth(book)
    <3> DEFINE r == OnPrint(ag, ts, book, aggressor, tick, qty, model, refused)
    <3>1. Sees(ag, r, ts)
      BY <2>1, <2>3, PrintSees
    <3>2. AgentOK(r)
      BY <3>1 DEF Sees, Decided
    <3>3. At(ts, r, "print")
      BY <1>2, <2>3 DEF TapePrint
    <3> HIDE DEF r
    <3> QED
      BY <2>1, <2>2, <3>1, <3>2, <3>3, ClockedIs DEF StepIs
  <2>4. CASE ~HasBoth(book)
    <3>1. At(ts, ag, "none")
      BY <1>2, <2>4 DEF TapePrint
    <3> QED
      BY <2>1, <2>2, <3>1, ClockedIs DEF StepIs
  <2> QED
    BY <2>3, <2>4
<1>3. CASE EndDay
  <2> DEFINE r == IF ag.best_bid # NoTick THEN Flatten(ag) ELSE ag
  <2>1. r = ag \/ Idle(r)
    BY FlatIsIdle
  <2>2. At(now, r, "none") /\ book' = book
    BY <1>3 DEF EndDay
  <2> HIDE DEF r
  <2>3. AgentOK(r)
    BY <2>1 DEF Idle
  <2>4. now <= now
    OBVIOUS
  <2>5. StepIs(now)
    BY <2>1, <2>2, <2>3, <2>4, ClockedIs DEF StepIs
  <2> QED
    BY <2>5
<1>4. CASE NewDay
  <2>1. At(now, FreshAgent, "none") /\ book' \in [Ticks -> Int]
    BY <1>4 DEF NewDay
  <2>2. now <= now
    OBVIOUS
  <2>3. StepIs(now)
    BY <2>1, <2>2, FreshIsIdle, ClockedIs DEF StepIs, Idle
  <2> QED
    BY <2>3
<1>5. ASSUME NEW ts \in now .. now + MaxStep
      PROVE  ts \in Nat
  BY AgentAssumption
<1> QED
  BY <1>1, <1>2, <1>3, <1>4, <1>5 DEF Next

\* agent.hpp and fill_model.hpp, for every event of a replay: each quote is earned,
\* each decision takes effect within a latency, and each side at its limit is pulled.
THEOREM AgentInvariant == Spec => []AgentInv
<1>1. Init => AgentInv
  <2> SUFFICES ASSUME Init PROVE AgentInv
    OBVIOUS
  <2>1. /\ now \in Nat /\ book \in [Ticks -> Int] /\ Idle(ag)
        /\ since = [Buy |-> Never, Sell |-> Never]
    BY FreshIsIdle DEF Init
  <2>2. \A side \in Sides : ~(Position(ag, side) >= MaxInventory)
    BY <2>1, AgentAssumption DEF Idle, Position
  <2>3. \A n \in 1 .. Len(ag.pending) : FALSE
    BY <2>1 DEF Idle
  <2>4. DOMAIN since = Sides /\ \A side \in Sides : since[side] = Never
    BY <2>1 DEF Sides
  <2> QED
    BY <2>1, <2>2, <2>3, <2>4 DEF AgentInv, Idle
<1>2. AgentInv /\ [Next]_vars => AgentInv'
  <2> SUFFICES ASSUME AgentInv, [Next]_vars PROVE AgentInv'
    OBVIOUS
  <2>a. /\ now \in Nat /\ book \in [Ticks -> Int] /\ AgentOK(ag) /\ DOMAIN since = Sides
        /\ \A n \in 1 .. Len(ag.pending) : ag.pending[n].effective <= now + Latency
        /\ \A side \in Sides :
             IF Position(ag, side) >= MaxInventory
               THEN since[side] \in 0 .. now /\ Pulled(ag, side, since[side] + Latency)
             ELSE since[side] = Never
    BY DEF AgentInv
  <2>1. CASE Next
    <3>1. PICK ts \in Nat : StepIs(ts)
      BY <2>1, <2>a, NextIs
    <3>2. now <= ts /\ Clocked(ts) /\ book' \in [Ticks -> Int] /\ now' = ts /\ Latency \in Nat
      BY <3>1, AgentAssumption DEF StepIs, Clocked
    <3>3. \A l \in 1 .. Len(ag.pending) : ag.pending[l].effective <= ts + Latency
      BY <2>a, <3>2, DecisionsAreTimed
    <3>4. ASSUME AgentOK(ag'),
                 \A l \in 1 .. Len(ag'.pending) : ag'.pending[l].effective <= ts + Latency,
                 \A side \in Sides : Position(ag', side) >= MaxInventory =>
                   /\ Pulled(ag', side, ts + Latency)
                        \/ (since[side] # Never /\ Pulled(ag', side, since[side] + Latency))
                   /\ since[side] # Never => Pulled(ag', side, since[side] + Latency)
          PROVE  AgentInv'
      <4>1. ASSUME NEW side \in Sides
            PROVE  IF Position(ag', side) >= MaxInventory
                     THEN since'[side] \in 0 .. ts /\ Pulled(ag', side, since'[side] + Latency)
                   ELSE since'[side] = Never
        <5>1. since[side] # Never => since[side] \in 0 .. ts
          BY <2>a, <3>2
        <5>2. ts \in 0 .. ts
          OBVIOUS
        <5> QED
          BY <3>2, <3>4, <5>1, <5>2 DEF Clocked
      <4> QED
        BY <3>2, <3>4, <4>1 DEF AgentInv, Clocked
    <3>5. CASE Sees(ag, ag', ts)
      <4>1. PICK n, y : SeesBut(ag, ag', ts, n, y)
        BY <2>a, <3>5, SeesIs
      <4>2. /\ AgentOK(ag')
            /\ \A l \in 1 .. Len(ag'.pending) : ag'.pending[l].effective <= ts + Latency
            /\ \A side \in Sides :
                 Position(ag', side) >= MaxInventory => Pulled(ag', side, ts + Latency)
        BY <2>a, <3>3, <4>1, SeesPulls
      <4>3. ASSUME NEW side \in Sides, Position(ag', side) >= MaxInventory, since[side] # Never
            PROVE  Pulled(ag', side, since[side] + Latency)
        <5>1. since[side] + Latency \in Int /\ Pulled(ag, side, since[side] + Latency)
          BY <2>a, <3>2, <4>3
        <5> QED
          BY <2>a, <4>1, <4>3, <5>1, SeesKeepsPulling
      <4> QED
        BY <3>4, <4>2, <4>3
    <3>6. CASE ag' = ag
      <4>1. \A side \in Sides : Position(ag, side) >= MaxInventory =>
              since[side] # Never /\ Pulled(ag, side, since[side] + Latency)
        BY <2>a DEF Never
      <4> QED
        BY <2>a, <3>3, <3>4, <3>6, <4>1
    <3>7. CASE Idle(ag')
      <4>1. \A side \in Sides : ~(Position(ag', side) >= MaxInventory)
        BY <3>7, AgentAssumption DEF Idle, Position
      <4>2. AgentOK(ag') /\ \A l \in 1 .. Len(ag'.pending) : FALSE
        BY <3>7 DEF Idle
      <4> QED
        BY <3>4, <4>1, <4>2
    <3> QED
      BY <3>1, <3>5, <3>6, <3>7 DEF StepIs
  <2>2. CASE UNCHANGED vars
    BY <2>2, <2>a DEF AgentInv, vars
  <2> QED
    BY <2>1, <2>2
<1> QED
  BY <1>1, <1>2, PTL DEF Spec

\* fill_model.hpp:85: through every event of a replay, what a resting order has
\* gained is what the tape and the cancellations ahead of it gave it.
THEOREM AgentFillsAreEarned == Spec => []FillsAreEarned
<1>1. AgentInv => FillsAreEarned
  BY DEF AgentInv, AgentOK, Slot, FillsAreEarned
<1> QED
  BY <1>1, AgentInvariant, PTL

\* agent.hpp:277: no event adds to what a side at its limit could still add.
THEOREM AgentLimitStopsExposure == Spec => LimitStopsExposure
<1>1. AgentInv /\ [Next]_vars =>
        [\A side \in Sides :
           Position(ag, side) >= MaxInventory /\ Position(ag', side) >= MaxInventory =>
             Exposure(ag', side) <= Exposure(ag, side)]_vars
  <2> SUFFICES ASSUME AgentInv, Next, NEW side \in Sides,
                      Position(ag, side) >= MaxInventory, Position(ag', side) >= MaxInventory
               PROVE  Exposure(ag', side) <= Exposure(ag, side)
    OBVIOUS
  <2>1. now \in Nat /\ book \in [Ticks -> Int] /\ AgentOK(ag)
    BY DEF AgentInv
  <2>2. PICK ts \in Nat : StepIs(ts)
    BY <2>1, NextIs
  <2>3. CASE Sees(ag, ag', ts)
    <3>1. PICK n, y : SeesBut(ag, ag', ts, n, y)
      BY <2>1, <2>3, SeesIs
    <3> QED
      BY <2>1, <3>1, SeesExposure
  <2>4. CASE ag' = ag
    <3>1. Exposure(ag, side) \in Int
      <4>1. Count(ag.pending, Len(ag.pending), side) \in Nat
        <5>1. Len(ag.pending) \in Nat
          BY <2>1 DEF AgentOK
        <5> QED
          BY <5>1, CountIs
      <4>2. QuoteSize * Count(ag.pending, Len(ag.pending), side) \in Nat
        BY <4>1, AgentAssumption
      <4> QED
        BY <2>1, <4>2, ExposureIs
    <3> QED
      BY <2>4, <3>1
  <2>5. CASE Idle(ag')
    BY <2>5, AgentAssumption DEF Idle, Position
  <2> QED
    BY <2>2, <2>3, <2>4, <2>5 DEF StepIs
<1> QED
  BY <1>1, AgentInvariant, PTL DEF Spec, LimitStopsExposure

\* agent.hpp:223 and 277: a latency after a side came to its limit, the first event
\* finds it out of the book.
THEOREM AgentPullTakesEffect == Spec => PullTakesEffect
<1>1. AgentInv /\ [Next]_vars =>
        [\A side \in Sides :
           event' # "none" /\ since[side] # Never /\ now' >= since[side] + Latency =>
             ~Quote(ag', side).live]_vars
  <2> SUFFICES ASSUME AgentInv, Next, NEW side \in Sides, event' # "none", since[side] # Never,
                      now' >= since[side] + Latency
               PROVE  ~Quote(ag', side).live
    OBVIOUS
  <2>1. now \in Nat /\ book \in [Ticks -> Int] /\ AgentOK(ag)
    BY DEF AgentInv
  <2>2. PICK ts \in Nat : StepIs(ts)
    BY <2>1, NextIs
  <2>3. Sees(ag, ag', ts) /\ now' = ts
    BY <2>2 DEF StepIs, Clocked
  <2>4. PICK n, y : SeesBut(ag, ag', ts, n, y)
    BY <2>1, <2>3, SeesIs
  <2>5. since[side] \in 0 .. now /\ Pulled(ag, side, since[side] + Latency)
    BY DEF AgentInv
  <2>6. since[side] + Latency \in Int /\ since[side] + Latency <= ts
    BY <2>1, <2>3, <2>5, AgentAssumption
  <2> QED
    BY <2>1, <2>4, <2>5, <2>6, SeesOut
<1> QED
  BY <1>1, AgentInvariant, PTL DEF Spec, PullTakesEffect

-----------------------------------------------------------------------------
(***************************************************************************)
(* Tick to trade: what the decoder counts as missed, and no round trip is      *)
(* counted that was not made, for any links, any number of orders kept and any *)
(* number of packets.                                                        *)
(*                                                                          *)
(* The feed numbers packets, and the decoder counts numbers, so the first is   *)
(* shown of numbers.  The number the decoder expects is never past the one     *)
(* after the highest it has heard.  A packet that leaves a hole starts after    *)
(* that one, so what it reports, counted from the number expected, covers the   *)
(* hole.  A late or repeated packet pulls the expected number back, after       *)
(* which the decoder counts too much, never too little.  Of the packets that    *)
(* were lost, those whose number no other packet has are among the numbers      *)
(* missed.                                                                   *)
(*                                                                          *)
(* For the second it is that an order on its way back names a packet that was *)
(* decoded, and that the feed counts only the packet it is at, and moves on.   *)
(***************************************************************************)

\* What travels to the engine: one message or two, and never the end of the session.
Messages ==
  [type : {"z"}, locate : {Locate}]
    \union [type : {"D"}, locate : {Locate}, ts : Int, ref : Int]
    \union [type : {"A"}, locate : {Locate}, ts : Int, ref : Int, side : {"Buy", "Sell"},
            shares : {1}, price : Int]

Packets == [seq : Nat, count : 1 .. 2, msgs : {q \in Seq(Messages) : Len(q) \in 1 .. 2}]

\* The messages of packet s, their numbers, and the last of these.
PacketLen(s) == IF s >= 2 * Live THEN 2 ELSE 1
NumbersOf(s) == s .. s + PacketLen(s) - 1
TopOf(s) == s + PacketLen(s) - 1

\* A datagram carries the number of the packet in it, and that packet's messages.
Datagrams ==
  {r \in [seq : Nat, mold : Packets] :
     r.mold.seq = r.seq /\ Len(r.mold.msgs) = PacketLen(r.seq)}

DecoderFields == {"specs", "expected", "have_seq", "sequence_gaps", "gap_messages", "out_of_order",
           "truncated", "unknown_symbol", "end_of_session", "out", "marks"}

\* The counters of a decoder, and the number it expects.
Counters(d) ==
  /\ DOMAIN d = DecoderFields
  /\ d.gap_messages \in Nat /\ d.expected \in Int /\ d.have_seq \in BOOLEAN
  /\ d.sequence_gaps \in Int /\ d.out_of_order \in Int /\ d.truncated \in Int

LinkInv == md \in Seq(Datagrams) /\ feed.seq \in Nat /\ DOMAIN feed = {"at", "seq", "sent", "got"}

HeardInv ==
  /\ Counters(dec)
  /\ heard.first \in Int /\ heard.last \in Int /\ heard.packets \in SUBSET Nat
  /\ dec.have_seq <=> heard.packets # {}
  /\ dec.have_seq => dec.expected <= TopOf(heard.last) + 1
  /\ ~dec.have_seq => heard.first = 0 /\ heard.last = -1

\* The numbers between the first and the highest that no packet decoded had.
MissedNumbers ==
  (heard.first .. TopOf(heard.last)) \ UNION {NumbersOf(r) : r \in heard.packets}

LossInv == LinkInv /\ HeardInv /\ Cardinality(MissedNumbers) <= dec.gap_messages

\* Nothing a link may do puts on it what was not sent.
LEMMA SentOnly ==
  ASSUME NEW S, NEW q \in Seq(S), NEW m \in S
  PROVE  Sent(q, m) \subseteq Seq(S)
<1>1. Append(q, m) \in Seq(S) /\ q \o <<m, m>> \in Seq(S)
  OBVIOUS
<1> QED
  BY <1>1 DEF Sent

\* What is left on a link once a message is taken from it.
LEMMA RemovedOnly ==
  ASSUME NEW S, NEW q \in Seq(S), NEW n \in DOMAIN q
  PROVE  q[n] \in S /\ RemoveAt(q, n) \in Seq(S)
<1>1. n \in 1 .. Len(q) /\ Len(q) \in Nat
  OBVIOUS
<1>2. SubSeq(q, 1, n - 1) \in Seq(S) /\ SubSeq(q, n + 1, Len(q)) \in Seq(S)
  BY <1>1, SubSeqProperties
<1> QED
  BY <1>1, <1>2, ConcatProperties DEF RemoveAt

\* The directory, and each packet the feed builds, may travel under their numbers.
LEMMA BuiltTravels ==
  ASSUME NEW s \in Nat
  PROVE  /\ [seq |-> s, mold |-> BuildPacket(s)] \in Datagrams
         /\ [seq |-> 0, mold |-> Directory] \in Datagrams
<1> DEFINE del == [type |-> "D", locate |-> Locate, ts |-> s, ref |-> s - 2 * Live + 1]
           add == [type |-> "A", locate |-> Locate, ts |-> s, ref |-> s + 1,
                   side |-> SideOf(s), shares |-> 1,
                   price |-> TickToWire(IF SideOf(s) = "Buy" THEN 1 ELSE 3)]
<1>1. SideOf(s) \in {"Buy", "Sell"}
  BY DEF SideOf
<1>2. TickToWire(IF SideOf(s) = "Buy" THEN 1 ELSE 3) \in Int
  BY FeedAssumption DEF TickToWire
<1>3. s - 2 * Live + 1 \in Int
  BY TickToTradeAssumption
<1>4. del \in Messages
  BY <1>3 DEF Messages
<1>5. add \in Messages
  BY <1>1, <1>2 DEF Messages
<1> HIDE DEF del, add
<1>6. /\ <<del, add>> \in {q \in Seq(Messages) : Len(q) \in 1 .. 2} /\ Len(<<del, add>>) = 2
      /\ <<add>> \in {q \in Seq(Messages) : Len(q) \in 1 .. 2} /\ Len(<<add>>) = 1
  BY <1>4, <1>5
<1>7. BuildPacket(s) = IF s >= 2 * Live THEN [seq |-> s, count |-> 2, msgs |-> <<del, add>>]
                       ELSE [seq |-> s, count |-> 1, msgs |-> <<add>>]
  BY <1>6 DEF BuildPacket, Packet, del, add
<1>8. /\ BuildPacket(s) \in Packets /\ BuildPacket(s).seq = s
      /\ Len(BuildPacket(s).msgs) = PacketLen(s)
  BY <1>6, <1>7 DEF Packets, PacketLen
<1>9. Directory \in Packets /\ Directory.seq = 0 /\ Len(Directory.msgs) = PacketLen(0)
  <2> DEFINE dir == [type |-> "z", locate |-> Locate]
  <2>1. dir \in Messages
    BY DEF Messages
  <2> HIDE DEF dir
  <2>2. <<dir>> \in {q \in Seq(Messages) : Len(q) \in 1 .. 2} /\ Len(<<dir>>) = 1
    BY <2>1
  <2>3. PacketLen(0) = 1
    BY TickToTradeAssumption DEF PacketLen
  <2> QED
    BY <2>2, <2>3 DEF Directory, Packet, Packets, dir
<1> QED
  BY <1>8, <1>9 DEF Datagrams

\* decoder.cpp:146: what a packet does to the counters, wherever it starts and
\* whatever its messages are.
LEMMA PacketCounts ==
  ASSUME NEW d, Counters(d), NEW p \in Packets
  PROVE  LET e == DecodePacket(Emptied(d), p) IN
         /\ Counters(e) /\ e.have_seq
         /\ e.expected = p.seq + Len(p.msgs)
         /\ e.gap_messages = d.gap_messages
                               + IF d.have_seq /\ p.seq > d.expected THEN p.seq - d.expected ELSE 0
<1> DEFINE s   == SequenceCheck(Emptied(d), p.seq)
           r   == FoldLeft(DecodeMessage, s, p.msgs)
           cut == IF Len(p.msgs) < p.count THEN 1 ELSE 0
           e   == [s EXCEPT !.specs = r.specs, !.out = r.out, !.marks = r.marks,
                            !.unknown_symbol = r.unknown_symbol, !.truncated = @ + cut,
                            !.expected = NextExpected(p), !.have_seq = TRUE]
<1>1. /\ p.seq \in Nat /\ p.count # EndOfSession /\ p.count \in Int /\ Len(p.msgs) \in Nat
  BY DEF Packets, EndOfSession
<1>2. DecodePacket(Emptied(d), p) = e
  BY <1>1 DEF DecodePacket
<1>3. /\ Counters(Emptied(d))
      /\ Emptied(d).gap_messages = d.gap_messages /\ Emptied(d).expected = d.expected
      /\ Emptied(d).have_seq = d.have_seq
  BY DEF Emptied, Counters, DecoderFields
<1>4. /\ Counters(s)
      /\ s.gap_messages = d.gap_messages
                            + IF d.have_seq /\ p.seq > d.expected THEN p.seq - d.expected ELSE 0
  <2> DEFINE f == Emptied(d)
  <2> HIDE DEF f
  <2>1. CASE f.have_seq /\ p.seq > f.expected
    <3>1. SequenceCheck(f, p.seq)
            = [f EXCEPT !.sequence_gaps = @ + 1, !.gap_messages = @ + (p.seq - f.expected)]
      BY <2>1 DEF SequenceCheck
    <3>2. /\ DOMAIN s = DecoderFields /\ s.gap_messages = f.gap_messages + (p.seq - f.expected)
          /\ s.expected = f.expected /\ s.have_seq = f.have_seq
          /\ s.sequence_gaps = f.sequence_gaps + 1
          /\ s.truncated = f.truncated /\ s.out_of_order = f.out_of_order
      BY <1>3, <3>1 DEF Counters, DecoderFields, f
    <3>3. Counters(f) /\ f.gap_messages = d.gap_messages
            /\ f.expected = d.expected /\ f.have_seq = d.have_seq
      BY <1>3 DEF f
    <3> HIDE DEF s
    <3>4. p.seq - f.expected \in Nat
      BY <1>1, <2>1, <3>3 DEF Counters
    <3>5. Counters(s)
      BY <3>2, <3>3, <3>4 DEF Counters
    <3> QED
      BY <2>1, <3>2, <3>3, <3>5
  <2>2. CASE ~(f.have_seq /\ p.seq > f.expected) /\ f.have_seq /\ p.seq < f.expected
    <3>1. SequenceCheck(f, p.seq) = [f EXCEPT !.out_of_order = @ + 1]
      BY <2>2 DEF SequenceCheck
    <3>2. /\ DOMAIN s = DecoderFields /\ s.gap_messages = f.gap_messages /\ s.expected = f.expected
          /\ s.have_seq = f.have_seq /\ s.sequence_gaps = f.sequence_gaps
          /\ s.truncated = f.truncated /\ s.out_of_order = f.out_of_order + 1
      BY <1>3, <3>1 DEF Counters, DecoderFields, f
    <3> QED
      BY <1>1, <1>3, <2>2, <3>2 DEF Counters, f
  <2>3. CASE ~(f.have_seq /\ p.seq > f.expected) /\ ~(f.have_seq /\ p.seq < f.expected)
    <3>1. SequenceCheck(f, p.seq) = f
      BY <2>3 DEF SequenceCheck
    <3> QED
      BY <1>1, <1>3, <2>3, <3>1 DEF Counters, DecoderFields, f
  <2> QED
    BY <2>1, <2>2, <2>3
<1> HIDE DEF s, r
<1>5. /\ DOMAIN e = DOMAIN s /\ e.gap_messages = s.gap_messages
      /\ e.expected = NextExpected(p) /\ e.have_seq = TRUE
      /\ e.sequence_gaps = s.sequence_gaps /\ e.out_of_order = s.out_of_order
      /\ e.truncated = s.truncated + cut
  BY <1>4 DEF Counters, DecoderFields
<1> HIDE DEF e
<1>6. Counters(e)
  <2>1. cut \in Int /\ NextExpected(p) \in Int
    BY <1>1 DEF NextExpected
  <2> HIDE DEF cut
  <2>2. e.have_seq \in BOOLEAN
    BY <1>5
  <2>3. e.truncated \in Int /\ e.expected \in Int /\ e.gap_messages \in Nat
    BY <1>4, <1>5, <2>1 DEF Counters
  <2> QED
    BY <1>4, <1>5, <2>2, <2>3 DEF Counters
<1> QED
  BY <1>1, <1>2, <1>4, <1>5, <1>6 DEF NextExpected

\* A packet that leaves a hole starts past the last message heard; then the hole
\* is between the two, and otherwise there is no new one.
LEMMA HoleIsReported ==
  ASSUME NEW first \in Int, NEW last \in Int, NEW numbers, NEW s \in Nat, NEW n \in 1 .. 2,
         NEW top \in Int, top = IF last > s + n - 1 THEN last ELSE s + n - 1
  PROVE  LET old == (first .. last) \ numbers
             new == (first .. top) \ (numbers \union (s .. s + n - 1))
         IN /\ Cardinality(old) \in Nat /\ Cardinality(new) \in Nat
            /\ s <= last + 1 => Cardinality(new) <= Cardinality(old)
            /\ s > last + 1 => Cardinality(new) <= Cardinality(old) + (s - last - 1)
<1> DEFINE old == (first .. last) \ numbers
           new == (first .. top) \ (numbers \union (s .. s + n - 1))
           hole == last + 1 .. s - 1
<1>1. IsFiniteSet(old) /\ IsFiniteSet(new) /\ IsFiniteSet(hole)
  <2>1. /\ IsFiniteSet(first .. last) /\ IsFiniteSet(first .. top)
        /\ last + 1 \in Int /\ s - 1 \in Int
    BY FS_Interval
  <2>2. old \in SUBSET (first .. last) /\ new \in SUBSET (first .. top)
    OBVIOUS
  <2> HIDE DEF old, new
  <2> QED
    BY <2>1, <2>2, FS_Interval, FS_Subset
<1>2. Cardinality(old) \in Nat /\ Cardinality(new) \in Nat /\ Cardinality(old \intersect hole) \in Nat
  BY <1>1, FS_CardinalityType, FS_Subset, old \intersect hole \subseteq old
<1>3. ASSUME s <= last + 1 PROVE Cardinality(new) <= Cardinality(old)
  <2>1. new \subseteq old
    BY <1>3
  <2> QED
    BY <1>1, <2>1, FS_Subset
<1>4. ASSUME s > last + 1 PROVE Cardinality(new) <= Cardinality(old) + (s - last - 1)
  <2>1. new \subseteq old \union hole
    BY <1>4
  <2>2. Cardinality(hole) = s - last - 1
    <3>1. last + 1 \in Int /\ s - 1 \in Int /\ last + 1 <= s - 1
      BY <1>4
    <3>2. Cardinality(last + 1 .. s - 1) = (s - 1) - (last + 1) + 1
      BY <3>1, FS_Interval
    <3> QED
      BY <3>2
  <2> HIDE DEF old, new, hole
  <2>3. /\ IsFiniteSet(old \union hole)
        /\ Cardinality(old \union hole)
             = Cardinality(old) + (s - last - 1) - Cardinality(old \intersect hole)
    BY <1>1, <2>2, FS_Union
  <2>4. Cardinality(new) <= Cardinality(old \union hole)
    BY <2>1, <2>3, FS_Subset
  <2>5. Cardinality(old \union hole) \in Nat
    BY <2>3, FS_CardinalityType
  <2> QED
    BY <1>2, <1>4, <2>3, <2>4, <2>5
<1> QED
  BY <1>2, <1>3, <1>4

\* Before anything is heard nothing is missed.
LEMMA LossInit == ToolInit => LossInv
<1> SUFFICES ASSUME ToolInit PROVE LossInv
  OBVIOUS
<1> USE DEF ToolInit
<1>1. LinkInv
  BY DEF LinkInv
<1>2. HeardInv
  BY DEF HeardInv, Counters, DecoderFields, FreshDecoder
<1>3. MissedNumbers = {} /\ dec.gap_messages = 0
  BY TickToTradeAssumption DEF MissedNumbers, TopOf, PacketLen, FreshDecoder
<1> QED
  BY <1>1, <1>2, <1>3, FS_EmptySet DEF LossInv

\* The feed sends what may travel, and the engine takes from the link.
LEMMA LinkKept ==
  ASSUME LinkInv, [ToolNext]_toolVars
  PROVE  LinkInv'
<1> USE DEF LinkInv
<1>1. CASE SendDirectory
  <2>1. [seq |-> 0, mold |-> Directory] \in Datagrams
    BY BuiltTravels, 0 \in Nat
  <2> QED
    BY <1>1, <2>1, SentOnly DEF SendDirectory
<1>2. CASE SendPacket
  <2>1. [seq |-> feed.seq, mold |-> BuildPacket(feed.seq)] \in Datagrams
    BY BuiltTravels
  <2> QED
    BY <1>2, <2>1, SentOnly DEF SendPacket
<1>3. CASE ReadReply
  <2>1. PICK n \in Readable(ord) :
          IF Answers(ord[n], feed.seq)
            THEN \E g : feed' = [ToNext(feed) EXCEPT !.got = g]
          ELSE UNCHANGED feed
    BY <1>3 DEF ReadReply
  <2>2. CASE Answers(ord[n], feed.seq)
    <3>1. PICK g : feed' = [ToNext(feed) EXCEPT !.got = g]
      BY <2>1, <2>2
    <3>2. ToNext(feed).seq = feed.seq + 1 /\ DOMAIN ToNext(feed) = DOMAIN feed
      BY DEF ToNext
    <3> QED
      BY <1>3, <3>1, <3>2 DEF ReadReply
  <2>3. CASE ~Answers(ord[n], feed.seq)
    BY <1>3, <2>1, <2>3 DEF ReadReply
  <2> QED
    BY <2>2, <2>3
<1>4. CASE GiveUp
  BY <1>4 DEF GiveUp, ToNext
<1>5. CASE GoRound \/ ReadNothing
  BY <1>5 DEF GoRound, ReadNothing
<1>6. CASE Stop \/ Join
  BY <1>6 DEF Stop, Join
<1>7. CASE EngineReads
  <2>1. PICK n \in DOMAIN md : md' = RemoveAt(md, n)
    BY <1>7 DEF EngineReads, Readable
  <2> QED
    BY <1>7, <2>1, RemovedOnly DEF EngineReads
<1>8. CASE EngineSends \/ EngineEnds
  BY <1>8 DEF EngineSends, EngineEnds
<1>9. CASE UNCHANGED toolVars
  BY <1>9 DEF toolVars
<1> QED
  BY <1>1, <1>2, <1>3, <1>4, <1>5, <1>6, <1>7, <1>8, <1>9 DEF ToolNext, Feed, Engine

\* The engine reads a packet, whichever it is.
LEMMA ReadCounts ==
  ASSUME LossInv, EngineReads
  PROVE  HeardInv' /\ Cardinality(MissedNumbers') <= dec'.gap_messages
<1> PICK n \in Readable(md) :
         /\ dec' = DecodePacket(Emptied(dec), md[n].mold)
         /\ heard' = Heard(heard, md[n].seq)
  BY DEF EngineReads
<1> DEFINE p == md[n].mold
           s == md[n].seq
           k == PacketLen(s)
           numbers == UNION {NumbersOf(r) : r \in heard.packets}
           gap == IF dec.have_seq /\ s > dec.expected THEN s - dec.expected ELSE 0
<1>1. p \in Packets /\ s \in Nat /\ p.seq = s /\ Len(p.msgs) = k
  <2>1. md[n] \in Datagrams
    BY RemovedOnly DEF Readable, LossInv, LinkInv
  <2> QED
    BY <2>1 DEF Datagrams
<1>2. k \in 1 .. 2 /\ NumbersOf(s) = s .. s + k - 1 /\ TopOf(s) = s + k - 1
  BY DEF PacketLen, NumbersOf, TopOf
<1>3. /\ Counters(dec)' /\ dec'.have_seq
      /\ dec'.expected = s + k
      /\ dec'.gap_messages = dec.gap_messages + gap
  <2>1. Counters(dec) /\ dec' = DecodePacket(Emptied(dec), p)
    BY DEF LossInv, HeardInv
  <2> HIDE DEF p
  <2>2. /\ Counters(dec') /\ dec'.have_seq
        /\ dec'.expected = p.seq + Len(p.msgs)
        /\ dec'.gap_messages
             = dec.gap_messages
                 + IF dec.have_seq /\ p.seq > dec.expected THEN p.seq - dec.expected ELSE 0
    BY <1>1, <2>1, PacketCounts
  <2> HIDE DEF s, k
  <2> QED
    BY <1>1, <2>2 DEF Counters
<1>4. /\ heard'.packets = heard.packets \union {s}
      /\ heard'.first = IF heard.packets = {} THEN s ELSE heard.first
      /\ heard'.last = IF s > heard.last THEN s ELSE heard.last
  BY DEF Heard
<1>5. UNION {NumbersOf(r) : r \in heard'.packets} = numbers \union (s .. s + k - 1)
  BY <1>2, <1>4
<1> HIDE DEF p, s, k
<1>6. /\ heard.first \in Int /\ heard.last \in Int /\ TopOf(heard.last) \in Int
      /\ heard'.first \in Int /\ heard'.last \in Int
      /\ TopOf(heard'.last)
           = IF TopOf(heard.last) > s + k - 1 THEN TopOf(heard.last) ELSE s + k - 1
  <2>1. heard.first \in Int /\ heard.last \in Int /\ TopOf(s) = s + k - 1
    BY <1>2 DEF LossInv, HeardInv
  <2>2. Live \in Nat
    BY TickToTradeAssumption
  <2> QED
    BY <1>1, <1>4, <2>1, <2>2 DEF TopOf, PacketLen
<1>7. HeardInv'
  BY <1>1, <1>2, <1>3, <1>4, <1>6 DEF LossInv, HeardInv
<1>8. MissedNumbers' = (heard'.first .. TopOf(heard'.last)) \ (numbers \union (s .. s + k - 1))
  BY <1>5 DEF MissedNumbers
<1>9. Cardinality(MissedNumbers') <= dec'.gap_messages
  <2>1. CASE ~dec.have_seq
    <3>1. heard.packets = {} /\ heard.last = -1
      BY <2>1 DEF LossInv, HeardInv
    <3>2. heard'.first = s /\ heard'.last = s /\ TopOf(heard'.last) = s + k - 1
      BY <1>1, <1>2, <1>4, <3>1
    <3>3. MissedNumbers' = {}
      BY <1>8, <3>2
    <3> QED
      BY <1>3, <3>3, FS_EmptySet DEF Counters
  <2>2. CASE dec.have_seq
    <3>1. MissedNumbers' = (heard.first .. TopOf(heard'.last)) \ (numbers \union (s .. s + k - 1))
      BY <1>4, <1>8, <2>2 DEF LossInv, HeardInv
    <3>2. MissedNumbers = (heard.first .. TopOf(heard.last)) \ numbers
      BY DEF MissedNumbers
    <3> HIDE DEF numbers
    <3>3. /\ Cardinality(MissedNumbers) \in Nat /\ Cardinality(MissedNumbers') \in Nat
          /\ s <= TopOf(heard.last) + 1 => Cardinality(MissedNumbers') <= Cardinality(MissedNumbers)
          /\ s > TopOf(heard.last) + 1 =>
               Cardinality(MissedNumbers') <= Cardinality(MissedNumbers) + (s - TopOf(heard.last) - 1)
      <4> DEFINE last == TopOf(heard.last)
                 top  == TopOf(heard'.last)
      <4>1. last \in Int /\ top \in Int /\ top = IF last > s + k - 1 THEN last ELSE s + k - 1
        BY <1>1, <1>2, <1>6
      <4>2. heard.first \in Int
        BY <1>6
      <4> HIDE DEF last, top
      <4>3. LET old == (heard.first .. last) \ numbers
                new == (heard.first .. top) \ (numbers \union (s .. s + k - 1))
            IN /\ Cardinality(old) \in Nat /\ Cardinality(new) \in Nat
               /\ s <= last + 1 => Cardinality(new) <= Cardinality(old)
               /\ s > last + 1 => Cardinality(new) <= Cardinality(old) + (s - last - 1)
        BY <1>1, <1>2, <4>1, <4>2, HoleIsReported
      <4> QED
        BY <3>1, <3>2, <4>3 DEF last, top
    <3>4. /\ dec.expected <= TopOf(heard.last) + 1 /\ dec.expected \in Int
          /\ Cardinality(MissedNumbers) <= dec.gap_messages /\ dec.gap_messages \in Nat
      BY <2>2 DEF LossInv, HeardInv, Counters
    <3> QED
      BY <1>1, <1>3, <1>6, <2>2, <3>3, <3>4
  <2> QED
    BY <2>1, <2>2 DEF LossInv, HeardInv, Counters
<1> QED
  BY <1>7, <1>9

\* A packet that was lost, and whose number no other has, is a number missed.
LEMMA LostIsMissed == LossInv => LossesShow
<1> SUFFICES ASSUME LossInv PROVE LossesShow
  OBVIOUS
<1> DEFINE lost == {s \in Unheard : s <= 2 * Live \/ s - 1 \in Unheard}
<1>1. /\ heard.first \in Int /\ heard.last \in Int /\ heard.packets \in SUBSET Nat
      /\ TopOf(heard.last) \in Int /\ heard.last <= TopOf(heard.last) /\ Live \in Nat
      /\ dec.gap_messages \in Nat /\ Cardinality(MissedNumbers) <= dec.gap_messages
  BY TickToTradeAssumption DEF LossInv, HeardInv, Counters, TopOf, PacketLen
<1>2. lost \subseteq MissedNumbers
  <2> SUFFICES ASSUME NEW s \in lost PROVE s \in MissedNumbers
    OBVIOUS
  <2>1. /\ s \in heard.first .. heard.last /\ s \notin heard.packets
        /\ s <= 2 * Live \/ s - 1 \notin heard.packets
    BY DEF Unheard
  <2>2. ASSUME NEW r \in heard.packets PROVE s \notin NumbersOf(r)
    <3>1. r \in Nat /\ r # s /\ s \in Int
      BY <1>1, <2>1, <2>2
    <3>2. CASE r = s - 1
      BY <1>1, <2>1, <3>1, <3>2 DEF NumbersOf, PacketLen
    <3>3. CASE r # s - 1
      BY <1>1, <3>1, <3>3 DEF NumbersOf, PacketLen
    <3> QED
      BY <3>2, <3>3
  <2>3. s \in heard.first .. TopOf(heard.last)
    BY <1>1, <2>1
  <2> QED
    BY <2>2, <2>3 DEF MissedNumbers
<1>3. IsFiniteSet(MissedNumbers)
  <2>1. MissedNumbers \subseteq heard.first .. TopOf(heard.last)
    BY DEF MissedNumbers
  <2> QED
    BY <1>1, <2>1, FS_Interval, FS_Subset
<1>4. /\ Cardinality(lost) <= Cardinality(MissedNumbers)
      /\ Cardinality(lost) \in Nat /\ Cardinality(MissedNumbers) \in Nat
  <2> HIDE DEF lost
  <2> QED
    BY <1>2, <1>3, FS_Subset, FS_CardinalityType
<1> QED
  BY <1>1, <1>4 DEF LossesShow

\* decoder.cpp:146: what is lost and has a number of its own is counted as missed,
\* whatever the links do.
THEOREM SpecLossesShow == ToolSpec => []LossesShow
<1>1. ToolInit => LossInv
  BY LossInit
<1>2. LossInv /\ [ToolNext]_toolVars => LossInv'
  <2> SUFFICES ASSUME LossInv, [ToolNext]_toolVars PROVE LossInv'
    OBVIOUS
  <2>1. LinkInv'
    BY LinkKept DEF LossInv
  <2>2. CASE EngineReads
    BY <2>1, <2>2, ReadCounts DEF LossInv
  <2>3. CASE UNCHANGED <<dec, heard>>
    <3>1. HeardInv' /\ Cardinality(MissedNumbers') <= dec'.gap_messages
      BY <2>3 DEF LossInv, HeardInv, Counters, MissedNumbers
    <3> QED
      BY <2>1, <3>1 DEF LossInv
  <2>4. EngineReads \/ UNCHANGED <<dec, heard>>
    BY DEF ToolNext, Feed, Engine, SendDirectory, GoRound, SendPacket, ReadNothing, ReadReply,
           GiveUp, Stop, Join, EngineSends, EngineEnds, toolVars
  <2> QED
    BY <2>2, <2>3, <2>4
<1>3. LossInv => LossesShow
  BY LostIsMissed
<1> QED
  BY <1>1, <1>2, <1>3, PTL DEF ToolSpec

-----------------------------------------------------------------------------
(***************************************************************************)
(* Round trips.                                                             *)
(***************************************************************************)

\* An order is the answer to one of the packets in P.
Orders(P) == {o \in [seq : Nat] : o.seq \in P}

TripInv ==
  /\ LinkInv
  /\ ord \in Seq(Orders(heard.packets))
  /\ engine.at = "send" => [seq |-> engine.seq] \in Orders(heard.packets)
  /\ counted \subseteq Nat /\ \A s \in counted : s < feed.seq
  /\ RoundTripsAreReal

LEMMA TripInit == ToolInit => TripInv
<1> SUFFICES ASSUME ToolInit PROVE TripInv
  OBVIOUS
<1>1. Cardinality(counted) = 0 /\ counted = {}
  BY FS_EmptySet DEF ToolInit
<1>2. RoundTripsAreReal
  BY <1>1 DEF ToolInit, RoundTripsAreReal
<1>3. LinkInv
  BY LossInit DEF LossInv
<1> QED
  BY <1>1, <1>2, <1>3 DEF ToolInit, TripInv

\* An answer is counted for the packet the feed is at, once.
LEMMA ReplyKeepsTrips ==
  ASSUME TripInv, LinkInv', ReadReply
  PROVE  TripInv'
<1> DEFINE measured == {s \in {feed.seq} : s > Warmup}
<1>1. PICK n \in DOMAIN ord :
        /\ ord' = RemoveAt(ord, n)
        /\ IF ord[n].seq = feed.seq
             THEN /\ feed' = [ToNext(feed) EXCEPT !.got = feed.got + Cardinality(measured)]
                  /\ counted' = counted \union measured
             ELSE UNCHANGED <<feed, counted>>
  BY DEF ReadReply, Answers, Readable, ToNext
<1>2. ord[n] \in Orders(heard.packets) /\ ord' \in Seq(Orders(heard.packets))
  BY <1>1, RemovedOnly DEF TripInv
<1>3. UNCHANGED <<md, engine, heard>>
  BY DEF ReadReply
<1>4. CASE ord[n].seq = feed.seq
  <2>1. /\ DOMAIN feed' = DOMAIN feed /\ feed'.seq = feed.seq + 1
        /\ feed'.got = feed.got + Cardinality(measured)
        /\ counted' = counted \union measured
    BY <1>1, <1>4 DEF ToNext, TripInv, LinkInv
  <2>2. feed.seq \in heard.packets
    BY <1>2, <1>4 DEF Orders
  <2>3. IsFiniteSet(counted) /\ IsFiniteSet(measured) /\ counted \intersect measured = {}
    <3>1. feed.seq \in Nat /\ counted \in SUBSET Nat /\ \A s \in counted : s <= feed.seq
      BY DEF TripInv, LinkInv
    <3>2. IsFiniteSet(counted)
      BY <3>1, FS_BoundedSetOfNaturals
    <3>3. IsFiniteSet(measured)
      BY FS_Singleton, FS_Subset, measured \subseteq {feed.seq}
    <3>4. feed.seq \notin counted
      BY DEF TripInv, LinkInv
    <3> QED
      BY <3>2, <3>3, <3>4
  <2>4. Cardinality(counted') = Cardinality(counted) + Cardinality(measured)
    <3>1. /\ Cardinality(counted) \in Nat /\ Cardinality(measured) \in Nat
          /\ Cardinality(counted \intersect measured) = 0
      BY <2>3, FS_CardinalityType, FS_EmptySet
    <3>2. Cardinality(counted \union measured)
            = Cardinality(counted) + Cardinality(measured) - Cardinality(counted \intersect measured)
      BY <2>3, FS_Union
    <3> HIDE DEF measured
    <3> QED
      BY <2>1, <3>1, <3>2
  <2>5. counted' \subseteq Nat /\ \A s \in counted' : s < feed'.seq
    <3>1. /\ feed.seq \in Nat /\ measured \subseteq {feed.seq}
          /\ \A s \in counted : s \in Nat /\ s < feed.seq
      BY DEF TripInv, LinkInv
    <3> HIDE DEF measured
    <3> SUFFICES ASSUME NEW s \in counted' PROVE s \in Nat /\ s < feed'.seq
      OBVIOUS
    <3>2. s \in counted \/ s = feed.seq
      BY <2>1, <3>1
    <3> QED
      BY <2>1, <3>1, <3>2
  <2>6. RoundTripsAreReal'
    BY <1>3, <2>1, <2>2, <2>4 DEF TripInv, RoundTripsAreReal
  <2> QED
    BY <1>2, <1>3, <2>1, <2>5, <2>6 DEF TripInv
<1>5. CASE ord[n].seq # feed.seq
  BY <1>1, <1>2, <1>3, <1>5 DEF TripInv, RoundTripsAreReal
<1> QED
  BY <1>4, <1>5


\* The engine answers a packet it has decoded.
LEMMA EngineKeepsTrips ==
  ASSUME TripInv, LinkInv', EngineReads \/ EngineSends
  PROVE  TripInv'
<1>1. CASE EngineReads
  <2>1. PICK n \in DOMAIN md :
          /\ heard' = Heard(heard, md[n].seq)
          /\ engine' = engine \/ engine' = [at |-> "send", seq |-> md[n].seq]
    BY <1>1 DEF EngineReads, Readable
  <2>2. md[n] \in Datagrams
    BY RemovedOnly DEF TripInv, LinkInv
  <2>3. heard'.packets = heard.packets \union {md[n].seq} /\ md[n].seq \in Nat
    BY <2>1, <2>2 DEF Heard, Datagrams
  <2>4. Orders(heard.packets) \subseteq Orders(heard'.packets)
    BY <2>3 DEF Orders
  <2>5. ord' \in Seq(Orders(heard'.packets))
    <3>1. ord' = ord /\ ord \in Seq(Orders(heard.packets))
      BY <1>1 DEF TripInv, EngineReads
    <3> QED
      BY <2>4, <3>1
  <2>6. engine'.at = "send" => [seq |-> engine'.seq] \in Orders(heard'.packets)
    BY <2>1, <2>3, <2>4 DEF TripInv, Orders
  <2>7. UNCHANGED <<feed, counted>>
    BY <1>1 DEF EngineReads
  <2> QED
    BY <2>3, <2>5, <2>6, <2>7 DEF TripInv, RoundTripsAreReal
<1>2. CASE EngineSends
  <2> DEFINE m == [seq |-> engine.seq]
  <2>1. m \in Orders(heard.packets) /\ ord' \in Sent(ord, m)
    BY <1>2 DEF EngineSends, TripInv
  <2> HIDE DEF m
  <2>2. ord' \in Seq(Orders(heard.packets))
    BY <2>1, SentOnly DEF TripInv
  <2>3. UNCHANGED <<feed, heard, counted>> /\ engine'.at = "loop"
    BY <1>2 DEF EngineSends
  <2> QED
    BY <2>2, <2>3 DEF TripInv, RoundTripsAreReal
<1> QED
  BY <1>1, <1>2

\* ticktotrade.cpp:379: a round trip that is counted is of a packet the engine
\* decoded, and of each packet at most one is.
THEOREM SpecRoundTripsAreReal == ToolSpec => []RoundTripsAreReal
<1>1. ToolInit => TripInv
  BY TripInit
<1>2. TripInv /\ [ToolNext]_toolVars => TripInv'
  <2> SUFFICES ASSUME TripInv, [ToolNext]_toolVars PROVE TripInv'
    OBVIOUS
  <2>1. LinkInv'
    BY LinkKept DEF TripInv
  <2>2. CASE ReadReply
    BY <2>1, <2>2, ReplyKeepsTrips
  <2>3. CASE EngineReads \/ EngineSends
    BY <2>1, <2>3, EngineKeepsTrips
  <2>4. CASE /\ UNCHANGED <<ord, heard, counted>>
             /\ engine'.at = "send" => engine' = engine
             /\ feed'.got = feed.got /\ feed'.seq >= feed.seq
    <3>1. feed.seq \in Nat /\ feed'.seq \in Nat
      BY <2>1 DEF TripInv, LinkInv
    <3> QED
      BY <2>1, <2>4, <3>1 DEF TripInv, RoundTripsAreReal
  <2>5. \/ ReadReply \/ EngineReads \/ EngineSends
        \/ /\ UNCHANGED <<ord, heard, counted>>
           /\ engine'.at = "send" => engine' = engine
           /\ feed'.got = feed.got /\ feed'.seq >= feed.seq
    <3> USE DEF TripInv, LinkInv
    <3>1. CASE SendDirectory \/ GoRound \/ ReadNothing
      BY <3>1 DEF SendDirectory, GoRound, ReadNothing
    <3>2. CASE SendPacket
      <4>1. feed' = [feed EXCEPT !.at = "wait",
                                 !.sent = feed.sent + (IF feed.seq > Warmup THEN 1 ELSE 0)]
        BY <3>2 DEF SendPacket
      <4> QED
        BY <3>2, <4>1 DEF SendPacket
    <3>3. CASE GiveUp
      <4>1. feed'.seq = feed.seq + 1 /\ feed'.got = feed.got
        BY <3>3 DEF GiveUp, ToNext
      <4> QED
        BY <3>3, <4>1 DEF GiveUp
    <3>4. CASE Stop \/ Join
      BY <3>4 DEF Stop, Join
    <3>5. CASE EngineEnds
      BY <3>5 DEF EngineEnds
    <3>6. CASE UNCHANGED toolVars
      BY <3>6 DEF toolVars
    <3> QED
      BY <3>1, <3>2, <3>3, <3>4, <3>5, <3>6 DEF ToolNext, Feed, Engine
  <2> QED
    BY <2>2, <2>3, <2>4, <2>5
<1>3. TripInv => RoundTripsAreReal
  BY DEF TripInv
<1> QED
  BY <1>1, <1>2, <1>3, PTL DEF ToolSpec
=============================================================================
