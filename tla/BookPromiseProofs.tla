------------------------- MODULE BookPromiseProofs --------------------------
(***************************************************************************)
(* The pointer-level book implements price-time priority: OrderBook           *)
(* implements PriceTime, for any number of levels, words, slots and ids.      *)
(*                                                                          *)
(* The invariant of OrderBookProofs says that an observer of the events        *)
(* knows the resting orders and their places.  What is left is that each call  *)
(* tells him of what PriceTime would have done.                              *)
(*                                                                          *)
(* For a taker that is an argument about the loops of match.  After every pass  *)
(* the makers that have given are those in reach, none before one that is       *)
(* served earlier, and what they gave and what is left of the taker add up to   *)
(* what it asked for (Partly).  The head of the best level is in reach and      *)
(* nobody in reach comes before it, so a pass keeps that; and when match is      *)
(* done, the taker or the makers in reach are gone.  Together that is the        *)
(* relation Filling.                                                        *)
(*                                                                          *)
(* For a fill-or-kill order it is that the walk of available through the        *)
(* bitmap adds up what the makers in reach have, so that the order is let in     *)
(* exactly when some Filling takes all of it.                                *)
(*                                                                          *)
(* That walk, taken to the far end of the range, is also the one top_levels     *)
(* makes, so the same lemmas say that the levels it lists are those of the side *)
(* (Ladder), and with that the queries of the book agree with what an observer  *)
(* of its events adds up (SpecQueriesAgree).                                 *)
(***************************************************************************)
EXTENDS OrderBookProofs

-----------------------------------------------------------------------------
(***************************************************************************)
(* Quantities added up.  W says what any part of D comes to when x counts   *)
(* for f[x].                                                                *)
(***************************************************************************)

Additive(W, f, D) ==
  /\ W \in [SUBSET D -> Int] /\ W[{}] = 0
  /\ \A S \in SUBSET D : \A x \in D \ S : W[S \union {x}] = W[S] + f[x]

\* All of f's values added up.
Total(f) == FoldFunction(+, 0, f)

\* Of some finite sets there is one that no other is less than by one member.
LEMMA LeastSet ==
  ASSUME NEW D, IsFiniteSet(D), NEW T \in SUBSET (SUBSET D), T # {}
  PROVE  \E S \in T : \A x \in S : S \ {x} \notin T
<1> DEFINE sizes == {Cardinality(S) : S \in T}
<1>1. \A S \in T : IsFiniteSet(S) /\ Cardinality(S) \in Nat
  BY FS_Subset, FS_CardinalityType
<1>2. sizes \subseteq Nat /\ sizes # {}
  BY <1>1
<1>3. PICK n \in sizes : \A k \in sizes : n <= k
  <2> HIDE DEF sizes
  <2> QED
    BY <1>2, LeastNat
<1>4. PICK S \in T : n = Cardinality(S)
  OBVIOUS
<1>5. ASSUME NEW x \in S, S \ {x} \in T
      PROVE  FALSE
  <2>1. Cardinality(S \ {x}) = Cardinality(S) - 1 /\ Cardinality(S) \in Nat
    BY <1>1, FS_RemoveElement
  <2>2. n <= Cardinality(S \ {x})
    BY <1>3, <1>5
  <2> QED
    BY <1>4, <2>1, <2>2
<1> QED
  BY <1>5

\* Whatever its members count for, a finite set adds up.
LEMMA AddsUp ==
  ASSUME NEW D, IsFiniteSet(D), NEW f, \A x \in D : f[x] \in Int
  PROVE  \E W : Additive(W, f, D)
<1> DEFINE T == {E \in SUBSET D : ~ \E W : Additive(W, f, E)}
<1> SUFFICES ASSUME T # {} PROVE FALSE
  OBVIOUS
<1>1. PICK E \in T : \A x \in E : E \ {x} \notin T
  <2>1. T \in SUBSET (SUBSET D)
    OBVIOUS
  <2> HIDE DEF T
  <2> QED
    BY <2>1, LeastSet
<1>2. E \in SUBSET D /\ ~ \E W : Additive(W, f, E)
  BY <1>1
<1>3. E # {}
  <2> DEFINE W == [S \in SUBSET {} |-> 0]
  <2>1. {} \in SUBSET {} /\ W[{}] = 0
    OBVIOUS
  <2>2. Additive(W, f, {})
    BY <2>1 DEF Additive
  <2> QED
    BY <1>2, <2>2
<1>4. PICK z \in E : TRUE
  BY <1>3
<1> DEFINE R == E \ {z}
<1>5. PICK V : Additive(V, f, R)
  BY <1>1, <1>2
<1>6. R \in SUBSET E /\ z \notin R /\ E = R \union {z} /\ f[z] \in Int
  BY <1>2, <1>4
<1> HIDE DEF R
<1> DEFINE W == [S \in SUBSET E |-> IF z \in S THEN V[S \ {z}] + f[z] ELSE V[S]]
<1>7. ASSUME NEW S \in SUBSET E
      PROVE  /\ S \ {z} \in SUBSET R /\ V[S \ {z}] \in Int
             /\ z \notin S => S \in SUBSET R /\ V[S] \in Int
             /\ W[S] = (IF z \in S THEN V[S \ {z}] + f[z] ELSE V[S]) /\ W[S] \in Int
  <2>1. S \ {z} \in SUBSET R /\ (z \notin S => S \in SUBSET R)
    BY <1>6
  <2>2. V[S \ {z}] \in Int /\ (z \notin S => V[S] \in Int)
    BY <1>5, <2>1 DEF Additive
  <2> QED
    BY <1>6, <2>1, <2>2
<1>8. W[{}] = 0
  BY <1>5 DEF Additive
<1>9. ASSUME NEW S \in SUBSET E, NEW x \in E \ S
      PROVE  W[S \union {x}] = W[S] + f[x]
  <2>1. S \union {x} \in SUBSET E
    OBVIOUS
  <2>2. CASE x = z
    <3>1. z \notin S /\ (S \union {x}) \ {z} = S
      BY <2>2
    <3> QED
      BY <1>7, <2>1, <2>2, <3>1
  <2>3. CASE x # z
    <3>1. x \in R \ (S \ {z}) /\ S \ {z} \in SUBSET R /\ f[x] \in Int
      BY <1>2, <1>6, <1>7, <2>3
    <3>2. V[(S \ {z}) \union {x}] = V[S \ {z}] + f[x]
      BY <1>5, <3>1 DEF Additive
    <3>3. (S \union {x}) \ {z} = (S \ {z}) \union {x} /\ (z \in S \union {x} <=> z \in S)
      BY <2>3
    <3>4. V[S \ {z}] \in Int /\ W[S \union {x}] = IF z \in S THEN V[(S \ {z}) \union {x}] + f[z]
                                                 ELSE V[S \union {x}]
      BY <1>7, <2>1, <3>3
    <3>5. W[S] = IF z \in S THEN V[S \ {z}] + f[z] ELSE V[S]
      BY <1>7
    <3> HIDE DEF W
    <3>6. CASE z \in S
      BY <1>6, <3>1, <3>2, <3>4, <3>5, <3>6
    <3>7. CASE z \notin S
      <4>1. S \ {z} = S
        BY <3>7
      <4> QED
        BY <3>2, <3>4, <3>5, <3>7, <4>1
    <3> QED
      BY <3>6, <3>7
  <2> QED
    BY <2>2, <2>3
<1>10. W \in [SUBSET E -> Int]
  BY <1>7
<1> HIDE DEF W
<1>11. Additive(W, f, E)
  BY <1>8, <1>9, <1>10 DEF Additive
<1> QED
  BY <1>2, <1>11

\* The part x adds to what a set comes to.
LEMMA AddsPart ==
  ASSUME NEW D, NEW f, NEW W, Additive(W, f, D), NEW S \in SUBSET D, NEW x \in S
  PROVE  W[S] = W[S \ {x}] + f[x] /\ W[S] \in Int /\ W[S \ {x}] \in Int
<1>1. S \ {x} \in SUBSET D /\ x \in D \ (S \ {x}) /\ (S \ {x}) \union {x} = S
  OBVIOUS
<1>2. W[(S \ {x}) \union {x}] = W[S \ {x}] + f[x]
  BY <1>1 DEF Additive
<1> QED
  BY <1>1, <1>2 DEF Additive

\* The fold of the model adds a function up.
LEMMA TotalIs ==
  ASSUME NEW f, IsFiniteSet(DOMAIN f), NEW W, Additive(W, f, DOMAIN f),
         \A x \in DOMAIN f : f[x] \in Int
  PROVE  Total(f) = W[DOMAIN f]
<1> DEFINE D == DOMAIN f
           Sums(g) == g = [s \in SUBSET D |->
                             IF s = {} THEN 0
                             ELSE f[CHOOSE y \in s : TRUE] + g[s \ {CHOOSE y \in s : TRUE}]]
           p == CHOOSE g : Sums(g)
<1>1. W = [s \in SUBSET D |-> W[s]]
  BY DEF Additive
<1>2. ASSUME NEW s \in SUBSET D
      PROVE  W[s] = IF s = {} THEN 0
                    ELSE f[CHOOSE y \in s : TRUE] + W[s \ {CHOOSE y \in s : TRUE}]
  <2>1. CASE s = {}
    BY <2>1 DEF Additive
  <2>2. CASE s # {}
    <3> DEFINE x == CHOOSE y \in s : TRUE
    <3>1. x \in s
      BY <2>2
    <3> HIDE DEF x
    <3>0. \A y \in s : W[s] = W[s \ {y}] + f[y] /\ W[s \ {y}] \in Int
      BY AddsPart
    <3>2. W[s] = W[s \ {x}] + f[x] /\ W[s \ {x}] \in Int
      BY <3>0, <3>1
    <3>4. x \in D /\ f[x] \in Int
      BY <3>1
    <3>3. W[s] = f[x] + W[s \ {x}]
      BY <3>2, <3>4
    <3> QED
      BY <2>2, <3>3 DEF x
  <2> QED
    BY <2>1, <2>2
<1>3. Sums(W)
  BY <1>1, <1>2
<1>4. Sums(p)
  BY <1>3
<1>5. Total(f) = p[D]
  BY DEF Total, FoldFunction, FoldFunctionOnSet, MapThenFoldSet
<1> HIDE DEF p
<1> DEFINE T == {s \in SUBSET D : p[s] # W[s]}
<1>6. T = {}
  <2> SUFFICES ASSUME T # {} PROVE FALSE
    OBVIOUS
  <2>1. PICK s \in T : \A x \in s : s \ {x} \notin T
    <3>1. T \in SUBSET (SUBSET D)
      OBVIOUS
    <3> HIDE DEF T
    <3> QED
      BY <3>1, LeastSet
  <2> DEFINE x == CHOOSE y \in s : TRUE
  <2>2. s \in SUBSET D /\ p[s] # W[s]
    BY <2>1
  <2>3. p[s] = IF s = {} THEN 0 ELSE f[x] + p[s \ {x}]
    BY <1>4, <2>2
  <2>4. W[s] = IF s = {} THEN 0 ELSE f[x] + W[s \ {x}]
    BY <1>2, <2>2
  <2>5. s # {}
    BY <2>2, <2>3, <2>4
  <2>6. x \in s /\ s \ {x} \in SUBSET D
    BY <2>2, <2>5
  <2> HIDE DEF x
  <2>7. p[s \ {x}] = W[s \ {x}]
    BY <2>1, <2>6
  <2> QED
    BY <2>2, <2>3, <2>4, <2>5, <2>7
<1> QED
  BY <1>5, <1>6

\* A function adds up to what its domain comes to.
LEMMA TotalOf ==
  ASSUME NEW f, IsFiniteSet(DOMAIN f), \A x \in DOMAIN f : f[x] \in Int
  PROVE  \E W : Additive(W, f, DOMAIN f) /\ Total(f) = W[DOMAIN f] /\ Total(f) \in Int
<1>1. PICK W : Additive(W, f, DOMAIN f)
  BY AddsUp
<1>2. Total(f) = W[DOMAIN f]
  BY <1>1, TotalIs
<1>3. W[DOMAIN f] \in Int
  BY <1>1 DEF Additive
<1> QED
  BY <1>1, <1>2, <1>3

\* What counts for no more comes to no more.
LEMMA AddsNoMore ==
  ASSUME NEW D, IsFiniteSet(D), NEW f, NEW g, NEW W, NEW V,
         Additive(W, f, D), Additive(V, g, D), NEW S \in SUBSET D,
         \A x \in S : f[x] \in Int /\ g[x] \in Int /\ f[x] <= g[x]
  PROVE  W[S] <= V[S] /\ W[S] \in Int /\ V[S] \in Int
<1> DEFINE T == {R \in SUBSET D : R \subseteq S /\ ~(W[R] <= V[R])}
<1>1. W[S] \in Int /\ V[S] \in Int /\ W[{}] = 0 /\ V[{}] = 0
  BY DEF Additive
<1>2. T = {}
  <2> SUFFICES ASSUME T # {} PROVE FALSE
    OBVIOUS
  <2>1. PICK R \in T : \A x \in R : R \ {x} \notin T
    <3>1. T \in SUBSET (SUBSET D)
      OBVIOUS
    <3> HIDE DEF T
    <3> QED
      BY <3>1, LeastSet
  <2>2. R \in SUBSET D /\ R \subseteq S /\ ~(W[R] <= V[R])
    BY <2>1
  <2>3. PICK x \in R : TRUE
    BY <1>1, <2>2
  <2>4. W[R] = W[R \ {x}] + f[x] /\ W[R \ {x}] \in Int
    BY <2>2, AddsPart
  <2>5. V[R] = V[R \ {x}] + g[x] /\ V[R \ {x}] \in Int
    BY <2>2, AddsPart
  <2>6. W[R \ {x}] <= V[R \ {x}]
    BY <2>1, <2>2
  <2>7. f[x] \in Int /\ g[x] \in Int /\ f[x] <= g[x]
    BY <2>2
  <2> QED
    BY <2>2, <2>4, <2>5, <2>6, <2>7
<1> QED
  BY <1>1, <1>2

\* Nothing comes to nothing.
LEMMA TotalOfNone ==
  ASSUME NEW f, IsFiniteSet(DOMAIN f), \A x \in DOMAIN f : f[x] = 0
  PROVE  Total(f) = 0
<1> DEFINE W == [S \in SUBSET (DOMAIN f) |-> 0]
<1>1. Additive(W, f, DOMAIN f)
  BY DEF Additive
<1>2. W[DOMAIN f] = 0
  OBVIOUS
<1> HIDE DEF W
<1> QED
  BY <1>1, <1>2, TotalIs

\* A total is no less than its parts, and no more than another's.
LEMMA TotalBounds ==
  ASSUME NEW f, IsFiniteSet(DOMAIN f), \A x \in DOMAIN f : f[x] \in Nat
  PROVE  Total(f) \in Nat /\ \A x \in DOMAIN f : f[x] <= Total(f)
<1> DEFINE D == DOMAIN f
           g == [x \in D |-> 0]
           V == [S \in SUBSET D |-> 0]
<1>1. PICK W : Additive(W, f, D) /\ Total(f) = W[D] /\ Total(f) \in Int
  BY TotalOf
<1>2. Additive(V, g, D)
  BY DEF Additive
<1>3. \A S \in SUBSET D : V[S] = 0
  OBVIOUS
<1>4. \A x \in D : g[x] \in Int /\ g[x] = 0 /\ f[x] \in Int /\ g[x] <= f[x]
  OBVIOUS
<1> HIDE DEF V, g, D
<1>5. IsFiniteSet(D)
  BY DEF D
<1>6. \A S \in SUBSET D : W[S] \in Int /\ W[S] >= 0
  <2> TAKE S \in SUBSET D
  <2>1. V[S] <= W[S] /\ W[S] \in Int
    BY <1>1, <1>2, <1>4, <1>5, AddsNoMore
  <2> QED
    BY <1>3, <2>1
<1>7. D \in SUBSET D
  OBVIOUS
<1>8. ASSUME NEW x \in D
      PROVE  f[x] <= Total(f)
  <2>1. W[D] = W[D \ {x}] + f[x]
    BY <1>1, <1>7, AddsPart
  <2>2. W[D \ {x}] \in Int /\ W[D \ {x}] >= 0 /\ f[x] \in Int
    BY <1>4, <1>6
  <2> QED
    BY <1>1, <2>1, <2>2
<1> QED
  BY <1>1, <1>6, <1>7, <1>8 DEF D

\* What is nowhere more adds up to no more.
LEMMA TotalNoMore ==
  ASSUME NEW f, NEW g, DOMAIN f = DOMAIN g, IsFiniteSet(DOMAIN f),
         \A x \in DOMAIN f : f[x] \in Int /\ g[x] \in Int /\ f[x] <= g[x]
  PROVE  Total(f) <= Total(g) /\ Total(f) \in Int /\ Total(g) \in Int
<1>1. PICK W : Additive(W, f, DOMAIN f) /\ Total(f) = W[DOMAIN f] /\ Total(f) \in Int
  BY TotalOf
<1>2. PICK V : Additive(V, g, DOMAIN g) /\ Total(g) = V[DOMAIN g] /\ Total(g) \in Int
  BY TotalOf
<1>3. DOMAIN f \in SUBSET (DOMAIN f) /\ Additive(V, g, DOMAIN f)
  BY <1>2
<1>4. W[DOMAIN f] <= V[DOMAIN f]
  BY <1>1, <1>3, AddsNoMore
<1> QED
  BY <1>1, <1>2, <1>4

\* One value changes by d, and so does the total.
LEMMA TotalChanges ==
  ASSUME NEW f, NEW g, DOMAIN f = DOMAIN g, IsFiniteSet(DOMAIN f), NEW x \in DOMAIN f, NEW d \in Int,
         \A y \in DOMAIN f : f[y] \in Int,
         g[x] = f[x] + d, \A y \in DOMAIN f \ {x} : g[y] = f[y]
  PROVE  Total(g) = Total(f) + d
<1> DEFINE D == DOMAIN f
           R == D \ {x}
<1>1. \A y \in D : g[y] \in Int
  OBVIOUS
<1>2. PICK W : Additive(W, f, D) /\ Total(f) = W[D]
  BY TotalOf
<1>3. PICK V : Additive(V, g, D) /\ Total(g) = V[D]
  BY <1>1, TotalOf
<1>4. R \in SUBSET D /\ D \in SUBSET D /\ IsFiniteSet(D) /\ x \in D
  OBVIOUS
<1>5. \A y \in R : f[y] \in Int /\ g[y] \in Int /\ f[y] <= g[y] /\ g[y] <= f[y]
  OBVIOUS
<1>8. f[x] \in Int
  OBVIOUS
<1> HIDE DEF R, D
<1>6. W[R] <= V[R] /\ V[R] <= W[R] /\ W[R] \in Int /\ V[R] \in Int
  BY <1>2, <1>3, <1>4, <1>5, AddsNoMore
<1>7. W[D] = W[R] + f[x] /\ V[D] = V[R] + g[x]
  <2>1. W[D] = W[D \ {x}] + f[x]
    BY <1>2, <1>4, AddsPart
  <2>2. V[D] = V[D \ {x}] + g[x]
    BY <1>3, <1>4, AddsPart
  <2> QED
    BY <2>1, <2>2 DEF R
<1> QED
  BY <1>2, <1>3, <1>6, <1>7, <1>8

\* What is counted slot by slot comes to what is counted name by name.
LEMMA AddsAlike ==
  ASSUME NEW b, NEW M, Weighs(M, b), NEW D, IsFiniteSet(D), NEW f, NEW W, Additive(W, f, D),
         NEW r, \A x \in D : r[x] \in Slots /\ f[x] = b.pool[r[x]].qty /\ f[x] \in Int,
         \A x, y \in D : r[x] = r[y] => x = y,
         NEW S \in SUBSET D
  PROVE  W[S] = M[{r[x] : x \in S}]
<1> DEFINE I(R) == {r[x] : x \in R}
           T == {R \in SUBSET D : W[R] # M[I(R)]}
<1>1. T = {}
  <2> SUFFICES ASSUME T # {} PROVE FALSE
    OBVIOUS
  <2>1. PICK R \in T : \A x \in R : R \ {x} \notin T
    <3>1. T \in SUBSET (SUBSET D)
      OBVIOUS
    <3> HIDE DEF T
    <3> QED
      BY <3>1, LeastSet
  <2>2. R \in SUBSET D /\ W[R] # M[I(R)]
    BY <2>1
  <2>3. R # {}
    <3> SUFFICES ASSUME R = {} PROVE FALSE
      OBVIOUS
    <3>1. I(R) = {}
      OBVIOUS
    <3> HIDE DEF I
    <3> QED
      BY <2>2, <3>1 DEF Additive, Weighs
  <2>4. PICK x \in R : TRUE
    BY <2>3
  <2>5. W[R] = W[R \ {x}] + f[x] /\ W[R \ {x}] \in Int
    BY <2>2, AddsPart
  <2>6. W[R \ {x}] = M[I(R \ {x})]
    BY <2>1, <2>2
  <2>7. /\ I(R \ {x}) \in SUBSET Slots /\ r[x] \in Slots \ I(R \ {x})
        /\ I(R) = I(R \ {x}) \union {r[x]} /\ f[x] = b.pool[r[x]].qty
    BY <2>2
  <2> HIDE DEF I
  <2>8. M[I(R)] = M[I(R \ {x})] + b.pool[r[x]].qty
    <3> DEFINE J == I(R \ {x})
               s == r[x]
    <3>1. J \in SUBSET Slots /\ s \in Slots \ J /\ I(R) = J \union {s}
      BY <2>7
    <3> HIDE DEF J, s
    <3>2. M[J \union {s}] = M[J] + b.pool[s].qty
      BY <3>1 DEF Weighs
    <3> QED
      BY <3>1, <3>2 DEF J, s
  <2> QED
    BY <2>2, <2>5, <2>6, <2>7, <2>8
<1> QED
  BY <1>1

-----------------------------------------------------------------------------
(***************************************************************************)
(* Fills, as the observer sees them.                                        *)
(***************************************************************************)

\* The promise and the book speak of sides and prices alike.
LEMMA SameWords ==
  /\ \A t : Promise!Opposite(t) = Opposite(t) /\ Promise!FarTick(t) = FarTick(t)
  /\ \A t, x, y : /\ Promise!Reaches(t, x, y) <=> Reaches(t, x, y)
                  /\ Promise!Better(t, x, y) <=> Better(t, x, y)
                  /\ Promise!Smaller(x, y) = Smaller(x, y)
  /\ Promise!Ticks = Ticks /\ Promise!ClearCall = ClearCall
<1>1. \A t : Promise!Opposite(t) = Opposite(t) /\ Promise!FarTick(t) = FarTick(t)
  BY DEF Promise!Opposite, Opposite, Promise!FarTick, FarTick
<1>2. \A t, x, y : Promise!Reaches(t, x, y) <=> Reaches(t, x, y)
  BY DEF Promise!Reaches, Reaches
<1>3. \A t, x, y : Promise!Better(t, x, y) <=> Better(t, x, y)
  BY DEF Promise!Better, Better
<1>4. \A x, y : Promise!Smaller(x, y) = Smaller(x, y)
  BY DEF Promise!Smaller, Smaller
<1>5. Promise!Ticks = Ticks /\ Promise!ClearCall = ClearCall
  BY DEF Promise!Ticks, Ticks, Promise!ClearCall, ClearCall
<1> QED
  BY <1>1, <1>2, <1>3, <1>4, <1>5

\* What an observer knows when it knows of finitely many orders, each of some size.
Proper(h) ==
  /\ h \in Shadow
  /\ IsFiniteSet(DOMAIN h.book)
  /\ h.ahead \subseteq (DOMAIN h.book) \X (DOMAIN h.book)
  /\ \A i \in DOMAIN h.book : h.book[i].qty \in Nat \ {0}

\* The makers an order may trade with.
Reach(h, side, limit) == Promise!Eligible(h.book, side, limit)

\* What each maker in reach has given.
Gives(h, n, side, limit) ==
  [i \in Reach(h, side, limit) |-> IF i \in DOMAIN n.fills THEN n.fills[i] ELSE 0]

(***************************************************************************)
(* The call that found h, with a taker of q, has come to n and has r left:   *)
(* whoever gave was in reach and had it, who gave all is gone, the others     *)
(* are where they were, and nobody gave before one who is served earlier.     *)
(***************************************************************************)
Partly(h, q, n, r, side, limit) ==
  LET E == Reach(h, side, limit)
      f == Gives(h, n, side, limit)
  IN /\ n \in Shadow /\ r \in Nat /\ r + Total(f) = q
     /\ DOMAIN n.fills \subseteq E /\ \A i \in DOMAIN n.fills : n.fills[i] \in Nat \ {0}
     /\ \A i \in E : f[i] <= h.book[i].qty
     /\ DOMAIN n.book = Promise!Survivors(h.book, f)
     /\ \A i \in DOMAIN n.book :
          /\ n.book[i].side = h.book[i].side /\ n.book[i].tick = h.book[i].tick
          /\ n.book[i].qty = h.book[i].qty - (IF i \in E THEN f[i] ELSE 0)
     /\ n.ahead = Promise!QueueOnly(h.ahead, DOMAIN n.book)
     /\ \A i, j \in E : f[j] > 0 /\ Promise!Before(h.book, h.ahead, i, j) => f[i] = h.book[i].qty

\* What has been given, one by one.
LEMMA GivesIs ==
  ASSUME NEW h, NEW n, NEW side, NEW limit
  PROVE  /\ DOMAIN Gives(h, n, side, limit) = Reach(h, side, limit)
         /\ Reach(h, side, limit) \subseteq DOMAIN h.book
         /\ \A i \in Reach(h, side, limit) :
              /\ Gives(h, n, side, limit)[i] = IF i \in DOMAIN n.fills THEN n.fills[i] ELSE 0
              /\ h.book[i].side = Opposite(side) /\ Reaches(side, limit, h.book[i].tick)
         /\ \A i \in DOMAIN h.book :
              h.book[i].side = Opposite(side) /\ Reaches(side, limit, h.book[i].tick)
                => i \in Reach(h, side, limit)
<1> DEFINE E == Reach(h, side, limit)
           f == Gives(h, n, side, limit)
<1>1. E = {i \in DOMAIN h.book : h.book[i].side = Opposite(side)
                                /\ Reaches(side, limit, h.book[i].tick)}
  BY SameWords DEF Reach, Promise!Eligible
<1>2. f = [i \in E |-> IF i \in DOMAIN n.fills THEN n.fills[i] ELSE 0]
  <2> HIDE DEF E
  <2> QED
    BY DEF Gives, E
<1> HIDE DEF E, f
<1>3. DOMAIN f = E /\ \A i \in E : f[i] = IF i \in DOMAIN n.fills THEN n.fills[i] ELSE 0
  BY <1>2
<1>4. /\ E \subseteq DOMAIN h.book
      /\ \A i \in E : h.book[i].side = Opposite(side) /\ Reaches(side, limit, h.book[i].tick)
      /\ \A i \in DOMAIN h.book :
           h.book[i].side = Opposite(side) /\ Reaches(side, limit, h.book[i].tick) => i \in E
  BY <1>1
<1> QED
  BY <1>3, <1>4 DEF E, f

\* Before the first fill.
LEMMA PartlyBegins ==
  ASSUME NEW h, Proper(h), DOMAIN h.fills = {}, NEW q \in Nat, NEW side, NEW limit
  PROVE  Partly(h, q, h, q, side, limit)
<1> DEFINE E == Reach(h, side, limit)
           f == Gives(h, h, side, limit)
<1>1. E \subseteq DOMAIN h.book /\ DOMAIN f = E /\ \A i \in E : f[i] = 0
  <2>1. /\ E \subseteq DOMAIN h.book /\ DOMAIN f = E
        /\ \A i \in E : f[i] = IF i \in DOMAIN h.fills THEN h.fills[i] ELSE 0
    <3>1. E \subseteq DOMAIN h.book /\ DOMAIN f = E
      BY GivesIs
    <3>2. \A i \in E : f[i] = IF i \in DOMAIN h.fills THEN h.fills[i] ELSE 0
      BY GivesIs
    <3> QED
      BY <3>1, <3>2
  <2> HIDE DEF E, f
  <2> QED
    BY <2>1
<1>2. \A i \in DOMAIN h.book : h.book[i].qty \in Nat \ {0}
  BY DEF Proper
<1>3. IsFiniteSet(E)
  BY <1>1, FS_Subset DEF Proper
<1> HIDE DEF E, f
<1>4. Total(f) = 0
  BY <1>1, <1>3, TotalOfNone
<1>5. DOMAIN h.book = Promise!Survivors(h.book, f)
  BY <1>1, <1>2 DEF Promise!Survivors
<1>6. h.ahead = Promise!QueueOnly(h.ahead, DOMAIN h.book)
  BY DEF Proper, Promise!QueueOnly
<1>7. \A i \in E : f[i] <= h.book[i].qty /\ ~(f[i] > 0)
  BY <1>1, <1>2
<1>8. \A i \in DOMAIN h.book : h.book[i].qty = h.book[i].qty - (IF i \in E THEN f[i] ELSE 0)
  BY <1>1, <1>2
<1>9. q + Total(f) = q /\ h \in Shadow
  BY <1>4 DEF Proper
<1> QED
  BY <1>5, <1>6, <1>7, <1>8, <1>9 DEF Partly, E, f

\* What Give does to the fills.
LEMMA GiveFills ==
  ASSUME NEW h \in Shadow, NEW id \in DOMAIN h.book, NEW d \in Int
  PROVE  LET l == Give(h, id, d).fills IN
         /\ DOMAIN l = DOMAIN h.fills \union {id}
         /\ l[id] = (IF id \in DOMAIN h.fills THEN h.fills[id] ELSE 0) + d
         /\ \A i \in DOMAIN h.fills \ {id} : l[i] = h.fills[i]
<1> DEFINE l == Lose(h, id, d)
           before == IF id \in DOMAIN h.fills THEN h.fills[id] ELSE 0
           fills == [i \in DOMAIN h.fills \union {id} |-> IF i = id THEN before + d ELSE h.fills[i]]
           g == Give(h, id, d)
<1>1. Lost(h, id, d, l) /\ l.fills = h.fills
  BY LoseIs
<1>2. l \in Shadow
  BY <1>1 DEF Lost
<1> HIDE DEF l
<1>3. g = [l EXCEPT !.fills = fills]
  BY <1>1, <1>2 DEF Give, l
<1> HIDE DEF fills, g
<1>4. g.fills = fills
  BY <1>2, <1>3 DEF Shadow
<1> QED
  BY <1>4 DEF fills, g

\* One fill more: the maker has it, the taker wants it, nobody is served before.
LEMMA PartlyMore ==
  ASSUME NEW h, Proper(h), NEW q \in Nat, NEW n, NEW r, NEW side \in Sides, NEW limit,
         Partly(h, q, n, r, side, limit),
         NEW x \in DOMAIN n.book, n.book[x].side = Opposite(side),
         Reaches(side, limit, n.book[x].tick),
         NEW d \in Nat \ {0}, d <= n.book[x].qty, d <= r,
         \A i \in DOMAIN n.book :
           n.book[i].side = Opposite(side) => ~Promise!Before(n.book, n.ahead, i, x)
  PROVE  Partly(h, q, Give(n, x, d), r - d, side, limit)
<1> DEFINE E == Reach(h, side, limit)
           f == Gives(h, n, side, limit)
           l == Give(n, x, d)
           g == Gives(h, l, side, limit)
<1>1. /\ n \in Shadow /\ r \in Nat /\ r + Total(f) = q
      /\ DOMAIN n.fills \subseteq E /\ \A i \in DOMAIN n.fills : n.fills[i] \in Nat \ {0}
      /\ \A i \in E : f[i] <= h.book[i].qty
      /\ DOMAIN n.book = Promise!Survivors(h.book, f)
      /\ \A i \in DOMAIN n.book :
          /\ n.book[i].side = h.book[i].side /\ n.book[i].tick = h.book[i].tick
          /\ n.book[i].qty = h.book[i].qty - (IF i \in E THEN f[i] ELSE 0)
      /\ n.ahead = Promise!QueueOnly(h.ahead, DOMAIN n.book)
      /\ \A i, j \in E : f[j] > 0 /\ Promise!Before(h.book, h.ahead, i, j) => f[i] = h.book[i].qty
  BY DEF Partly
<1>2. /\ DOMAIN f = E /\ E \subseteq DOMAIN h.book /\ DOMAIN g = E
      /\ \A i \in E : /\ f[i] = IF i \in DOMAIN n.fills THEN n.fills[i] ELSE 0
                      /\ g[i] = IF i \in DOMAIN l.fills THEN l.fills[i] ELSE 0
                      /\ h.book[i].side = Opposite(side)
      /\ \A i \in DOMAIN h.book :
           h.book[i].side = Opposite(side) /\ Reaches(side, limit, h.book[i].tick) => i \in E
  <2>1. \A i \in E : f[i] = (IF i \in DOMAIN n.fills THEN n.fills[i] ELSE 0)
                    /\ h.book[i].side = Opposite(side)
    BY GivesIs
  <2>2. \A i \in E : g[i] = IF i \in DOMAIN l.fills THEN l.fills[i] ELSE 0
    <3> HIDE DEF l
    <3> QED
      BY GivesIs
  <2>3. DOMAIN f = E /\ E \subseteq DOMAIN h.book /\ DOMAIN g = E
    <3> HIDE DEF l
    <3> QED
      BY GivesIs
  <2>4. \A i \in DOMAIN h.book :
           h.book[i].side = Opposite(side) /\ Reaches(side, limit, h.book[i].tick) => i \in E
    BY GivesIs
  <2> HIDE DEF E, f, g, l
  <2> QED
    BY <2>1, <2>2, <2>3, <2>4
<1>3. \A i \in DOMAIN h.book : h.book[i].qty \in Nat \ {0}
  BY DEF Proper
<1>4. /\ DOMAIN l.fills = DOMAIN n.fills \union {x}
      /\ l.fills[x] = (IF x \in DOMAIN n.fills THEN n.fills[x] ELSE 0) + d
      /\ \A i \in DOMAIN n.fills \ {x} : l.fills[i] = n.fills[i]
  BY <1>1, GiveFills
<1>5. Lost(n, x, d, l)
  BY <1>1, GiveIs
<1> HIDE DEF E, f, g, l
<1>6. \A i \in E : f[i] \in Nat
  BY <1>1, <1>2
<1>7. DOMAIN n.book = {i \in DOMAIN h.book : i \in E => f[i] < h.book[i].qty}
  BY <1>1, <1>2 DEF Promise!Survivors
<1>8. x \in E /\ x \in DOMAIN h.book
  BY <1>1, <1>2, <1>7
<1>9. n.book[x].qty = h.book[x].qty - f[x] /\ d + f[x] <= h.book[x].qty
  <2>1. n.book[x].qty = h.book[x].qty - f[x]
    BY <1>1, <1>8
  <2> QED
    BY <1>3, <1>6, <1>8, <2>1
<1>10. g[x] = f[x] + d /\ \A i \in E \ {x} : g[i] = f[i]
  BY <1>2, <1>4, <1>8
<1>11. Total(g) = Total(f) + d
  <2>1. IsFiniteSet(E)
    BY <1>2, FS_Subset DEF Proper
  <2> QED
    BY <1>2, <1>6, <1>8, <1>10, <2>1, TotalChanges
<1>12. r - d \in Nat /\ (r - d) + Total(g) = q
  <2>1. Total(f) = q - r
    <3>1. IsFiniteSet(E)
      BY <1>2, FS_Subset DEF Proper
    <3>2. Total(f) \in Int
      BY <1>2, <1>6, <3>1, TotalOf
    <3> QED
      BY <1>1, <3>2
  <2> QED
    BY <1>1, <1>11, <2>1
<1>13. DOMAIN l.fills \subseteq E /\ \A i \in DOMAIN l.fills : l.fills[i] \in Nat \ {0}
  <2>1. DOMAIN l.fills \subseteq E
    BY <1>1, <1>4, <1>8
  <2>2. l.fills[x] \in Nat \ {0}
    BY <1>1, <1>4
  <2> QED
    BY <1>1, <1>4, <2>1, <2>2
<1>14. ASSUME NEW i \in E PROVE g[i] <= h.book[i].qty
  <2>1. CASE i = x
    BY <1>3, <1>6, <1>8, <1>9, <1>10, <2>1
  <2>2. CASE i # x
    BY <1>1, <1>10, <2>2
  <2> QED
    BY <2>1, <2>2
<1>15. DOMAIN l.book = IF d < n.book[x].qty THEN DOMAIN n.book ELSE DOMAIN n.book \ {x}
  BY <1>5 DEF Lost
<1>16. DOMAIN l.book = Promise!Survivors(h.book, g)
  <2>1. g[x] < h.book[x].qty <=> d < n.book[x].qty
    BY <1>3, <1>6, <1>8, <1>9, <1>10
  <2>2. \A i \in DOMAIN h.book : i \in DOMAIN l.book <=> (i \in E => g[i] < h.book[i].qty)
    BY <1>7, <1>8, <1>10, <1>15, <2>1
  <2>3. DOMAIN l.book \subseteq DOMAIN h.book
    BY <1>7, <1>15
  <2> QED
    BY <1>2, <2>2, <2>3 DEF Promise!Survivors
<1>17. ASSUME NEW i \in DOMAIN l.book
       PROVE  /\ l.book[i].side = h.book[i].side /\ l.book[i].tick = h.book[i].tick
              /\ l.book[i].qty = h.book[i].qty - (IF i \in E THEN g[i] ELSE 0)
  <2>1. CASE i = x
    <3>1. l.book[x] = [side |-> n.book[x].side, tick |-> n.book[x].tick, qty |-> n.book[x].qty - d]
      BY <1>5, <1>15, <2>1 DEF Lost
    <3>2. n.book[x].qty - d = h.book[x].qty - g[x]
      BY <1>3, <1>6, <1>8, <1>9, <1>10
    <3> QED
      BY <1>1, <1>8, <2>1, <3>1, <3>2
  <2>2. CASE i # x
    <3>1. i \in DOMAIN n.book /\ l.book[i] = n.book[i]
      BY <1>5, <1>15, <2>2 DEF Lost
    <3> QED
      BY <1>1, <1>10, <2>2, <3>1
  <2> QED
    BY <2>1, <2>2
<1>18. l.ahead = Promise!QueueOnly(h.ahead, DOMAIN l.book)
  <2>1. l.ahead = IF d < n.book[x].qty THEN n.ahead
                  ELSE {p \in n.ahead : x \notin {p[1], p[2]}}
    BY <1>5 DEF Lost
  <2>2. n.ahead = {p \in h.ahead : p[1] \in DOMAIN n.book /\ p[2] \in DOMAIN n.book}
    BY <1>1 DEF Promise!QueueOnly
  <2>3. l.ahead = {p \in h.ahead : p[1] \in DOMAIN l.book /\ p[2] \in DOMAIN l.book}
    BY <1>15, <2>1, <2>2
  <2> QED
    BY <2>3 DEF Promise!QueueOnly
<1>19. ASSUME NEW i \in E, NEW j \in E, g[j] > 0, Promise!Before(h.book, h.ahead, i, j)
       PROVE  g[i] = h.book[i].qty
  <2>1. CASE j # x
    <3>1. f[i] = h.book[i].qty
      BY <1>1, <1>10, <1>19, <2>1
    <3>2. i # x
      BY <1>3, <1>6, <1>8, <1>9, <3>1
    <3> QED
      BY <1>10, <3>1, <3>2
  <2>2. CASE j = x
    <3>1. i \notin DOMAIN n.book
      <4> SUFFICES ASSUME i \in DOMAIN n.book PROVE FALSE
        OBVIOUS
      <4>1. n.book[i].side = Opposite(side) /\ n.book[i].side = h.book[i].side
            /\ n.book[i].tick = h.book[i].tick /\ n.book[x].tick = h.book[x].tick
        BY <1>1, <1>2
      <4>2. <<i, x>> \in h.ahead => <<i, x>> \in n.ahead
        BY <1>1 DEF Promise!QueueOnly
      <4>3. Promise!Before(n.book, n.ahead, i, x)
        BY <1>19, <2>2, <4>1, <4>2 DEF Promise!Before
      <4> QED
        BY <4>1, <4>3
    <3>2. i # x /\ ~(f[i] < h.book[i].qty)
      BY <1>2, <1>7, <3>1
    <3>3. f[i] = h.book[i].qty
      BY <1>1, <1>2, <1>3, <1>6, <3>2
    <3> QED
      BY <1>10, <3>2, <3>3
  <2> QED
    BY <2>1, <2>2
<1>20. l \in Shadow
  BY <1>5 DEF Lost
<1> QED
  BY <1>12, <1>13, <1>14, <1>16, <1>17, <1>18, <1>19, <1>20 DEF Partly, E, f, g, l

-----------------------------------------------------------------------------
(***************************************************************************)
(* Matching fills as promised.                                              *)
(***************************************************************************)

\* No maker the observer knows of is priced better than x.
NoneNearer(h, t, x) ==
  \A i \in DOMAIN h.book : h.book[i].side = Opposite(t) => ~Better(t, h.book[i].tick, x)

\* The head of a level is the maker nobody stands before, and gives what it can.
LEMMA TakeHeadTells ==
  ASSUME NEW m, NEW sh, Good(m, sh), NEW t \in Sides, NEW li \in Levels, Loose(m.b, t, li),
         m.qty # 0, m.b.levels[li].head # NullSlot
  PROVE  LET h == Told(sh, m.events)
             n == TakeHead(m, li)
         IN \E x \in DOMAIN h.book : \E d \in Nat \ {0} :
              /\ Told(sh, n.events) = Give(h, x, d)
              /\ n.qty = m.qty - d /\ d <= m.qty /\ d <= h.book[x].qty
              /\ h.book[x].tick = TickOf(li) /\ h.book[x].side = Opposite(t)
              /\ \A i : <<i, x>> \notin h.ahead
<1> DEFINE b == m.b
           s == b.levels[li].head
           o == b.pool[s]
           d == Smaller(m.qty, o.qty)
           e == TradeEvent(o.id, TickOf(li), d, o.qty - d)
           n == TakeHead(m, li)
           h == Told(sh, m.events)
<1>1. PICK age, now, M : Kept(b, age, now, M) /\ Mirror(b, age, h)
  BY DEF Good, Faithful
<1>2. b \in Book /\ Sound(b) /\ Indexed(b) /\ Aged(age, now) /\ Queued(b, age)
  BY <1>1 DEF Kept
<1>3. s \in LiveSlots(b) /\ s \in At(b, li) /\ o.tick = TickOf(li)
  BY <1>1, HeadIs
<1>4. o.qty \in Nat \ {0} /\ o.id \in DOMAIN b.ids /\ b.ids[o.id] = s /\ o.side \in Sides
  <2>1. o.qty \in Nat \ {0} /\ o.id \in DOMAIN b.ids /\ o \in SlotType
    BY <1>2, <1>3, OrderIs
  <2>2. b.ids[o.id] = s
    BY <1>2, <1>3 DEF Sound
  <2> HIDE DEF o, s, b
  <2> QED
    BY <2>1, <2>2 DEF SlotType
<1>5. m.qty \in Nat /\ IsList(m.events)
  BY DEF Good
<1>6. d \in Nat \ {0} /\ d <= m.qty /\ d <= o.qty
  <2>1. \A x, y \in Nat \ {0} : Smaller(x, y) \in Nat \ {0} /\ Smaller(x, y) <= x /\ Smaller(x, y) <= y
    BY DEF Smaller
  <2>2. o.qty \in Nat \ {0} /\ m.qty \in Nat \ {0}
    BY <1>4, <1>5
  <2> HIDE DEF o
  <2> QED
    BY <2>1, <2>2
<1>7. n.events = Append(m.events, e) /\ n.qty = m.qty - d
  BY DEF TakeHead
<1>8. Told(sh, n.events) = Give(h, o.id, d)
  <2>1. Told(sh, Append(m.events, e)) = Observe(h, e)
    BY <1>5, ToldMore
  <2>2. Observe(h, e) = Give(h, o.id, d)
    BY EventsAre
  <2> QED
    BY <1>7, <2>1, <2>2
<1>9. o.side = Opposite(t)
  <2> SUFFICES ASSUME o.side # Opposite(t) PROVE FALSE
    OBVIOUS
  <2>1. s \in Makers(b, Opposite(t))
    BY <1>3, <1>4, OppositeIs DEF Makers, Sides
  <2>2. Better(t, o.tick, TickOf(li))
    BY <2>1 DEF Loose
  <2>3. TickOf(li) \in Int
    BY LevelsAre, TicksAre
  <2> QED
    BY <1>3, <2>2, <2>3 DEF Better
<1> HIDE DEF b, s, n, h, d, e
<1>10. o.id \in DOMAIN h.book /\ h.book[o.id] = LineOf(o)
  BY <1>1, <1>4 DEF Mirror
<1>11. ASSUME NEW i, <<i, o.id>> \in h.ahead
       PROVE  FALSE
  <2>1. i \in DOMAIN b.ids
    BY <1>1, <1>11 DEF Mirror
  <2>2. b.pool[b.ids[i]].tick = o.tick /\ age[b.ids[i]] < age[s]
    BY <1>1, <1>4, <1>11, <2>1 DEF Mirror
  <2>3. b.ids[i] \in At(b, li)
    BY <1>2, <1>3, <2>1, <2>2, NamedIs DEF At
  <2>4. Oldest(At(b, li), age, s)
    BY <1>2 DEF Queued, Ends, s
  <2>5. s # NullSlot /\ age \in [Slots -> Int] /\ s \in Slots /\ b.ids[i] \in Slots
    BY <1>2, <1>3, <2>1, NamedIs DEF Aged, LiveSlots, s, b
  <2> QED
    BY <2>2, <2>3, <2>4, <2>5 DEF Oldest
<1>12. LineOf(o).tick = TickOf(li) /\ LineOf(o).side = Opposite(t) /\ LineOf(o).qty = o.qty
  BY <1>3, <1>9 DEF LineOf
<1> QED
  BY <1>6, <1>7, <1>8, <1>10, <1>11, <1>12 DEF h, n

\* A taker of q that found h is at level li, which its limit reaches.
OnLevel(h, q, n, sh, t, limit, li) ==
  /\ Good(n, sh) /\ Loose(n.b, t, li)
  /\ Partly(h, q, Told(sh, n.events), n.qty, t, limit)
  /\ NoneNearer(Told(sh, n.events), t, TickOf(li))

\* A pass of the inner loop is a fill of the maker who is served first.
LEMMA TakeOnceFills ==
  ASSUME NEW h, Proper(h), NEW q \in Nat, NEW n, NEW sh, NEW t \in Sides, NEW limit,
         NEW li \in Levels, Reaches(t, limit, TickOf(li)), OnLevel(h, q, n, sh, t, limit, li)
  PROVE  OnLevel(h, q, TakeOnce(n, li), sh, t, limit, li)
<1>1. /\ Good(n, sh) /\ Loose(n.b, t, li)
      /\ Partly(h, q, Told(sh, n.events), n.qty, t, limit)
      /\ NoneNearer(Told(sh, n.events), t, TickOf(li))
  BY DEF OnLevel
<1>2. CASE n.qty = 0 \/ n.b.levels[li].head = NullSlot
  <2>1. TakeOnce(n, li) = n
    BY <1>2 DEF TakeOnce
  <2> QED
    BY <2>1
<1>3. CASE ~(n.qty = 0 \/ n.b.levels[li].head = NullSlot)
  <2> DEFINE p == TakeHead(n, li)
             k == Told(sh, n.events)
             l == Told(sh, p.events)
  <2>1. TakeOnce(n, li) = p
    BY <1>3 DEF TakeOnce
  <2>2. Good(p, sh) /\ Loose(p.b, t, li)
    BY <1>1, <1>3, TakeHeadIs DEF Took
  <2>3. PICK x \in DOMAIN k.book, d \in Nat \ {0} :
          /\ l = Give(k, x, d)
          /\ p.qty = n.qty - d /\ d <= n.qty /\ d <= k.book[x].qty
          /\ k.book[x].tick = TickOf(li) /\ k.book[x].side = Opposite(t)
          /\ \A i : <<i, x>> \notin k.ahead
    BY <1>1, <1>3, TakeHeadTells
  <2> HIDE DEF p, k, l
  <2>4. Partly(h, q, k, n.qty, t, limit) /\ NoneNearer(k, t, TickOf(li))
    BY <1>1 DEF k
  <2>5. ASSUME NEW i \in DOMAIN k.book, k.book[i].side = Opposite(t)
        PROVE  ~Promise!Before(k.book, k.ahead, i, x)
    <3>1. ~Better(t, k.book[i].tick, k.book[x].tick)
      BY <2>3, <2>4, <2>5 DEF NoneNearer
    <3>2. Opposite(k.book[i].side) = t
      BY <2>5, OppositeIs
    <3>3. Promise!Opposite(k.book[i].side) = t
      BY <3>2, SameWords
    <3>4. ~Promise!Better(Promise!Opposite(k.book[i].side), k.book[i].tick, k.book[x].tick)
      BY <3>1, <3>3, SameWords
    <3> QED
      BY <2>3, <3>4 DEF Promise!Before
  <2>6. Partly(h, q, Give(k, x, d), n.qty - d, t, limit)
    BY <2>3, <2>4, <2>5, PartlyMore
  <2>7. k \in Shadow
    BY <2>4 DEF Partly
  <2>8. Lost(k, x, d, l)
    BY <2>3, <2>7, GiveIs
  <2>9. \A i \in DOMAIN l.book : /\ i \in DOMAIN k.book
                                 /\ l.book[i].side = k.book[i].side
                                 /\ l.book[i].tick = k.book[i].tick
    BY <2>8 DEF Lost
  <2>10. NoneNearer(l, t, TickOf(li))
    BY <2>4, <2>9 DEF NoneNearer
  <2> QED
    BY <2>1, <2>2, <2>3, <2>6, <2>10 DEF OnLevel, l
<1> QED
  BY <1>2, <1>3

\* So is the whole inner loop.
LEMMA TakeLevelFills ==
  ASSUME NEW h, Proper(h), NEW q \in Nat, NEW m, NEW sh, NEW t \in Sides, NEW limit,
         NEW li \in Levels, Reaches(t, limit, TickOf(li)), OnLevel(h, q, m, sh, t, limit, li)
  PROVE  OnLevel(h, q, TakeLevel(m, li), sh, t, limit, li)
<1>1. PoolSize \in Nat
  BY BookAssumption
<1>2. PICK F : Runs(F, "level", m, li, 0) /\ TakeLevel(m, li) = F[PoolSize]
  BY TakeLevelRuns
<1> DEFINE T == {k \in 0 .. PoolSize : ~OnLevel(h, q, F[k], sh, t, limit, li)}
<1>3. T = {}
  <2> SUFFICES ASSUME T # {} PROVE FALSE
    OBVIOUS
  <2>1. PICK k \in T : \A j \in T : k <= j
    <3>1. T \subseteq Nat
      BY <1>1
    <3> HIDE DEF T
    <3> QED
      BY <3>1, LeastNat
  <2>2. k \in 0 .. PoolSize /\ ~OnLevel(h, q, F[k], sh, t, limit, li)
    BY <2>1
  <2>3. k # 0
    BY <1>2, <2>2 DEF Runs
  <2>4. k \in 1 .. PoolSize /\ k - 1 \in 0 .. PoolSize /\ ~(k <= k - 1)
    BY <1>1, <2>2, <2>3
  <2>5. OnLevel(h, q, F[k - 1], sh, t, limit, li)
    BY <2>1, <2>4
  <2>6. F[k] = TakeOnce(F[k - 1], li)
    BY <1>2, <2>4 DEF Runs, Pass
  <2>7. OnLevel(h, q, TakeOnce(F[k - 1], li), sh, t, limit, li)
    BY <2>5, TakeOnceFills
  <2> QED
    BY <2>2, <2>6, <2>7
<1>4. PoolSize \in 0 .. PoolSize
  BY <1>1
<1> QED
  BY <1>2, <1>3, <1>4

\* The best price is that of the makers an observer knows of.
LEMMA BestIsNearest ==
  ASSUME NEW b, NEW h, Faithful(b, h), Settled(b), NEW t \in Sides, BestFor(b, t) # InvalidTick
  PROVE  NoneNearer(h, t, BestFor(b, t))
<1>1. /\ b \in Book /\ Sound(b) /\ Indexed(b) /\ DOMAIN h.book = DOMAIN b.ids
      /\ \A i \in DOMAIN b.ids : h.book[i] = LineOf(b.pool[b.ids[i]])
  BY FaithfulIs
<1>2. NoneBetter(b, t, BestFor(b, t))
  BY DEF Settled, TopIs, Sides
<1>3. ASSUME NEW i \in DOMAIN h.book, h.book[i].side = Opposite(t)
      PROVE  ~Better(t, h.book[i].tick, BestFor(b, t))
  <2>1. b.ids[i] \in LiveSlots(b)
    BY <1>1, NamedIs
  <2>2. h.book[i].side = b.pool[b.ids[i]].side /\ h.book[i].tick = b.pool[b.ids[i]].tick
    <3> DEFINE o == b.pool[b.ids[i]]
    <3>1. h.book[i] = LineOf(o)
      BY <1>1
    <3>2. LineOf(o).side = o.side /\ LineOf(o).tick = o.tick
      BY DEF LineOf
    <3> QED
      BY <3>1, <3>2
  <2>3. b.ids[i] \in Makers(b, t)
    BY <1>3, <2>1, <2>2 DEF Makers
  <2> QED
    BY <1>2, <2>2, <2>3 DEF NoneBetter
<1> QED
  BY <1>3 DEF NoneNearer

\* A level that is left tells nothing.
LEMMA LeavingTellsNothing ==
  ASSUME NEW m, NEW sh, Good(m, sh), NEW t, NEW li
  PROVE  LeaveLevel(m, t, li).events = m.events /\ LeaveLevel(m, t, li).qty = m.qty
<1>1. m = [b |-> m.b, events |-> m.events, qty |-> m.qty]
  BY DEF Good
<1> DEFINE c == DropLevel(m.b, Opposite(t), li)
<1>2. LeaveLevel(m, t, li) = IF m.b.levels[li].qty = 0 THEN [m EXCEPT !.b = c] ELSE m
  BY DEF LeaveLevel
<1> HIDE DEF c
<1> QED
  BY <1>1, <1>2

\* A taker of q that found h is between two prices.
BetweenLevels(h, q, n, sh, t, limit) ==
  /\ Good(n, sh) /\ Settled(n.b)
  /\ Partly(h, q, Told(sh, n.events), n.qty, t, limit)

\* A pass of the outer loop.
LEMMA MatchBestFills ==
  ASSUME NEW h, Proper(h), NEW q \in Nat, NEW n, NEW sh, NEW t \in Sides, NEW limit,
         BetweenLevels(h, q, n, sh, t, limit)
  PROVE  BetweenLevels(h, q, MatchBest(n, t, limit), sh, t, limit)
<1>1. Good(n, sh) /\ Settled(n.b) /\ Partly(h, q, Told(sh, n.events), n.qty, t, limit)
  BY DEF BetweenLevels
<1>2. CASE Done(n, t, limit)
  <2>1. MatchBest(n, t, limit) = n
    BY <1>2 DEF MatchBest, Done, Alone
  <2> QED
    BY <2>1
<1>3. CASE ~Done(n, t, limit)
  <2> DEFINE best == BestFor(n.b, t)
             li == Idx(best)
             p == TakeLevel(n, li)
             r == LeaveLevel(p, t, li)
  <2>1. best # InvalidTick /\ Reaches(t, limit, best) /\ n.qty # 0
    BY <1>3 DEF Done, Alone
  <2>2. MatchBest(n, t, limit) = r
    BY <2>1 DEF MatchBest
  <2>3. n.b \in Book /\ Sound(n.b) /\ Faithful(n.b, Told(sh, n.events))
    BY <1>1 DEF Good, Faithful, Kept
  <2>4. li \in Levels /\ Loose(n.b, t, li)
    BY <1>1, <2>1, <2>3, BestMakerIs
  <2>5. TickOf(li) = best
    <3>1. best \in Int
      BY <2>3 DEF Book, BestFor
    <3> HIDE DEF best
    <3> QED
      BY <3>1, BookAssumption DEF TickOf, Idx
  <2>6. NoneNearer(Told(sh, n.events), t, best)
    BY <1>1, <2>1, <2>3, BestIsNearest
  <2>7. OnLevel(h, q, n, sh, t, limit, li)
    BY <1>1, <2>4, <2>5, <2>6 DEF OnLevel
  <2> HIDE DEF li, best
  <2>8. OnLevel(h, q, p, sh, t, limit, li)
    BY <2>1, <2>4, <2>5, <2>7, TakeLevelFills
  <2> HIDE DEF p
  <2>9. Good(p, sh) /\ Loose(p.b, t, li) /\ Partly(h, q, Told(sh, p.events), p.qty, t, limit)
    BY <2>8 DEF OnLevel
  <2>10. Good(r, sh) /\ Settled(r.b)
    BY <2>4, <2>9, LeaveLevelIs
  <2>11. r.events = p.events /\ r.qty = p.qty
    BY <2>9, LeavingTellsNothing
  <2> HIDE DEF r
  <2> QED
    BY <2>2, <2>9, <2>10, <2>11 DEF BetweenLevels, p, li, best
<1> QED
  BY <1>2, <1>3

\* The outer loop.
LEMMA MatchFills ==
  ASSUME NEW h, Proper(h), NEW q \in Nat, NEW m, NEW sh, NEW t \in Sides, NEW limit,
         BetweenLevels(h, q, m, sh, t, limit)
  PROVE  BetweenLevels(h, q, Match(m, t, limit), sh, t, limit)
<1>1. PoolSize \in Nat
  BY BookAssumption
<1>2. PICK F : Runs(F, "match", m, t, limit) /\ Match(m, t, limit) = F[PoolSize]
  BY MatchRuns
<1> DEFINE T == {k \in 0 .. PoolSize : ~BetweenLevels(h, q, F[k], sh, t, limit)}
<1>3. T = {}
  <2> SUFFICES ASSUME T # {} PROVE FALSE
    OBVIOUS
  <2>1. PICK k \in T : \A j \in T : k <= j
    <3>1. T \subseteq Nat
      BY <1>1
    <3> HIDE DEF T
    <3> QED
      BY <3>1, LeastNat
  <2>2. k \in 0 .. PoolSize /\ ~BetweenLevels(h, q, F[k], sh, t, limit)
    BY <2>1
  <2>3. k # 0
    BY <1>2, <2>2 DEF Runs
  <2>4. k \in 1 .. PoolSize /\ k - 1 \in 0 .. PoolSize /\ ~(k <= k - 1)
    BY <1>1, <2>2, <2>3
  <2>5. BetweenLevels(h, q, F[k - 1], sh, t, limit)
    BY <2>1, <2>4
  <2>6. F[k] = MatchBest(F[k - 1], t, limit)
    BY <1>2, <2>4 DEF Runs, Pass
  <2>7. BetweenLevels(h, q, MatchBest(F[k - 1], t, limit), sh, t, limit)
    BY <2>5, MatchBestFills
  <2> QED
    BY <2>2, <2>6, <2>7
<1>4. PoolSize \in 0 .. PoolSize
  BY <1>1
<1> QED
  BY <1>2, <1>3, <1>4

\* Some orders on a list of slots, each under one id, are finitely many.
LEMMA FaithfulIsProper ==
  ASSUME NEW b, NEW h, Faithful(b, h)
  PROVE  Proper(h)
<1>1. /\ b \in Book /\ Sound(b) /\ Indexed(b) /\ h \in Shadow /\ DOMAIN h.book = DOMAIN b.ids
      /\ \A i \in DOMAIN b.ids : h.book[i] = LineOf(b.pool[b.ids[i]])
  BY FaithfulIs
<1> DEFINE D == DOMAIN b.ids
<1>2. b.ids \in [D -> Slots]
  BY <1>1, IndexIs DEF Book
<1>3. \A i, j \in D : b.ids[i] = b.ids[j] => i = j
  BY <1>1 DEF Indexed
<1>4. IsFiniteSet(D)
  <2>1. IsFiniteSet(Slots)
    BY SetsOfSlots
  <2>2. b.ids \in Injection(D, Slots)
    <3> HIDE DEF D
    <3> QED
      BY <1>2, <1>3 DEF Injection, IsInjective
  <2> HIDE DEF D
  <2> QED
    BY <2>1, <2>2, FS_Injection
<1>5. h.ahead \subseteq D \X D
  BY DEF Faithful, Mirror
<1>6. \A i \in D : h.book[i].qty \in Nat \ {0}
  <2> TAKE i \in D
  <2> DEFINE o == b.pool[b.ids[i]]
  <2>1. h.book[i] = LineOf(o) /\ o.qty \in Nat \ {0}
    BY <1>1, NamedIs
  <2>2. LineOf(o).qty = o.qty
    BY DEF LineOf
  <2> QED
    BY <2>1, <2>2
<1> QED
  BY <1>1, <1>4, <1>5, <1>6 DEF Proper

\* The taker is left with what nobody gave.
LEMMA LeftOverIs ==
  ASSUME NEW q, NEW f
  PROVE  Promise!Remainder(q, f) = q - Total(f)
BY DEF Promise!Remainder, Promise!FoldFunction, Promise!FoldFunctionOnSet, Promise!MapThenFoldSet,
       Total, FoldFunction, FoldFunctionOnSet, MapThenFoldSet

\* What match leaves of a taker of q is what the promise says: f are the fills.
Matched(h, l, q, r, side, limit, f) ==
  /\ f \in [Promise!Eligible(h.book, side, limit) -> 0 .. q]
  /\ Promise!Remainder(q, f) = r
  /\ Promise!Filling(h.book, h.ahead, side, limit, q, f)
  /\ l.fills = Promise!Given(f)
  /\ l.book = Promise!AfterFills(h.book, f)
  /\ l.ahead = Promise!QueueOnly(h.ahead, DOMAIN l.book)

\* A call that has nobody left to fill or nothing left to ask for is done.
LEMMA PartlyEnds ==
  ASSUME NEW h, Proper(h), NEW q \in Nat, NEW l, NEW r, NEW side \in Sides, NEW limit,
         Partly(h, q, l, r, side, limit),
         r = 0 \/ \A i \in DOMAIN l.book :
                     ~(l.book[i].side = Opposite(side) /\ Reaches(side, limit, l.book[i].tick))
  PROVE  Matched(h, l, q, r, side, limit, Gives(h, l, side, limit))
<1> DEFINE E == Reach(h, side, limit)
           f == Gives(h, l, side, limit)
<1>1. /\ l \in Shadow /\ r \in Nat /\ r + Total(f) = q
      /\ DOMAIN l.fills \subseteq E /\ \A i \in DOMAIN l.fills : l.fills[i] \in Nat \ {0}
      /\ \A i \in E : f[i] <= h.book[i].qty
      /\ DOMAIN l.book = Promise!Survivors(h.book, f)
      /\ \A i \in DOMAIN l.book :
          /\ l.book[i].side = h.book[i].side /\ l.book[i].tick = h.book[i].tick
          /\ l.book[i].qty = h.book[i].qty - (IF i \in E THEN f[i] ELSE 0)
      /\ l.ahead = Promise!QueueOnly(h.ahead, DOMAIN l.book)
      /\ \A i, j \in E : f[j] > 0 /\ Promise!Before(h.book, h.ahead, i, j) => f[i] = h.book[i].qty
  BY DEF Partly
<1>2. DOMAIN f = E /\ E \subseteq DOMAIN h.book
  <2>1. DOMAIN f = E
    BY GivesIs
  <2>2. E \subseteq DOMAIN h.book
    BY GivesIs
  <2> QED
    BY <2>1, <2>2
<1>3. \A i \in E : f[i] = IF i \in DOMAIN l.fills THEN l.fills[i] ELSE 0
  BY GivesIs
<1>4. \A i \in E : h.book[i].side = Opposite(side) /\ Reaches(side, limit, h.book[i].tick)
  <2>1. \A i \in E : f[i] = (IF i \in DOMAIN l.fills THEN l.fills[i] ELSE 0)
                     /\ h.book[i].side = Opposite(side) /\ Reaches(side, limit, h.book[i].tick)
    BY GivesIs
  <2> QED
    BY <2>1
<1>5. f = [i \in E |-> f[i]]
  BY DEF Gives
<1>6. Reach(h, side, limit) = Promise!Eligible(h.book, side, limit)
  BY DEF Reach
<1> HIDE DEF E, f
<1>7. \A i \in E : f[i] \in Nat
  BY <1>1, <1>3
<1>8. IsFiniteSet(E)
  BY <1>2, FS_Subset DEF Proper
<1>9. Total(f) \in Nat /\ \A i \in E : f[i] <= Total(f)
  BY <1>2, <1>7, <1>8, TotalBounds
<1>10. Total(f) <= q /\ q - Total(f) = r
  BY <1>1, <1>9
<1>11. f \in [E -> 0 .. q]
  <2>1. \A i \in E : f[i] \in 0 .. q
    BY <1>7, <1>9, <1>10
  <2> QED
    BY <1>5, <2>1
<1>12. Promise!Remainder(q, f) = r
  BY <1>10, LeftOverIs
<1>13. h \in Shadow /\ \A i \in DOMAIN h.book : h.book[i].qty \in Nat \ {0}
  BY DEF Proper
<1>14. r > 0 => \A i \in E : f[i] = h.book[i].qty
  <2> SUFFICES ASSUME r > 0, NEW i \in E, f[i] # h.book[i].qty PROVE FALSE
    OBVIOUS
  <2>1. i \in DOMAIN h.book /\ f[i] < h.book[i].qty
    BY <1>1, <1>2, <1>7, <1>13
  <2>2. i \in DOMAIN l.book
    BY <1>1, <2>1 DEF Promise!Survivors
  <2>3. l.book[i].side = Opposite(side) /\ Reaches(side, limit, l.book[i].tick)
    BY <1>1, <1>4, <2>2
  <2> QED
    BY <2>2, <2>3
<1>15. Promise!Filling(h.book, h.ahead, side, limit, q, f)
  <2>1. r \in 0 .. q
    BY <1>1, <1>9
  <2>2. E = Promise!Eligible(h.book, side, limit)
    BY <1>6 DEF E
  <2> QED
    BY <1>1, <1>12, <1>14, <2>1, <2>2 DEF Promise!Filling
<1>16. l.fills = Promise!Given(f)
  <2>1. l.fills = [i \in DOMAIN l.fills |-> l.fills[i]]
    BY <1>1, ShadowIs
  <2>2. DOMAIN l.fills = {j \in DOMAIN f : f[j] > 0}
    BY <1>1, <1>2, <1>3
  <2>3. \A i \in DOMAIN l.fills : l.fills[i] = f[i]
    BY <1>1, <1>3
  <2> QED
    BY <2>1, <2>2, <2>3 DEF Promise!Given
<1>17. l.book = Promise!AfterFills(h.book, f)
  <2> DEFINE a == Promise!AfterFills(h.book, f)
             c(i) == IF i \in DOMAIN f THEN [h.book[i] EXCEPT !.qty = @ - f[i]] ELSE h.book[i]
  <2>1. a = [i \in Promise!Survivors(h.book, f) |-> c(i)]
    BY DEF Promise!AfterFills
  <2>2. l.book = [i \in DOMAIN l.book |-> l.book[i]] /\ l.book \in [DOMAIN l.book -> Lines]
    BY <1>1, ShadowIs
  <2>3. ASSUME NEW i \in DOMAIN l.book PROVE l.book[i] = c(i)
    <3>1. i \in DOMAIN h.book /\ h.book[i] \in Lines /\ l.book[i] \in Lines
      BY <1>1, <1>13, <2>2, <2>3, ShadowIs DEF Promise!Survivors
    <3>2. /\ l.book[i].side = h.book[i].side /\ l.book[i].tick = h.book[i].tick
          /\ l.book[i].qty = h.book[i].qty - (IF i \in E THEN f[i] ELSE 0)
      BY <1>1, <2>3
    <3>3. \A x, y \in Lines : x.side = y.side /\ x.tick = y.tick /\ x.qty = y.qty => x = y
      BY DEF Lines
    <3>4. \A x \in Lines, d \in Int : /\ [x EXCEPT !.qty = @ - d] \in Lines
                                      /\ [x EXCEPT !.qty = @ - d].side = x.side
                                      /\ [x EXCEPT !.qty = @ - d].tick = x.tick
                                      /\ [x EXCEPT !.qty = @ - d].qty = x.qty - d
      BY DEF Lines
    <3>5. CASE i \in E
      <4> DEFINE y == [h.book[i] EXCEPT !.qty = @ - f[i]]
      <4>1. c(i) = y /\ f[i] \in Int
        BY <1>2, <1>7, <3>5
      <4>2. /\ y \in Lines /\ y.side = h.book[i].side /\ y.tick = h.book[i].tick
            /\ y.qty = h.book[i].qty - f[i]
        <5>1. h.book[i] \in Lines /\ f[i] \in Int
          BY <3>1, <4>1
        <5> QED
          BY <3>4, <5>1
      <4>3. l.book[i].qty = h.book[i].qty - f[i]
        BY <3>2, <3>5
      <4> HIDE DEF c, y
      <4>4. l.book[i] = y
        BY <3>1, <3>2, <3>3, <4>2, <4>3
      <4> QED
        BY <4>1, <4>4
    <3>6. CASE i \notin E
      <4>1. c(i) = h.book[i]
        BY <1>2, <3>6
      <4>2. h.book[i].qty - 0 = h.book[i].qty
        BY <1>13, <3>1
      <4> HIDE DEF c
      <4> QED
        BY <3>1, <3>2, <3>3, <3>6, <4>1, <4>2
    <3> QED
      BY <3>5, <3>6
  <2> HIDE DEF c
  <2>4. DOMAIN l.book = Promise!Survivors(h.book, f)
    BY <1>1
  <2> QED
    BY <2>1, <2>2, <2>3, <2>4
<1> QED
  BY <1>1, <1>6, <1>11, <1>12, <1>15, <1>16, <1>17 DEF Matched, E, f

\* Nobody an observer knows of trades with an order the best price keeps out.
LEMMA AloneIs ==
  ASSUME NEW b, NEW h, Faithful(b, h), Settled(b), NEW t \in Sides, NEW limit \in Int
  PROVE  Alone(b, t, limit) <=>
           \A i \in DOMAIN h.book : ~(h.book[i].side = Opposite(t) /\ Reaches(t, limit, h.book[i].tick))
<1>1. /\ b \in Book /\ Sound(b) /\ Indexed(b) /\ DOMAIN h.book = DOMAIN b.ids
      /\ \A i \in DOMAIN b.ids : h.book[i] = LineOf(b.pool[b.ids[i]])
  BY FaithfulIs
<1>2. TopIs(b, t)
  BY DEF Settled, Sides
<1>3. ASSUME NEW i \in DOMAIN h.book
      PROVE  /\ b.ids[i] \in LiveSlots(b)
             /\ h.book[i].side = b.pool[b.ids[i]].side /\ h.book[i].tick = b.pool[b.ids[i]].tick
             /\ h.book[i].tick \in Int
  <2> DEFINE o == b.pool[b.ids[i]]
  <2>1. h.book[i] = LineOf(o) /\ b.ids[i] \in LiveSlots(b) /\ o \in SlotType
    BY <1>1, NamedIs
  <2>2. LineOf(o).side = o.side /\ LineOf(o).tick = o.tick
    BY DEF LineOf
  <2>3. o.tick \in Int
    BY <2>1 DEF SlotType
  <2> QED
    BY <2>1, <2>2, <2>3
<1>4. ASSUME Alone(b, t, limit), NEW i \in DOMAIN h.book, h.book[i].side = Opposite(t),
             Reaches(t, limit, h.book[i].tick)
      PROVE  FALSE
  <2>1. b.ids[i] \in Makers(b, t)
    BY <1>3, <1>4 DEF Makers
  <2>2. BestFor(b, t) # InvalidTick
    BY <1>2, <2>1 DEF TopIs
  <2>3. ~Reaches(t, limit, BestFor(b, t)) /\ BestFor(b, t) \in Int
    BY <1>1, <1>4, <2>2 DEF Alone, BestFor, Book
  <2>4. ~Better(t, h.book[i].tick, BestFor(b, t))
    BY <1>4, <2>2, BestIsNearest DEF NoneNearer
  <2> HIDE DEF BestFor
  <2> QED
    BY <1>3, <1>4, <2>3, <2>4 DEF Reaches, Better
<1>5. ASSUME ~Alone(b, t, limit)
      PROVE  \E i \in DOMAIN h.book : h.book[i].side = Opposite(t) /\ Reaches(t, limit, h.book[i].tick)
  <2>1. BestFor(b, t) # InvalidTick /\ Reaches(t, limit, BestFor(b, t))
    BY <1>5 DEF Alone
  <2>2. PICK s \in Makers(b, t) : b.pool[s].tick = BestFor(b, t)
    BY <1>2, <2>1 DEF TopIs, SomeoneAt
  <2>3. s \in LiveSlots(b) /\ b.pool[s].side = Opposite(t)
    BY DEF Makers
  <2>4. b.pool[s].id \in DOMAIN h.book /\ b.ids[b.pool[s].id] = s
    BY <1>1, <2>3 DEF Sound
  <2> QED
    BY <1>3, <2>1, <2>2, <2>3, <2>4
<1> QED
  BY <1>4, <1>5

\* match fills whom the promise says.
LEMMA MatchKeepsPromise ==
  ASSUME NEW m, NEW sh, Good(m, sh), Settled(m.b), DOMAIN Told(sh, m.events).fills = {},
         NEW side \in Sides, NEW limit \in Int
  PROVE  LET h == Told(sh, m.events)
             n == Match(m, side, limit)
             l == Told(sh, n.events)
         IN Matched(h, l, m.qty, n.qty, side, limit, Gives(h, l, side, limit))
<1> DEFINE h == Told(sh, m.events)
           n == Match(m, side, limit)
           l == Told(sh, n.events)
<1>1. Faithful(m.b, h) /\ m.qty \in Nat
  BY DEF Good
<1>2. Proper(h)
  BY <1>1, FaithfulIsProper
<1>3. Partly(h, m.qty, h, m.qty, side, limit)
  BY <1>1, <1>2, PartlyBegins
<1>4. BetweenLevels(h, m.qty, m, sh, side, limit)
  BY <1>3 DEF BetweenLevels
<1>5. BetweenLevels(h, m.qty, n, sh, side, limit)
  BY <1>1, <1>2, <1>4, MatchFills
<1>6. Good(n, sh) /\ Settled(n.b) /\ Done(n, side, limit)
  BY MatchIs
<1> HIDE DEF n, h
<1>7. Partly(h, m.qty, l, n.qty, side, limit) /\ Faithful(n.b, l)
  BY <1>5, <1>6 DEF BetweenLevels, Good
<1> HIDE DEF l
<1>8. n.qty = 0 \/ \A i \in DOMAIN l.book :
                     ~(l.book[i].side = Opposite(side) /\ Reaches(side, limit, l.book[i].tick))
  BY <1>6, <1>7, AloneIs DEF Done
<1>9. Matched(h, l, m.qty, n.qty, side, limit, Gives(h, l, side, limit))
  BY <1>1, <1>2, <1>7, <1>8, PartlyEnds
<1> QED
  BY <1>9 DEF h, n, l

-----------------------------------------------------------------------------
(***************************************************************************)
(* What a limit could take.                                                 *)
(***************************************************************************)

\* Two sets of slots that share none weigh together what each weighs.
LEMMA WeighsBoth ==
  ASSUME NEW b \in Book, NEW M, Weighs(M, b), NEW S \in SUBSET Slots, NEW R \in SUBSET Slots,
         S \intersect R = {}
  PROVE  M[S \union R] = M[S] + M[R]
<1> DEFINE T == {Q \in SUBSET R : M[S \union Q] # M[S] + M[Q]}
<1>1. T = {}
  <2> SUFFICES ASSUME T # {} PROVE FALSE
    OBVIOUS
  <2>1. PICK Q \in T : \A x \in Q : Q \ {x} \notin T
    <3>1. T \in SUBSET (SUBSET R) /\ IsFiniteSet(R)
      BY SetsOfSlots
    <3> HIDE DEF T
    <3> QED
      BY <3>1, LeastSet
  <2>2. Q \in SUBSET R /\ M[S \union Q] # M[S] + M[Q]
    BY <2>1
  <2>3. CASE Q = {}
    <3>1. M[{}] = 0 /\ M[S] \in Int /\ S \union Q = S
      BY <2>3 DEF Weighs
    <3> QED
      BY <2>2, <2>3, <3>1
  <2>4. CASE Q # {}
    <3>1. PICK x : x \in Q
      BY <2>4
    <3>2. M[S \union (Q \ {x})] = M[S] + M[Q \ {x}]
      BY <2>1, <2>2, <3>1
    <3>3. M[S \union Q] = M[(S \union Q) \ {x}] + b.pool[x].qty /\ b.pool[x].qty \in Int
      BY <2>2, <3>1, WeighsPart
    <3>4. M[Q] = M[Q \ {x}] + b.pool[x].qty
      BY <2>2, <3>1, WeighsPart
    <3>5. (S \union Q) \ {x} = S \union (Q \ {x})
      BY <2>2, <3>1
    <3>6. M[S] \in Int /\ M[Q \ {x}] \in Int
      <4>1. M \in [SUBSET Slots -> Nat]
        BY DEF Weighs
      <4>2. Q \ {x} \in SUBSET Slots
        BY <2>2
      <4> QED
        BY <4>1, <4>2
    <3>7. M[S \union Q] = (M[S] + M[Q \ {x}]) + b.pool[x].qty
      BY <3>2, <3>3, <3>5
    <3>8. \A u, v, y \in Int : (u + v) + y = u + (v + y)
      OBVIOUS
    <3>9. M[S \union Q] = M[S] + M[Q]
      BY <3>3, <3>4, <3>6, <3>7, <3>8
    <3> QED
      BY <2>2, <3>9
  <2> QED
    BY <2>3, <2>4
<1>2. R \in SUBSET R
  OBVIOUS
<1> QED
  BY <1>1, <1>2

\* The slots of the makers a limit reaches.
Within(b, side, limit) == {s \in Makers(b, side) : Reaches(side, limit, b.pool[s].tick)}

\* The makers met before level i.
Passed(b, side, i) ==
  {s \in Makers(b, side) : i = Npos \/ Better(side, b.pool[s].tick, TickOf(i))}

\* The walk of available has come to w in k steps.
Walking(b, M, side, limit, w, k) ==
  /\ w = [at |-> w.at, qty |-> w.qty]
  /\ w.qty = M[Passed(b, side, w.at)]
  /\ Passed(b, side, w.at) \subseteq Within(b, side, limit)
  /\ w.at # Npos => w.at \in Levels /\ At(b, w.at) # {} /\ At(b, w.at) \subseteq Makers(b, side)
  /\ \/ w.at = Npos \/ ~Reaches(side, limit, TickOf(w.at))
     \/ k <= IF side = "Buy" THEN w.at ELSE LevelCount - 1 - w.at

\* The bitmap leads from a level of makers to the next one behind it.
LEMMA BeyondIs ==
  ASSUME NEW b \in Book, Sound(b), Settled(b), NEW side \in Sides, NEW i \in Levels
  PROVE  LET r == Beyond(b, side, i) IN
         /\ r = Npos \/ r \in Taken(b)
         /\ side = "Buy" => NearestUp(Taken(b), i + 1, r)
         /\ side = "Sell" => IF r = Npos THEN \A j \in Taken(b) : j >= i
                             ELSE r < i /\ \A j \in Taken(b) : j < i => j <= r
<1> DEFINE r == Beyond(b, side, i)
<1>1. Marks(b, Taken(b)) /\ Taken(b) \in SUBSET Levels
  BY DEF Settled, Taken
<1>2. i \in Nat /\ LevelCount \in Nat \ {0} /\ i <= LevelCount - 1 /\ Taken(b) \subseteq Nat
  BY <1>1, LevelsAre DEF Levels
<1>3. CASE side = "Buy"
  <2>1. r = ScanUp(b, i + 1)
    BY <1>3 DEF Beyond
  <2>2. i + 1 \in 0 .. LevelCount
    BY <1>2
  <2>3. NearestUp(Taken(b), i + 1, r)
    BY <1>1, <2>1, <2>2, ScanUpIs
  <2> HIDE DEF r
  <2>4. r = Npos \/ r \in Taken(b)
    BY <2>3 DEF NearestUp
  <2> QED
    BY <1>3, <2>3, <2>4 DEF r
<1>4. CASE side = "Sell"
  <2>1. r = IF i = 0 THEN Npos ELSE ScanDown(b, i - 1)
    BY <1>4 DEF Beyond
  <2>2. CASE i = 0
    <3>1. r = Npos /\ \A j \in Taken(b) : j >= i
      BY <1>2, <2>1, <2>2
    <3> QED
      BY <1>4, <3>1
  <2>3. CASE i # 0
    <3>1. i - 1 \in Levels
      BY <1>2, <2>3 DEF Levels
    <3>2. NearestDown(Taken(b), i - 1, r)
      BY <1>1, <2>1, <2>3, <3>1, ScanDownIs
    <3> HIDE DEF r
    <3>3. CASE r = Npos
      <4>1. \A j \in Taken(b) : i - 1 < j
        BY <3>2, <3>3 DEF NearestDown
      <4>2. \A j \in Taken(b) : j >= i
        BY <1>2, <4>1
      <4> QED
        BY <1>4, <3>3, <4>2 DEF r
    <3>4. CASE r # Npos
      <4>1. r \in Taken(b) /\ r <= i - 1 /\ \A j \in Taken(b) : j <= i - 1 => j <= r
        BY <3>2, <3>4 DEF NearestDown
      <4>2. r < i /\ \A j \in Taken(b) : j < i => j <= r
        BY <1>2, <4>1
      <4> QED
        BY <1>4, <3>4, <4>1, <4>2 DEF r
    <3> QED
      BY <3>3, <3>4
  <2> QED
    BY <2>2, <2>3
<1> QED
  BY <1>3, <1>4 DEF Sides

\* Behind makers there are only makers.
LEMMA MakersBeyond ==
  ASSUME NEW b \in Book, Sound(b), Settled(b), NEW side \in Sides, NEW i \in Levels,
         At(b, i) # {}, At(b, i) \subseteq Makers(b, side), NEW j \in Levels,
         Better(side, TickOf(i), TickOf(j))
  PROVE  At(b, j) \subseteq Makers(b, side)
<1> SUFFICES ASSUME NEW s \in At(b, j), s \notin Makers(b, side) PROVE FALSE
  OBVIOUS
<1>1. PICK r : r \in At(b, i) /\ r \in Makers(b, side)
  OBVIOUS
<1>2. /\ s \in LiveSlots(b) /\ b.pool[s].tick = TickOf(j) /\ b.pool[s] \in SlotType
      /\ r \in LiveSlots(b) /\ b.pool[r].tick = TickOf(i) /\ b.pool[r].side = Opposite(side)
  BY <1>1, OrderIs DEF At, Makers
<1>3. b.pool[s].side \in Sides /\ b.pool[s].side # Opposite(side)
  BY <1>2 DEF Makers, SlotType
<1>4. TickOf(i) \in Int /\ TickOf(j) \in Int
  BY LevelsAre, TicksAre
<1>5. Apart(b)
  BY DEF Settled
<1>6. CASE side = "Buy"
  <2>1. b.pool[s].side = "Buy" /\ b.pool[r].side = "Sell"
    BY <1>2, <1>3, <1>6 DEF Opposite, Sides
  <2>2. b.pool[s].tick < b.pool[r].tick
    BY <1>2, <1>5, <2>1 DEF Apart
  <2>3. TickOf(i) < TickOf(j)
    BY <1>6 DEF Better
  <2> QED
    BY <1>2, <1>4, <2>2, <2>3
<1>7. CASE side = "Sell"
  <2>1. b.pool[s].side = "Sell" /\ b.pool[r].side = "Buy"
    BY <1>2, <1>3, <1>7 DEF Opposite, Sides
  <2>2. b.pool[r].tick < b.pool[s].tick
    BY <1>2, <1>5, <2>1 DEF Apart
  <2>3. TickOf(i) > TickOf(j)
    BY <1>7 DEF Better
  <2> QED
    BY <1>2, <1>4, <2>2, <2>3
<1> QED
  BY <1>6, <1>7 DEF Sides

\* Two prices compare as the levels they are at.
LEMMA LevelOrder ==
  ASSUME NEW i \in Int, NEW j \in Int
  PROVE  /\ Better("Buy", TickOf(i), TickOf(j)) <=> i < j
         /\ Better("Sell", TickOf(i), TickOf(j)) <=> j < i
         /\ TickOf(i) = TickOf(j) <=> i = j
BY BookAssumption DEF Better, TickOf

\* The makers met before the next level are those met before, and this level.
LEMMA PassedMore ==
  ASSUME NEW b \in Book, Sound(b), Settled(b), NEW side \in Sides, NEW i \in Levels,
         At(b, i) # {}, At(b, i) \subseteq Makers(b, side)
  PROVE  LET r == Beyond(b, side, i) IN
         /\ Passed(b, side, r) = Passed(b, side, i) \union At(b, i)
         /\ Passed(b, side, i) \intersect At(b, i) = {}
         /\ r # Npos => /\ r \in Levels /\ At(b, r) # {}
                        /\ Better(side, TickOf(i), TickOf(r))
<1> DEFINE r == Beyond(b, side, i)
<1>1. /\ r = Npos \/ r \in Taken(b)
      /\ side = "Buy" => NearestUp(Taken(b), i + 1, r)
      /\ side = "Sell" => IF r = Npos THEN \A j \in Taken(b) : j >= i
                          ELSE r < i /\ \A j \in Taken(b) : j < i => j <= r
  BY BeyondIs
<1> HIDE DEF r
<1>2. r # Npos => r \in Levels /\ At(b, r) # {}
  BY <1>1 DEF Taken
<1>3. i \in Int /\ (r # Npos => r \in Int)
  <2>1. Levels \subseteq Int
    BY LevelsAre
  <2> QED
    BY <1>2, <2>1
<1>4. r # Npos => Better(side, TickOf(i), TickOf(r))
  <2> SUFFICES ASSUME r # Npos PROVE Better(side, TickOf(i), TickOf(r))
    OBVIOUS
  <2>1. CASE side = "Buy"
    <3>1. i < r
      BY <1>1, <1>3, <2>1 DEF NearestUp
    <3> QED
      BY <1>3, <2>1, <3>1, LevelOrder
  <2>2. CASE side = "Sell"
    <3>1. r < i
      BY <1>1, <2>2
    <3> QED
      BY <1>3, <2>2, <3>1, LevelOrder
  <2> QED
    BY <2>1, <2>2 DEF Sides
<1>5. ASSUME NEW s \in Makers(b, side)
      PROVE  /\ s \in Passed(b, side, r) <=> s \in Passed(b, side, i) \/ s \in At(b, i)
             /\ ~(s \in Passed(b, side, i) /\ s \in At(b, i))
  <2>1. s \in LiveSlots(b) /\ b.pool[s].tick \in Ticks
    BY DEF Makers, Sound
  <2> DEFINE j == Idx(b.pool[s].tick)
  <2>2. j \in Levels /\ TickOf(j) = b.pool[s].tick /\ s \in At(b, j) /\ j \in Taken(b)
    <3>1. j \in Levels /\ TickOf(j) = b.pool[s].tick
      BY <2>1, LevelsAre
    <3>2. s \in At(b, j)
      BY <2>1, <3>1 DEF At
    <3> QED
      BY <3>1, <3>2 DEF Taken
  <2> HIDE DEF j
  <2>3. j \in Int
    BY <2>2, LevelsAre
  <2>4. s \in At(b, i) <=> j = i
    <3>1. s \in At(b, i) <=> TickOf(j) = TickOf(i)
      BY <2>1, <2>2 DEF At
    <3> QED
      BY <1>3, <2>3, <3>1, LevelOrder
  <2>5. i # Npos
    BY LevelsAre DEF Npos
  <2>6. CASE side = "Buy"
    <3>1. s \in Passed(b, side, i) <=> j < i
      BY <1>3, <2>2, <2>3, <2>5, <2>6, LevelOrder DEF Passed
    <3>2. s \in Passed(b, side, r) <=> r = Npos \/ j < r
      BY <1>3, <2>2, <2>3, <2>6, LevelOrder DEF Passed
    <3>3. (r = Npos \/ j < r) <=> j <= i
      BY <1>1, <1>3, <2>2, <2>3, <2>6 DEF NearestUp
    <3> QED
      BY <1>3, <2>3, <2>4, <3>1, <3>2, <3>3
  <2>7. CASE side = "Sell"
    <3>1. s \in Passed(b, side, i) <=> i < j
      BY <1>3, <2>2, <2>3, <2>5, <2>7, LevelOrder DEF Passed
    <3>2. s \in Passed(b, side, r) <=> r = Npos \/ r < j
      BY <1>3, <2>2, <2>3, <2>7, LevelOrder DEF Passed
    <3>3. (r = Npos \/ r < j) <=> i <= j
      BY <1>1, <1>3, <2>2, <2>3, <2>7
    <3> QED
      BY <1>3, <2>3, <2>4, <3>1, <3>2, <3>3
  <2> QED
    BY <2>6, <2>7 DEF Sides
<1>6. /\ Passed(b, side, r) \subseteq Makers(b, side)
      /\ Passed(b, side, i) \subseteq Makers(b, side)
  BY DEF Passed
<1>7. /\ Passed(b, side, r) = Passed(b, side, i) \union At(b, i)
      /\ Passed(b, side, i) \intersect At(b, i) = {}
  BY <1>5, <1>6
<1> QED
  BY <1>2, <1>4, <1>7 DEF r

\* One level further.
LEMMA OnwardIs ==
  ASSUME NEW b, NEW age, NEW now, NEW M, Kept(b, age, now, M), Settled(b), NEW side \in Sides,
         NEW limit, NEW w, NEW k \in Nat, Walking(b, M, side, limit, w, k)
  PROVE  Walking(b, M, side, limit, Onward(w, b, side, limit), k + 1)
<1>1. /\ w = [at |-> w.at, qty |-> w.qty]
      /\ w.qty = M[Passed(b, side, w.at)]
      /\ Passed(b, side, w.at) \subseteq Within(b, side, limit)
      /\ w.at # Npos => w.at \in Levels /\ At(b, w.at) # {} /\ At(b, w.at) \subseteq Makers(b, side)
      /\ \/ w.at = Npos \/ ~Reaches(side, limit, TickOf(w.at))
         \/ k <= IF side = "Buy" THEN w.at ELSE LevelCount - 1 - w.at
  BY DEF Walking
<1>2. b \in Book /\ Sound(b) /\ Weighs(M, b) /\ Counted(b, M)
  BY DEF Kept
<1>3. CASE w.at = Npos \/ ~Reaches(side, limit, TickOf(w.at))
  <2>1. Onward(w, b, side, limit) = w
    BY <1>3 DEF Onward
  <2> QED
    BY <1>1, <1>3, <2>1 DEF Walking
<1>4. CASE ~(w.at = Npos \/ ~Reaches(side, limit, TickOf(w.at)))
  <2> DEFINE i == w.at
             r == Beyond(b, side, i)
             v == Onward(w, b, side, limit)
  <2>1. v = [at |-> r, qty |-> w.qty + b.levels[i].qty]
    BY <1>4 DEF Onward
  <2>2. v = [at |-> v.at, qty |-> v.qty] /\ v.at = r /\ v.qty = w.qty + b.levels[i].qty
    BY <2>1
  <2>3. i \in Levels /\ At(b, i) # {} /\ At(b, i) \subseteq Makers(b, side) /\ i # Npos
    BY <1>1, <1>4
  <2>4. /\ Passed(b, side, r) = Passed(b, side, i) \union At(b, i)
        /\ Passed(b, side, i) \intersect At(b, i) = {}
        /\ r # Npos => r \in Levels /\ At(b, r) # {} /\ Better(side, TickOf(i), TickOf(r))
    BY <1>2, <2>3, PassedMore
  <2> HIDE DEF r, v
  <2>5. Passed(b, side, i) \in SUBSET Slots /\ At(b, i) \in SUBSET Slots
    BY DEF Passed, Makers, LiveSlots, At
  <2>6. M[Passed(b, side, r)] = v.qty
    <3>1. b.levels[i].qty = M[At(b, i)]
      BY <1>2, <2>3 DEF Counted
    <3>2. M[Passed(b, side, i) \union At(b, i)] = M[Passed(b, side, i)] + M[At(b, i)]
      BY <1>2, <2>4, <2>5, WeighsBoth
    <3> QED
      BY <1>1, <2>2, <2>4, <3>1, <3>2
  <2>7. Passed(b, side, r) \subseteq Within(b, side, limit)
    <3>1. At(b, i) \subseteq Within(b, side, limit)
      <4>1. \A s \in At(b, i) : s \in Makers(b, side) /\ b.pool[s].tick = TickOf(i)
        BY <2>3 DEF At
      <4> QED
        BY <1>4, <4>1 DEF Within
    <3> QED
      BY <1>1, <2>4, <3>1
  <2>8. r # Npos => r \in Levels /\ At(b, r) # {} /\ At(b, r) \subseteq Makers(b, side)
    BY <1>2, <2>3, <2>4, MakersBeyond
  <2>9. r = Npos \/ k + 1 <= IF side = "Buy" THEN r ELSE LevelCount - 1 - r
    <3> SUFFICES ASSUME r # Npos PROVE k + 1 <= IF side = "Buy" THEN r ELSE LevelCount - 1 - r
      OBVIOUS
    <3>1. i \in Int /\ r \in Int /\ LevelCount \in Int
      <4>1. Levels \subseteq Int /\ LevelCount \in Int
        BY LevelsAre
      <4> QED
        BY <2>3, <2>4, <4>1
    <3>2. k <= IF side = "Buy" THEN i ELSE LevelCount - 1 - i
      BY <1>1, <1>4
    <3>3. CASE side = "Buy"
      <4>1. i < r
        BY <2>4, <3>1, <3>3, LevelOrder
      <4> QED
        BY <3>1, <3>2, <3>3, <4>1
    <3>4. CASE side = "Sell"
      <4>1. r < i
        BY <2>4, <3>1, <3>4, LevelOrder
      <4> QED
        BY <3>1, <3>2, <3>4, <4>1
    <3> QED
      BY <3>3, <3>4 DEF Sides
  <2>10. Walking(b, M, side, limit, v, k + 1)
    BY <2>2, <2>6, <2>7, <2>8, <2>9 DEF Walking
  <2> QED
    BY <2>10 DEF v
<1> QED
  BY <1>3, <1>4

\* A walk of as many steps as there are levels has met all that the limit reaches.
LEMMA WalkEnds ==
  ASSUME NEW b, NEW M, NEW side \in Sides, NEW limit \in Int, NEW w, b \in Book, Sound(b),
         Walking(b, M, side, limit, w, LevelCount)
  PROVE  w.qty = M[Within(b, side, limit)] /\ Passed(b, side, w.at) = Within(b, side, limit)
<1>1. /\ w.qty = M[Passed(b, side, w.at)]
      /\ Passed(b, side, w.at) \subseteq Within(b, side, limit)
      /\ w.at # Npos => w.at \in Levels
      /\ \/ w.at = Npos \/ ~Reaches(side, limit, TickOf(w.at))
         \/ LevelCount <= IF side = "Buy" THEN w.at ELSE LevelCount - 1 - w.at
  BY DEF Walking
<1>2. w.at = Npos \/ ~Reaches(side, limit, TickOf(w.at))
  <2> SUFFICES ASSUME w.at # Npos, Reaches(side, limit, TickOf(w.at)) PROVE FALSE
    OBVIOUS
  <2>1. w.at \in Nat /\ w.at <= LevelCount - 1 /\ LevelCount \in Nat
    BY <1>1, LevelsAre DEF Levels
  <2> QED
    BY <1>1, <2>1
<1>3. ASSUME NEW s \in Within(b, side, limit) PROVE s \in Passed(b, side, w.at)
  <2>1. s \in Makers(b, side) /\ Reaches(side, limit, b.pool[s].tick)
    BY DEF Within
  <2>2. b.pool[s].tick \in Int
    BY <2>1, TicksAre DEF Makers, Sound
  <2>3. CASE w.at = Npos
    BY <2>1, <2>3 DEF Passed
  <2>4. CASE w.at # Npos
    <3>1. ~Reaches(side, limit, TickOf(w.at)) /\ TickOf(w.at) \in Int
      BY <1>1, <1>2, <2>4, LevelsAre, TicksAre
    <3>2. Better(side, b.pool[s].tick, TickOf(w.at))
      BY <2>1, <2>2, <3>1 DEF Reaches, Better
    <3> QED
      BY <2>1, <3>2 DEF Passed
  <2> QED
    BY <2>3, <2>4
<1>4. Passed(b, side, w.at) = Within(b, side, limit)
  BY <1>1, <1>3
<1> QED
  BY <1>1, <1>4

\* f is the walk of `available` over the levels, one pass after another.
WalkPasses(f, b, side, limit, i) ==
  f = [k \in 0 .. LevelCount |->
         IF k = 0 THEN [at |-> i, qty |-> 0]
         ELSE LET w == f[k - 1] IN
              IF w.at = Npos \/ ~Reaches(side, limit, TickOf(w.at)) THEN w
              ELSE [at |-> Beyond(b, side, w.at), qty |-> w.qty + b.levels[w.at].qty]]

\* available is such a walk.
LEMMA AvailableRuns ==
  ASSUME NEW b, NEW side, NEW limit, NEW i
  PROVE  \E F : /\ F[0] = [at |-> i, qty |-> 0]
                /\ \A k \in 1 .. LevelCount : F[k] = Onward(F[k - 1], b, side, limit)
                /\ AvailableFrom(b, side, limit, i) = F[LevelCount].qty
<1> DEFINE p == CHOOSE f : WalkPasses(f, b, side, limit, i)
           y == <<side, limit>>
           m == [at |-> i, qty |-> 0]
<1>1. LevelCount \in Nat
  BY LevelsAre
<1>2. \A w : Pass("walk", w, b, y) = Onward(w, b, side, limit)
  BY DEF Pass
<1>3. PICK f : Passes(f, "walk", m, b, y, LevelCount)
  <2> HIDE DEF m, y
  <2> QED
    BY <1>1, PassesExist
<1>4. f = [k \in 0 .. LevelCount |-> IF k = 0 THEN m ELSE Onward(f[k - 1], b, side, limit)]
  <2> HIDE DEF m, y
  <2> QED
    BY <1>2, <1>3 DEF Passes
<1>5. WalkPasses(f, b, side, limit, i)
  BY <1>4 DEF WalkPasses, Onward
<1>6. WalkPasses(p, b, side, limit, i)
  BY <1>5
<1>7. AvailableFrom(b, side, limit, i) = p[LevelCount].qty
  BY DEF AvailableFrom, WalkPasses
<1> HIDE DEF p
<1>8. p = [k \in 0 .. LevelCount |-> IF k = 0 THEN m ELSE Onward(p[k - 1], b, side, limit)]
  BY <1>6 DEF WalkPasses, Onward
<1> HIDE DEF m
<1>9. p[0] = m /\ \A k \in 1 .. LevelCount : p[k] = Onward(p[k - 1], b, side, limit)
  <2>1. 0 \in 0 .. LevelCount /\ \A k \in 1 .. LevelCount : k \in 0 .. LevelCount /\ k # 0
    BY <1>1
  <2> QED
    BY <1>8, <2>1
<1> QED
  BY <1>7, <1>9 DEF m

\* Wherever such a walk is, it has met the makers before that.
LEMMA WalkGoes ==
  ASSUME NEW b, NEW age, NEW now, NEW M, Kept(b, age, now, M), Settled(b), NEW side \in Sides,
         NEW limit \in Int, NEW F, Walking(b, M, side, limit, F[0], 0),
         \A k \in 1 .. LevelCount : F[k] = Onward(F[k - 1], b, side, limit)
  PROVE  \A k \in 0 .. LevelCount : Walking(b, M, side, limit, F[k], k)
<1>1. LevelCount \in Nat
  BY LevelsAre
<1> DEFINE T == {k \in 0 .. LevelCount : ~Walking(b, M, side, limit, F[k], k)}
<1>3. T = {}
  <2> SUFFICES ASSUME T # {} PROVE FALSE
    OBVIOUS
  <2>1. PICK k \in T : \A j \in T : k <= j
    <3>1. T \subseteq Nat
      BY <1>1
    <3> HIDE DEF T
    <3> QED
      BY <3>1, LeastNat
  <2>2. k \in 0 .. LevelCount /\ ~Walking(b, M, side, limit, F[k], k)
    BY <2>1
  <2>3. k # 0
    BY <2>2
  <2>4. k \in 1 .. LevelCount /\ k - 1 \in 0 .. LevelCount /\ ~(k <= k - 1) /\ k - 1 \in Nat
        /\ (k - 1) + 1 = k
    BY <1>1, <2>2, <2>3
  <2>5. Walking(b, M, side, limit, F[k - 1], k - 1)
    BY <2>1, <2>4
  <2>6. Walking(b, M, side, limit, Onward(F[k - 1], b, side, limit), (k - 1) + 1)
    BY <2>4, <2>5, OnwardIs
  <2>7. F[k] = Onward(F[k - 1], b, side, limit)
    BY <2>4
  <2> QED
    BY <2>2, <2>4, <2>6, <2>7
<1> QED
  BY <1>3

\* The walk from the best price meets what the makers within the limit weigh.
LEMMA WalkIs ==
  ASSUME NEW b, NEW age, NEW now, NEW M, Kept(b, age, now, M), Settled(b), NEW side \in Sides,
         NEW limit \in Int, NEW i, Walking(b, M, side, limit, [at |-> i, qty |-> 0], 0)
  PROVE  AvailableFrom(b, side, limit, i) = M[Within(b, side, limit)]
<1>1. LevelCount \in Nat /\ LevelCount \in 0 .. LevelCount
  BY LevelsAre
<1>2. PICK F : /\ F[0] = [at |-> i, qty |-> 0]
               /\ \A k \in 1 .. LevelCount : F[k] = Onward(F[k - 1], b, side, limit)
               /\ AvailableFrom(b, side, limit, i) = F[LevelCount].qty
  BY AvailableRuns
<1>3. Walking(b, M, side, limit, F[0], 0)
  BY <1>2
<1>4. Walking(b, M, side, limit, F[LevelCount], LevelCount)
  BY <1>1, <1>2, <1>3, WalkGoes
<1>5. b \in Book /\ Sound(b)
  BY DEF Kept
<1> QED
  BY <1>2, <1>4, <1>5, WalkEnds

\* The walk sets out from the best price, where the bitmap has its first mark.
LEMMA SetsOut ==
  ASSUME NEW b, NEW age, NEW now, NEW M, Kept(b, age, now, M), Settled(b), NEW side \in Sides,
         NEW limit \in Int, BestFor(b, side) # InvalidTick
  PROVE  LET li == Idx(BestFor(b, side)) IN
         /\ li \in Levels /\ Passed(b, side, li) = {}
         /\ (IF side = "Buy" THEN ScanUp(b, li) ELSE ScanDown(b, li)) = li
         /\ Walking(b, M, side, limit, [at |-> li, qty |-> 0], 0)
<1> DEFINE best == BestFor(b, side)
           li == Idx(best)
           i == IF side = "Buy" THEN ScanUp(b, li) ELSE ScanDown(b, li)
<1>1. b \in Book /\ Sound(b) /\ Weighs(M, b)
  BY DEF Kept
<1>2. TopIs(b, side)
  BY DEF Settled, Sides
<1>3. li \in Levels /\ At(b, li) # {} /\ Loose(b, side, li)
  BY <1>1, BestMakerIs
<1>4. NoneBetter(b, side, best) /\ SomeoneAt(b, side, best)
  BY <1>2 DEF TopIs
<1>5. TickOf(li) = best
  <2>1. best \in Int
    BY <1>1 DEF Book, BestFor
  <2> HIDE DEF best
  <2> QED
    BY <2>1, BookAssumption DEF TickOf, Idx
<1>6. Marks(b, Taken(b)) /\ Taken(b) \in SUBSET Levels /\ li \in Taken(b)
  BY <1>3 DEF Settled, Taken
<1>7. li \in 0 .. LevelCount /\ Levels \subseteq Int /\ LevelCount \in Int
  <2>1. LevelCount \in Nat
    BY LevelsAre
  <2> HIDE DEF li
  <2> QED
    BY <1>3, <2>1 DEF Levels
<1> HIDE DEF li, best
<1>8. i = li
  <2>1. li \in Int /\ li # Npos /\ \A j \in Taken(b) : j \in Int
    BY <1>3, <1>6, <1>7 DEF Levels, Npos
  <2>2. CASE side = "Buy"
    <3>1. NearestUp(Taken(b), li, i)
      BY <1>6, <1>7, <2>2, ScanUpIs
    <3> HIDE DEF i
    <3>2. i # Npos
      BY <1>6, <2>1, <3>1 DEF NearestUp
    <3>3. i \in Taken(b) /\ li <= i /\ i <= li
      BY <1>6, <2>1, <3>1, <3>2 DEF NearestUp
    <3> QED
      BY <2>1, <3>3
  <2>3. CASE side = "Sell"
    <3>1. NearestDown(Taken(b), li, i)
      BY <1>3, <1>6, <2>3, ScanDownIs
    <3> HIDE DEF i
    <3>2. i # Npos
      BY <1>6, <2>1, <3>1 DEF NearestDown
    <3>3. i \in Taken(b) /\ li <= i /\ i <= li
      BY <1>6, <2>1, <3>1, <3>2 DEF NearestDown
    <3> QED
      BY <2>1, <3>3
  <2> QED
    BY <2>2, <2>3 DEF Sides
<1>9. Passed(b, side, li) = {}
  <2>1. li # Npos
    BY <1>3, <1>7 DEF Levels, Npos
  <2> QED
    BY <1>4, <1>5, <2>1 DEF Passed, NoneBetter
<1>10. At(b, li) \subseteq Makers(b, side)
  <2>1. PICK s \in Makers(b, side) : b.pool[s].tick = best
    BY <1>4 DEF SomeoneAt
  <2>2. s \in LiveSlots(b) /\ b.pool[s].side = Opposite(side)
    BY DEF Makers
  <2>3. ASSUME NEW r \in At(b, li) PROVE r \in Makers(b, side)
    <3>1. r \in LiveSlots(b) /\ b.pool[r].tick = b.pool[s].tick
      BY <1>5, <2>1 DEF At
    <3>2. b.pool[r].side = b.pool[s].side
      BY <1>1, <2>2, <3>1, OneSide DEF Settled
    <3> QED
      BY <2>2, <3>1, <3>2 DEF Makers
  <2> QED
    BY <2>3
<1>11. Walking(b, M, side, limit, [at |-> li, qty |-> 0], 0)
  <2> DEFINE w == [at |-> li, qty |-> 0]
  <2>1. w = [at |-> w.at, qty |-> w.qty] /\ w.at = li /\ w.qty = 0
    OBVIOUS
  <2>2. M[Passed(b, side, li)] = 0 /\ Passed(b, side, li) \subseteq Within(b, side, limit)
    BY <1>1, <1>9 DEF Weighs
  <2>3. 0 <= IF side = "Buy" THEN li ELSE LevelCount - 1 - li
    BY <1>3, <1>7 DEF Levels
  <2> HIDE DEF w
  <2>4. Walking(b, M, side, limit, w, 0)
    BY <1>3, <1>10, <2>1, <2>2, <2>3 DEF Walking
  <2> QED
    BY <2>4 DEF w
<1> HIDE DEF i
<1>12. i = (IF side = "Buy" THEN ScanUp(b, li) ELSE ScanDown(b, li))
  BY DEF i
<1> QED
  BY <1>3, <1>8, <1>9, <1>11, <1>12 DEF li, best

\* available weighs the makers within the limit.
LEMMA AvailableWeighs ==
  ASSUME NEW b, NEW age, NEW now, NEW M, Kept(b, age, now, M), Settled(b), NEW side \in Sides,
         NEW limit \in Int
  PROVE  Available(b, side, limit) = M[Within(b, side, limit)]
<1> DEFINE best == BestFor(b, side)
           li == Idx(best)
<1>1. CASE best = InvalidTick
  <2>1. Makers(b, side) = {} /\ M[{}] = 0
    BY <1>1 DEF Settled, TopIs, Sides, Kept, Weighs
  <2>2. Within(b, side, limit) = {}
    BY <2>1 DEF Within
  <2> QED
    BY <1>1, <2>1, <2>2 DEF Available
<1>2. CASE best # InvalidTick
  <2>1. /\ (IF side = "Buy" THEN ScanUp(b, li) ELSE ScanDown(b, li)) = li
        /\ Walking(b, M, side, limit, [at |-> li, qty |-> 0], 0)
    BY <1>2, SetsOut
  <2>2. AvailableFrom(b, side, limit, li) = M[Within(b, side, limit)]
    BY <2>1, WalkIs
  <2> QED
    BY <1>2, <2>1, <2>2 DEF Available
<1> QED
  BY <1>1, <1>2

\* What the makers in reach have.
Sizes(h, side, limit) == [i \in Reach(h, side, limit) |-> h.book[i].qty]

\* It is what the orders an observer knows of add up to.
LEMMA AvailableIs ==
  ASSUME NEW b, NEW h, Faithful(b, h), Settled(b), NEW side \in Sides, NEW limit \in Int
  PROVE  Available(b, side, limit) = Total(Sizes(h, side, limit))
<1>1. PICK age, now, M : Kept(b, age, now, M) /\ Mirror(b, age, h)
  BY DEF Faithful
<1>2. /\ b \in Book /\ Sound(b) /\ Indexed(b) /\ DOMAIN h.book = DOMAIN b.ids
      /\ \A i \in DOMAIN b.ids : h.book[i] = LineOf(b.pool[b.ids[i]])
  BY FaithfulIs
<1>3. Weighs(M, b)
  BY <1>1 DEF Kept
<1> DEFINE E == Reach(h, side, limit)
           f == Sizes(h, side, limit)
           r == b.ids
<1>4. Available(b, side, limit) = M[Within(b, side, limit)]
  BY <1>1, AvailableWeighs
<1>5. f = [i \in E |-> h.book[i].qty]
  BY DEF Sizes
<1>6. E = {i \in DOMAIN h.book : h.book[i].side = Opposite(side)
                                 /\ Reaches(side, limit, h.book[i].tick)}
  BY SameWords DEF Reach, Promise!Eligible
<1> HIDE DEF E, f
<1>7. IsFiniteSet(E) /\ DOMAIN f = E
  <2>1. Proper(h)
    BY FaithfulIsProper
  <2> QED
    BY <1>5, <1>6, <2>1, FS_Subset DEF Proper
<1>8. ASSUME NEW i \in DOMAIN h.book
      PROVE  /\ r[i] \in LiveSlots(b) /\ r[i] \in Slots /\ b.pool[r[i]].id = i
             /\ h.book[i].side = b.pool[r[i]].side /\ h.book[i].tick = b.pool[r[i]].tick
             /\ h.book[i].qty = b.pool[r[i]].qty /\ h.book[i].qty \in Int
  <2> DEFINE o == b.pool[b.ids[i]]
  <2>1. h.book[i] = LineOf(o) /\ r[i] \in LiveSlots(b) /\ r[i] \in Slots /\ o.id = i
        /\ o.qty \in Nat \ {0}
    BY <1>2, NamedIs
  <2>2. LineOf(o).side = o.side /\ LineOf(o).tick = o.tick /\ LineOf(o).qty = o.qty
    BY DEF LineOf
  <2> QED
    BY <2>1, <2>2
<1>9. \A i \in E : r[i] \in Slots /\ f[i] = b.pool[r[i]].qty /\ f[i] \in Int
  BY <1>5, <1>6, <1>8
<1>10. \A i, j \in E : r[i] = r[j] => i = j
  BY <1>6, <1>8
<1>11. PICK W : Additive(W, f, E) /\ Total(f) = W[E]
  BY <1>7, <1>9, TotalOf
<1>12. W[E] = M[{r[i] : i \in E}]
  <2> HIDE DEF r
  <2> QED
    BY <1>3, <1>7, <1>9, <1>10, <1>11, AddsAlike
<1>13. {r[i] : i \in E} = Within(b, side, limit)
  <2>1. \A i \in E : r[i] \in Within(b, side, limit)
    BY <1>6, <1>8 DEF Within, Makers
  <2>2. ASSUME NEW s \in Within(b, side, limit) PROVE \E i \in E : s = r[i]
    <3>1. /\ s \in LiveSlots(b) /\ b.pool[s].side = Opposite(side)
          /\ Reaches(side, limit, b.pool[s].tick)
      BY DEF Within, Makers
    <3>2. b.pool[s].id \in DOMAIN h.book /\ r[b.pool[s].id] = s
      BY <1>2, <3>1 DEF Sound
    <3> QED
      BY <1>6, <1>8, <3>1, <3>2
  <2> QED
    BY <2>1, <2>2
<1> QED
  BY <1>4, <1>11, <1>12, <1>13 DEF f

\* Sizes is a function of the makers in reach, each of some size.
LEMMA SizesAre ==
  ASSUME NEW h, Proper(h), NEW side, NEW limit
  PROVE  /\ DOMAIN Sizes(h, side, limit) = Reach(h, side, limit)
         /\ IsFiniteSet(Reach(h, side, limit)) /\ Reach(h, side, limit) \subseteq DOMAIN h.book
         /\ \A i \in Reach(h, side, limit) : /\ Sizes(h, side, limit)[i] = h.book[i].qty
                                            /\ h.book[i].qty \in Nat \ {0}
<1> DEFINE E == Reach(h, side, limit)
<1>1. E \subseteq DOMAIN h.book
  BY DEF Reach, Promise!Eligible
<1> HIDE DEF E
<1>2. Sizes(h, side, limit) = [i \in E |-> h.book[i].qty]
  BY DEF Sizes, E
<1> QED
  BY <1>1, <1>2, FS_Subset DEF Proper, E

\* A taker can be filled whole when the makers in reach have enough.
LEMMA FillableIs ==
  ASSUME NEW b, NEW h, Faithful(b, h), Settled(b), DOMAIN h.fills = {},
         NEW side \in Sides, NEW limit \in Int, NEW q \in Nat
  PROVE  Promise!Fillable(h.book, h.ahead, side, limit, q) <=> q <= Available(b, side, limit)
<1> DEFINE E == Promise!Eligible(h.book, side, limit)
           z == Sizes(h, side, limit)
<1>1. Available(b, side, limit) = Total(z)
  BY AvailableIs
<1>2. Proper(h)
  BY FaithfulIsProper
<1>3. /\ DOMAIN z = E /\ IsFiniteSet(E) /\ E \subseteq DOMAIN h.book
      /\ \A i \in E : z[i] = h.book[i].qty /\ h.book[i].qty \in Nat \ {0}
  <2>1. E = Reach(h, side, limit)
    BY DEF Reach
  <2> HIDE DEF E, z
  <2> QED
    BY <1>2, <2>1, SizesAre DEF z
<1> HIDE DEF z
<1>4. ASSUME Promise!Fillable(h.book, h.ahead, side, limit, q)
      PROVE  q <= Total(z)
  <2>1. PICK f \in [E -> 0 .. q] :
          Promise!Filling(h.book, h.ahead, side, limit, q, f) /\ Promise!Remainder(q, f) = 0
    BY <1>4 DEF Promise!Fillable
  <2>2. \A i \in E : f[i] <= h.book[i].qty
    BY <2>1 DEF Promise!Filling
  <2> HIDE DEF E
  <2>3. DOMAIN f = DOMAIN z /\ \A i \in DOMAIN f : f[i] \in Int /\ z[i] \in Int /\ f[i] <= z[i]
    BY <1>3, <2>2
  <2>4. Total(f) <= Total(z) /\ Total(f) \in Int /\ Total(z) \in Int
    BY <1>3, <2>3, TotalNoMore
  <2>5. q - Total(f) = 0
    BY <2>1, LeftOverIs
  <2> QED
    BY <2>4, <2>5
<1>5. ASSUME q <= Total(z)
      PROVE  Promise!Fillable(h.book, h.ahead, side, limit, q)
  <2> DEFINE m == [b |-> b, events |-> <<>>, qty |-> q]
             n == Match(m, side, limit)
             l == Told(h, n.events)
             f == Gives(h, l, side, limit)
  <2>1. Told(h, m.events) = h /\ IsList(m.events) /\ m.b = b /\ m.qty = q
    BY NoneIs
  <2>2. Good(m, h)
    BY <2>1 DEF Good
  <2>3. Matched(h, l, q, n.qty, side, limit, f)
    <3> HIDE DEF m
    <3>1. Settled(m.b) /\ DOMAIN Told(h, m.events).fills = {}
      BY <2>1
    <3>2. Matched(Told(h, m.events), Told(h, Match(m, side, limit).events), m.qty,
                  Match(m, side, limit).qty, side, limit,
                  Gives(Told(h, m.events), Told(h, Match(m, side, limit).events), side, limit))
      BY <2>2, <3>1, MatchKeepsPromise
    <3> QED
      BY <2>1, <3>2
  <2> HIDE DEF f, l, n
  <2>4. /\ f \in [E -> 0 .. q] /\ Promise!Remainder(q, f) = n.qty
        /\ Promise!Filling(h.book, h.ahead, side, limit, q, f)
    BY <2>3 DEF Matched
  <2>5. n.qty \in 0 .. q
    BY <2>4 DEF Promise!Filling
  <2>6. n.qty = 0
    <3> SUFFICES ASSUME n.qty > 0 PROVE FALSE
      BY <2>5
    <3>1. \A i \in E : f[i] = h.book[i].qty
      BY <2>4 DEF Promise!Filling
    <3> HIDE DEF E
    <3>2. DOMAIN f = DOMAIN z /\ \A i \in DOMAIN f : f[i] \in Int /\ z[i] \in Int /\ z[i] <= f[i]
      BY <1>3, <2>4, <3>1
    <3>3. Total(z) <= Total(f) /\ Total(z) \in Int /\ Total(f) \in Int
      BY <1>3, <3>2, TotalNoMore
    <3>4. q - Total(f) = n.qty
      BY <2>4, LeftOverIs
    <3> QED
      BY <1>5, <2>5, <3>3, <3>4
  <2> QED
    BY <2>4, <2>6 DEF Promise!Fillable
<1>6. Total(z) \in Nat
  <2> HIDE DEF E
  <2> QED
    BY <1>3, TotalBounds
<1> QED
  BY <1>1, <1>4, <1>5

\* The pool is full when as many orders rest as it has slots.
LEMMA FullIs ==
  ASSUME NEW b, NEW h, Faithful(b, h)
  PROVE  b.free_head = NullSlot <=> Promise!Cardinality(DOMAIN h.book) >= PoolSize
<1>1. PICK age, now, M : Kept(b, age, now, M) /\ Mirror(b, age, h)
  BY DEF Faithful
<1>2. /\ b \in Book /\ Sound(b) /\ Indexed(b) /\ DOMAIN h.book = DOMAIN b.ids
  BY FaithfulIs
<1> DEFINE D == DOMAIN b.ids
<1>3. b.ids \in [D -> Slots]
  BY <1>2, IndexIs DEF Book
<1>4. \A i, j \in D : b.ids[i] = b.ids[j] => i = j
  BY <1>2 DEF Indexed
<1>5. b.ids \in Injection(D, Slots)
  <2> HIDE DEF D
  <2> QED
    BY <1>3, <1>4 DEF Injection, IsInjective
<1> HIDE DEF D
<1>6. IsFiniteSet(Slots) /\ Cardinality(Slots) = PoolSize /\ PoolSize \in Nat
  <2>1. PoolSize \in Nat
    BY BookAssumption
  <2>2. IsFiniteSet(1 .. PoolSize) /\ Cardinality(1 .. PoolSize) = IF 1 > PoolSize THEN 0 ELSE PoolSize - 1 + 1
    BY <2>1, FS_Interval
  <2> QED
    BY <2>1, <2>2 DEF Slots
<1>7. /\ IsFiniteSet(D) /\ Cardinality(D) <= PoolSize
      /\ Cardinality(D) = PoolSize <=> b.ids \in Surjection(D, Slots)
  BY <1>5, <1>6, FS_Injection
<1>8. Cardinality(D) \in Nat
  BY <1>7, FS_CardinalityType
<1>9. b.ids \in Surjection(D, Slots) <=> \A s \in Slots : \E i \in D : b.ids[i] = s
  BY <1>3 DEF Surjection
<1>10. (\A s \in Slots : \E i \in D : b.ids[i] = s) <=> Dead(b) = {}
  <2>1. \A i \in D : b.ids[i] \in LiveSlots(b)
    BY <1>2 DEF Indexed, D
  <2>2. \A s \in LiveSlots(b) : b.pool[s].id \in D /\ b.ids[b.pool[s].id] = s
    BY <1>2 DEF Sound, D
  <2> QED
    BY <2>1, <2>2 DEF Dead
<1>11. b.free_head = NullSlot <=> Dead(b) = {}
  BY <1>1, RoomIs
<1>12. Promise!Cardinality(D) = Cardinality(D)
  BY DEF Promise!Cardinality, Cardinality
<1> QED
  BY <1>2, <1>6, <1>7, <1>8, <1>9, <1>10, <1>11, <1>12 DEF D

\* The checks of an incoming limit order are those of the promise.
LEMMA SameVerdict ==
  ASSUME NEW b, NEW h, Faithful(b, h), Settled(b), DOMAIN h.fills = {},
         NEW id, NEW side \in Sides, NEW tick \in Int, NEW qty \in Int, NEW tif
  PROVE  Promise!LimitVerdict(h.book, h.ahead, id, side, tick, qty, tif)
           = LimitVerdict(b, id, side, tick, qty, tif)
<1>1. b \in Book /\ DOMAIN h.book = DOMAIN b.ids
  BY FaithfulIs
<1>2. Find(b, id) = NullSlot <=> id \notin DOMAIN h.book
  BY <1>1, FreeIdIs
<1>3. Promise!Cardinality(DOMAIN h.book) >= PoolSize <=> b.free_head = NullSlot
  BY FullIs
<1>4. Promise!Ticks = Ticks
  BY SameWords
<1>5. qty > 0 => (~Promise!Fillable(h.book, h.ahead, side, tick, qty) <=> Available(b, side, tick) < qty)
  <2> SUFFICES ASSUME qty > 0
               PROVE  ~Promise!Fillable(h.book, h.ahead, side, tick, qty) <=> Available(b, side, tick) < qty
    OBVIOUS
  <2>1. qty \in Nat
    OBVIOUS
  <2>2. Promise!Fillable(h.book, h.ahead, side, tick, qty) <=> qty <= Available(b, side, tick)
    BY <2>1, FillableIs
  <2>3. Available(b, side, tick) \in Int
    <3>1. PICK age, now, M : Kept(b, age, now, M)
      BY DEF Faithful
    <3>2. Available(b, side, tick) = M[Within(b, side, tick)]
      BY <3>1, AvailableWeighs
    <3>3. Within(b, side, tick) \in SUBSET Slots
      BY DEF Within, Makers, LiveSlots
    <3>4. M \in [SUBSET Slots -> Nat]
      BY <3>1 DEF Kept, Weighs
    <3> QED
      BY <3>2, <3>3, <3>4
  <2> QED
    BY <2>2, <2>3
<1>6. id \in DOMAIN h.book \union {NoOrder} <=> (id = NoOrder \/ Find(b, id) # NullSlot)
  BY <1>2
<1> DEFINE card == Promise!Cardinality(DOMAIN h.book)
           can  == Promise!Fillable(h.book, h.ahead, side, tick, qty)
           have == Available(b, side, tick)
<1>7. Promise!LimitVerdict(h.book, h.ahead, id, side, tick, qty, tif)
        = IF qty <= 0 THEN "BadQty"
          ELSE IF tick \notin Ticks THEN "PriceOutOfRange"
          ELSE IF id \in DOMAIN h.book \union {NoOrder} THEN "DuplicateId"
          ELSE IF tif = "Gtc" /\ card >= PoolSize THEN "PoolExhausted"
          ELSE IF tif = "Fok" /\ ~can THEN "FokUnfillable"
          ELSE "None"
  BY <1>4 DEF Promise!LimitVerdict
<1>8. LimitVerdict(b, id, side, tick, qty, tif)
        = IF qty <= 0 THEN "BadQty"
          ELSE IF tick \notin Ticks THEN "PriceOutOfRange"
          ELSE IF id = NoOrder \/ Find(b, id) # NullSlot THEN "DuplicateId"
          ELSE IF tif = "Gtc" /\ b.free_head = NullSlot THEN "PoolExhausted"
          ELSE IF tif = "Fok" /\ have < qty THEN "FokUnfillable"
          ELSE "None"
  BY DEF LimitVerdict
<1>9. (card >= PoolSize <=> b.free_head = NullSlot) /\ (qty > 0 => (~can <=> have < qty))
  BY <1>3, <1>5
<1> HIDE DEF card, can, have
<1> QED
  BY <1>6, <1>7, <1>8, <1>9

\* Makers in reach that have enough leave a taker nothing to ask for.
LEMMA EnoughFills ==
  ASSUME NEW h, Proper(h), NEW l, NEW q \in Nat, NEW r, NEW side, NEW limit, NEW f,
         Matched(h, l, q, r, side, limit, f), q <= Total(Sizes(h, side, limit))
  PROVE  r = 0
<1> DEFINE E == Promise!Eligible(h.book, side, limit)
           z == Sizes(h, side, limit)
<1>1. /\ DOMAIN z = E /\ IsFiniteSet(E)
      /\ \A i \in E : z[i] = h.book[i].qty /\ h.book[i].qty \in Nat \ {0}
  <2>1. E = Reach(h, side, limit)
    BY DEF Reach
  <2> HIDE DEF E, z
  <2> QED
    BY <2>1, SizesAre DEF z
<1>2. /\ f \in [E -> 0 .. q] /\ Promise!Remainder(q, f) = r
      /\ Promise!Filling(h.book, h.ahead, side, limit, q, f)
  BY DEF Matched
<1>3. r \in 0 .. q
  BY <1>2 DEF Promise!Filling
<1> SUFFICES ASSUME r > 0 PROVE FALSE
  BY <1>3
<1>4. \A i \in E : f[i] = h.book[i].qty
  BY <1>2 DEF Promise!Filling
<1> HIDE DEF E, z
<1>5. DOMAIN f = DOMAIN z /\ \A i \in DOMAIN f : f[i] \in Int /\ z[i] \in Int /\ z[i] <= f[i]
  BY <1>1, <1>2, <1>4
<1>6. Total(z) <= Total(f) /\ Total(z) \in Int /\ Total(f) \in Int
  BY <1>1, <1>5, TotalNoMore
<1>7. q - Total(f) = r
  BY <1>2, LeftOverIs
<1>8. q <= Total(z)
  BY DEF z
<1> QED
  BY <1>3, <1>6, <1>7, <1>8

(***************************************************************************)
(* The promise of Meet, with h for what an observer knew and l for what it  *)
(* knows.                                                                   *)
(***************************************************************************)
Meets(h, l, id, side, tick, qty, tif) ==
  \E f \in [Promise!Eligible(h.book, side, tick) -> 0 .. qty] :
    LET rem   == Promise!Remainder(qty, f)
        left  == Promise!AfterFills(h.book, f)
        queue == Promise!QueueOnly(h.ahead, DOMAIN left)
        order == [side |-> side, tick |-> tick, qty |-> rem]
    IN /\ l.fills = Promise!Given(f)
       /\ Promise!Filling(h.book, h.ahead, side, tick, qty, f)
       /\ tif = "Fok" => rem = 0
       /\ IF rem > 0 /\ tif = "Gtc"
            THEN /\ l.book = Promise!WithOrder(left, id, order)
                 /\ l.ahead = Promise!QueueBehind(left, queue, id, order)
            ELSE l.book = left /\ l.ahead = queue

\* An order that joins its level is behind those of its side, and there are no others.
LEMMA JoinedBehind ==
  ASSUME NEW h \in Shadow, NEW id, NEW side \in Sides, NEW tick \in Int, NEW qty,
         NEW l, Joined(h, id, [side |-> side, tick |-> tick, qty |-> qty], l),
         \A i \in DOMAIN h.book :
           ~(h.book[i].side = Opposite(side) /\ Reaches(side, tick, h.book[i].tick))
  PROVE  LET order == [side |-> side, tick |-> tick, qty |-> qty] IN
         /\ l.book = Promise!WithOrder(h.book, id, order)
         /\ l.ahead = Promise!QueueBehind(h.book, h.ahead, id, order)
<1> DEFINE order == [side |-> side, tick |-> tick, qty |-> qty]
<1>1. /\ l \in Shadow
      /\ DOMAIN l.book = DOMAIN h.book \union {id}
      /\ l.book[id] = order /\ \A i \in DOMAIN h.book \ {id} : l.book[i] = h.book[i]
      /\ l.ahead = h.ahead \union
           {<<i, id>> : i \in {j \in DOMAIN h.book : h.book[j].tick = tick}}
  BY DEF Joined
<1>2. order.side = side /\ order.tick = tick
  OBVIOUS
<1> HIDE DEF order
<1>3. l.book = [i \in DOMAIN h.book \union {id} |-> IF i = id THEN order ELSE h.book[i]]
  <2>1. l.book = [i \in DOMAIN l.book |-> l.book[i]]
    BY <1>1, ShadowIs
  <2> QED
    BY <1>1, <2>1
<1>4. ASSUME NEW j \in DOMAIN h.book, h.book[j].tick = tick
      PROVE  h.book[j].side = side
  <2>1. h.book[j].side \in Sides
    <3>1. h.book \in [DOMAIN h.book -> Lines]
      BY ShadowIs
    <3> QED
      BY <3>1 DEF Lines
  <2>2. Reaches(side, tick, h.book[j].tick)
    BY <1>4 DEF Reaches
  <2> QED
    BY <2>1, <2>2 DEF Opposite, Sides
<1>5. {j \in DOMAIN h.book : h.book[j].tick = tick}
        = {j \in DOMAIN h.book : h.book[j].side = order.side /\ h.book[j].tick = order.tick}
  BY <1>2, <1>4
<1>6. l.ahead = Promise!QueueBehind(h.book, h.ahead, id, order)
  BY <1>1, <1>5 DEF Promise!QueueBehind
<1>7. l.book = Promise!WithOrder(h.book, id, order)
  BY <1>3 DEF Promise!WithOrder
<1> QED
  BY <1>6, <1>7 DEF order

\* What match leaves of a taker, and what becomes of it, are what the promise says.
LEMMA RemainderMeets ==
  ASSUME NEW m, NEW n, NEW r, NEW h, NEW sh, Good(n, sh), Settled(n.b), NEW f,
         Proper(h), NEW q \in Nat, NEW side \in Sides, NEW tick \in Int, NEW id, NEW tif,
         Matched(h, Told(sh, n.events), q, n.qty, side, tick, f), Done(n, side, tick),
         Remains(n, r, sh, id, side, tick, tif), tif = "Fok" => n.qty = 0
  PROVE  Meets(h, Told(sh, r.events), id, side, tick, q, tif)
<1> DEFINE k == Told(sh, n.events)
           l == Told(sh, r.events)
           left == Promise!AfterFills(h.book, f)
           queue == Promise!QueueOnly(h.ahead, DOMAIN left)
           order == [side |-> side, tick |-> tick, qty |-> n.qty]
<1>1. /\ f \in [Promise!Eligible(h.book, side, tick) -> 0 .. q]
      /\ Promise!Remainder(q, f) = n.qty
      /\ Promise!Filling(h.book, h.ahead, side, tick, q, f)
      /\ k.fills = Promise!Given(f) /\ k.book = left /\ k.ahead = queue
  BY DEF Matched
<1>2. Faithful(n.b, k) /\ n.qty \in Nat
  BY DEF Good
<1>3. k \in Shadow
  <2> HIDE DEF k
  <2> QED
    BY <1>2, FaithfulIs
<1>4. CASE n.qty > 0 /\ tif = "Gtc"
  <2>1. Joined(k, id, order, l)
    BY <1>4 DEF Remains
  <2>2. Alone(n.b, side, tick)
    BY <1>4 DEF Done
  <2> HIDE DEF k, l, left, queue
  <2>3. \A i \in DOMAIN k.book :
          ~(k.book[i].side = Opposite(side) /\ Reaches(side, tick, k.book[i].tick))
    BY <1>2, <2>2, AloneIs
  <2>4. /\ l.book = Promise!WithOrder(k.book, id, order)
        /\ l.ahead = Promise!QueueBehind(k.book, k.ahead, id, order)
    BY <1>3, <2>1, <2>3, JoinedBehind
  <2>5. l.fills = k.fills
    BY <1>4 DEF Remains, k, l
  <2> QED
    BY <1>1, <1>4, <2>4, <2>5 DEF Meets, l, left, queue
<1>5. CASE ~(n.qty > 0 /\ tif = "Gtc")
  <2>1. l = k
    BY <1>2, <1>5 DEF Remains
  <2> HIDE DEF k, l
  <2>2. l.fills = Promise!Given(f) /\ l.book = left /\ l.ahead = queue
    BY <1>1, <2>1
  <2> QED
    BY <1>1, <1>5, <2>2 DEF Meets, l
<1> QED
  BY <1>4, <1>5

\* add_limit keeps the promise: same verdict, same trades, same place in the queue.
AddKeepsPromise(h, l, verdict, id, side, tick, qty, tif) ==
  /\ verdict = Promise!LimitVerdict(h.book, h.ahead, id, side, tick, qty, tif)
  /\ IF verdict = "None" THEN Meets(h, l, id, side, tick, qty, tif) ELSE l = h

\* A reject leaves what the observer knows.
LEMMA RejectTells ==
  ASSUME NEW b, NEW ev, NEW sh, Fine(Step(b, ev), sh), NEW id, NEW verdict
  PROVE  /\ Told(sh, Rejected(Step(b, ev), id, verdict).events) = Told(sh, ev)
         /\ Rejected(Step(b, ev), id, verdict).verdict = verdict
<1> DEFINE e == RejectEvent(id, verdict)
<1>1. IsList(ev)
  BY DEF Fine, Step
<1>2. Observe(Told(sh, ev), e) = Told(sh, ev)
  BY EventsAre
<1>3. Rejected(Step(b, ev), id, verdict)
        = [b |-> b, events |-> Append(ev, e), verdict |-> verdict]
  BY DEF Rejected, Ended, Step
<1> HIDE DEF e
<1>4. Told(sh, Append(ev, e)) = Told(sh, ev)
  BY <1>1, <1>2, ToldMore
<1> QED
  BY <1>3, <1>4

\* add_limit is what the promise says it is.
LEMMA AddLimitMeets ==
  ASSUME NEW b, NEW ev, NEW sh, Fine(Step(b, ev), sh), DOMAIN Told(sh, ev).fills = {},
         NEW id \in AnyId, NEW side \in Sides, NEW tick \in Int, NEW qty \in Int, NEW tif \in Tifs
  PROVE  LET r == AddLimitTo(Step(b, ev), id, side, tick, qty, tif) IN
         AddKeepsPromise(Told(sh, ev), Told(sh, r.events), r.verdict, id, side, tick, qty, tif)
<1> DEFINE st == Step(b, ev)
           h == Told(sh, ev)
           v == LimitVerdict(b, id, side, tick, qty, tif)
           m == [b |-> b, events |-> ev, qty |-> qty]
           n == Match(m, side, tick)
           r == LimitRemainder(n, id, side, tick, tif)
           a == AddLimitTo(st, id, side, tick, qty, tif)
<1>1. st.b = b /\ st.events = ev /\ Faithful(b, h) /\ IsList(ev) /\ Settled(b)
  BY StepIs
<1>2. a = IF v # "None" THEN Rejected(st, id, v) ELSE Ended(r, "None")
  <2> HIDE DEF st
  <2> QED
    BY <1>1 DEF AddLimitTo
<1>3. v = Promise!LimitVerdict(h.book, h.ahead, id, side, tick, qty, tif)
  <2> HIDE DEF h
  <2> QED
    BY <1>1, SameVerdict DEF h
<1>4. CASE v # "None"
  <2> HIDE DEF v
  <2>1. Told(sh, a.events) = h /\ a.verdict = v
    BY <1>2, <1>4, RejectTells
  <2> HIDE DEF a, h
  <2> QED
    BY <1>3, <1>4, <2>1 DEF AddKeepsPromise, a, h
<1>5. CASE v = "None"
  <2>1. /\ qty > 0 /\ tick \in Ticks /\ id # NoOrder /\ Find(b, id) = NullSlot
        /\ tif = "Gtc" => b.free_head # NullSlot
        /\ tif = "Fok" => ~(Available(b, side, tick) < qty)
    BY <1>5 DEF LimitVerdict
  <2>2. b \in Book
    <3> HIDE DEF h
    <3> QED
      BY <1>1, FaithfulIs
  <2>3. id \in Ids \ DOMAIN b.ids
    BY <2>1, <2>2, FreeIdIs DEF AnyId
  <2>4. m.b = b /\ m.events = ev /\ m.qty = qty /\ Good(m, sh)
    BY <1>1, <2>1 DEF Good
  <2> DEFINE k == Told(sh, n.events)
             l == Told(sh, r.events)
             f == Gives(h, k, side, tick)
  <2>5. Matched(h, k, qty, n.qty, side, tick, f)
    <3> HIDE DEF m
    <3>1. DOMAIN Told(sh, m.events).fills = {} /\ Settled(m.b)
      BY <1>1, <2>4
    <3>2. Matched(Told(sh, m.events), k, m.qty, n.qty, side, tick,
                  Gives(Told(sh, m.events), k, side, tick))
      BY <2>4, <3>1, MatchKeepsPromise
    <3> QED
      BY <2>4, <3>2
  <2> HIDE DEF m, f
  <2>6. /\ Good(n, sh) /\ Settled(n.b) /\ Fewer(b, n.b) /\ Done(n, side, tick)
    BY <1>1, <2>4, MatchIs
  <2>7. Proper(h)
    <3> HIDE DEF h
    <3> QED
      BY <1>1, FaithfulIsProper
  <2> HIDE DEF n, v, st, h
  <2>8. tif = "Fok" => n.qty = 0
    <3> SUFFICES ASSUME tif = "Fok" PROVE n.qty = 0
      OBVIOUS
    <3>1. Available(b, side, tick) = Total(Sizes(h, side, tick))
      BY <1>1, AvailableIs
    <3>2. Available(b, side, tick) \in Int
      <4>1. PICK age, now, M : Kept(b, age, now, M)
        BY <1>1 DEF Faithful
      <4>2. Available(b, side, tick) = M[Within(b, side, tick)]
        BY <1>1, <4>1, AvailableWeighs
      <4>3. Within(b, side, tick) \in SUBSET Slots
        BY DEF Within, Makers, LiveSlots
      <4>4. M \in [SUBSET Slots -> Nat]
        BY <4>1 DEF Kept, Weighs
      <4> QED
        BY <4>2, <4>3, <4>4
    <3>3. qty <= Total(Sizes(h, side, tick)) /\ qty \in Nat
      BY <2>1, <3>1, <3>2
    <3> HIDE DEF k
    <3> QED
      BY <2>5, <2>7, <3>3, EnoughFills
  <2>9. Faithful(n.b, k)
    BY <2>6 DEF Good
  <2>10. id \in Ids \ DOMAIN n.b.ids
    BY <2>3, <2>6 DEF Fewer
  <2>11. tif = "Gtc" => n.b.free_head # NullSlot
    <3> HIDE DEF k
    <3> QED
      BY <1>1, <2>1, <2>6, <2>9, RoomStays
  <2>12. Remains(n, r, sh, id, side, tick, tif)
    BY <2>1, <2>6, <2>10, <2>11, RemainderIs
  <2> HIDE DEF r
  <2>13. Meets(h, l, id, side, tick, qty, tif)
    <3>1. qty \in Nat
      BY <2>1
    <3> QED
      BY <2>5, <2>6, <2>7, <2>8, <2>12, <3>1, RemainderMeets
  <2>14. a.events = r.events /\ a.verdict = "None"
    BY <1>2, <1>5 DEF Ended
  <2> HIDE DEF a
  <2> QED
    BY <1>3, <1>5, <2>13, <2>14 DEF AddKeepsPromise, a, h, st
<1> QED
  BY <1>4, <1>5

\* add_market is what the promise says it is.
LEMMA AddMarketMeets ==
  ASSUME NEW b, NEW h, Fine(Step(b, <<>>), h), DOMAIN h.fills = {},
         NEW id, NEW side \in Sides, NEW qty \in Int, qty > 0
  PROVE  LET r == AddMarketTo(b, id, side, qty) IN
         /\ r.verdict = "None"
         /\ Meets(h, Told(h, r.events), id, side, FarTick(side), qty, "Ioc")
<1> DEFINE limit == FarTick(side)
           m == [b |-> b, events |-> <<>>, qty |-> qty]
           n == Match(m, side, limit)
           r == LimitRemainder(n, id, side, limit, "Ioc")
           a == AddMarketTo(b, id, side, qty)
           k == Told(h, n.events)
           l == Told(h, r.events)
           f == Gives(h, k, side, limit)
<1>1. Faithful(b, h) /\ IsList(<<>>) /\ Settled(b) /\ Told(h, <<>>) = h
  BY StepIs, NoneIs
<1>2. m.b = b /\ m.qty = qty /\ Told(h, m.events) = h /\ Good(m, h)
  BY <1>1 DEF Good
<1>3. a.verdict = "None" /\ a.events = r.events
  BY DEF AddMarketTo, Ended
<1>4. limit \in Int
  BY BookAssumption DEF FarTick
<1> HIDE DEF m, limit
<1>5. Matched(h, k, qty, n.qty, side, limit, f)
  <2>1. Matched(Told(h, m.events), k, m.qty, n.qty, side, limit,
                Gives(Told(h, m.events), k, side, limit))
    BY <1>1, <1>2, <1>4, MatchKeepsPromise
  <2> QED
    BY <1>2, <2>1
<1> HIDE DEF f
<1>6. Good(n, h) /\ Settled(n.b) /\ Done(n, side, limit)
  BY <1>1, <1>2, MatchIs
<1>7. Proper(h)
  BY <1>1, FaithfulIsProper
<1> HIDE DEF n, a
<1>8. "Ioc" \in Tifs /\ "Ioc" # "Gtc" /\ "Ioc" # "Fok" /\ qty \in Nat
  BY DEF Tifs
<1>9. Remains(n, r, h, id, side, limit, "Ioc")
  BY <1>6, <1>8, RemainderIs
<1> HIDE DEF r
<1>10. Meets(h, l, id, side, limit, qty, "Ioc")
  BY <1>4, <1>5, <1>6, <1>7, <1>8, <1>9, RemainderMeets
<1> QED
  BY <1>3, <1>10 DEF limit, a

\* The order that the id map finds is the one an observer knows.
LEMMA KnownIs ==
  ASSUME NEW b, NEW h, Faithful(b, h), NEW id
  PROVE  /\ Find(b, id) # NullSlot <=> id \in DOMAIN h.book
         /\ Find(b, id) # NullSlot =>
              LET o == b.pool[Find(b, id)] IN
              /\ Find(b, id) \in LiveSlots(b) /\ o.id = id
              /\ h.book[id].qty = o.qty /\ h.book[id].tick = o.tick /\ h.book[id].side = o.side
              /\ o.qty \in Nat \ {0} /\ o.side \in Sides
<1>1. /\ b \in Book /\ Sound(b) /\ Indexed(b) /\ h \in Shadow
      /\ DOMAIN h.book = DOMAIN b.ids
      /\ \A i \in DOMAIN b.ids : h.book[i] = LineOf(b.pool[b.ids[i]])
  BY FaithfulIs
<1>2. /\ Find(b, id) = NullSlot <=> id \notin DOMAIN b.ids
      /\ Find(b, id) # NullSlot => Find(b, id) = b.ids[id]
  BY <1>1, FreeIdIs
<1>3. ASSUME Find(b, id) # NullSlot
      PROVE  LET o == b.pool[Find(b, id)] IN
             /\ Find(b, id) \in LiveSlots(b) /\ o.id = id
             /\ h.book[id].qty = o.qty /\ h.book[id].tick = o.tick /\ h.book[id].side = o.side
             /\ o.qty \in Nat \ {0} /\ o.side \in Sides
  <2> DEFINE o == b.pool[Find(b, id)]
  <2>1. Find(b, id) \in LiveSlots(b) /\ o.id = id
    BY <1>3, FoundIs
  <2>2. o.qty \in Nat \ {0} /\ o \in SlotType
    BY <1>1, <2>1, OrderIs
  <2>3. h.book[id] = LineOf(o)
    BY <1>1, <1>2, <1>3
  <2> HIDE DEF o
  <2>4. h.book[id].qty = o.qty /\ h.book[id].tick = o.tick /\ h.book[id].side = o.side
    BY <2>3 DEF LineOf
  <2>5. o.side \in Sides
    BY <2>2 DEF SlotType
  <2> QED
    BY <2>1, <2>2, <2>4, <2>5 DEF o
<1> QED
  BY <1>1, <1>2, <1>3

\* An order that has lost all it had is gone.
LEMMA LostAllIs ==
  ASSUME NEW h, Proper(h), NEW id \in DOMAIN h.book, NEW l, Lost(h, id, h.book[id].qty, l)
  PROVE  /\ l.book = Promise!Without(h.book, id)
         /\ l.ahead = Promise!QueueWithout(h.ahead, h.book, id)
<1> DEFINE D == DOMAIN h.book \ {id}
<1>1. ~(h.book[id].qty < h.book[id].qty)
  <2>1. h.book[id].qty \in Nat
    BY DEF Proper
  <2> QED
    BY <2>1
<1>2. /\ l \in Shadow /\ DOMAIN l.book = D /\ \A i \in D : l.book[i] = h.book[i]
      /\ l.ahead = {p \in h.ahead : id \notin {p[1], p[2]}}
  BY <1>1 DEF Lost
<1>3. h.ahead \subseteq (DOMAIN h.book) \X (DOMAIN h.book)
  BY DEF Proper
<1>4. l.book = [i \in D |-> h.book[i]]
  <2>1. l.book = [i \in DOMAIN l.book |-> l.book[i]]
    BY <1>2, ShadowIs
  <2> QED
    BY <1>2, <2>1
<1>5. l.ahead = {p \in h.ahead : p[1] \in D /\ p[2] \in D}
  BY <1>2, <1>3
<1> QED
  BY <1>4, <1>5 DEF Promise!Without, Promise!Only, Promise!QueueWithout, Promise!QueueOnly

\* An order that has lost less than it had is smaller.
LEMMA LostSomeIs ==
  ASSUME NEW h, Proper(h), NEW id \in DOMAIN h.book, NEW d \in Nat, d < h.book[id].qty,
         NEW l, Lost(h, id, d, l)
  PROVE  /\ l.book = [h.book EXCEPT ![id].qty = h.book[id].qty - d]
         /\ l.ahead = h.ahead
<1> DEFINE o == h.book[id]
           p == [side |-> o.side, tick |-> o.tick, qty |-> o.qty - d]
<1>1. /\ l \in Shadow /\ DOMAIN l.book = DOMAIN h.book /\ l.ahead = h.ahead /\ l.book[id] = p
      /\ \A i \in DOMAIN h.book \ {id} : l.book[i] = h.book[i]
  BY DEF Lost
<1>2. h \in Shadow /\ h.book \in [DOMAIN h.book -> Lines] /\ o \in Lines
  BY ShadowIs DEF Proper
<1>3. [o EXCEPT !.qty = o.qty - d] = p
  <2> DEFINE e == [o EXCEPT !.qty = o.qty - d]
  <2>1. p \in Lines /\ o.qty - d \in Int
    BY <1>2 DEF Lines
  <2>2. e \in Lines /\ e.side = p.side /\ e.tick = p.tick /\ e.qty = p.qty
    BY <1>2 DEF Lines
  <2> HIDE DEF e, p
  <2> QED
    BY <2>1, <2>2 DEF Lines, e
<1> HIDE DEF p, o
<1>4. l.book = [i \in DOMAIN l.book |-> l.book[i]]
  BY <1>1, ShadowIs
<1>5. [h.book EXCEPT ![id] = p] = [i \in DOMAIN h.book |-> IF i = id THEN p ELSE h.book[i]]
  BY <1>2
<1>6. l.book = [h.book EXCEPT ![id] = p]
  BY <1>1, <1>4, <1>5
<1>7. [h.book EXCEPT ![id].qty = o.qty - d] = [h.book EXCEPT ![id] = p]
  BY <1>3 DEF o
<1> QED
  BY <1>1, <1>6, <1>7 DEF o

-----------------------------------------------------------------------------
(***************************************************************************)
(* Every operation keeps the promise.                                       *)
(***************************************************************************)

\* What an observer knows when a call begins.
Heard == [shadow EXCEPT !.fills = EmptyShadow.fills]

\* How a call begins.
LEMMA HeardIs ==
  ASSUME IInv
  PROVE  /\ Fine(Step(bk, <<>>), Heard) /\ Faithful(bk, Heard) /\ Settled(bk) /\ Proper(Heard)
         /\ Told(Heard, <<>>) = Heard
         /\ Heard.book = shadow.book /\ Heard.ahead = shadow.ahead
         /\ Heard.fills = Promise!NoFills /\ DOMAIN Heard.fills = {}
         /\ Promise!Resting = DOMAIN shadow.book
<1>1. Faithful(bk, shadow) /\ Settled(bk)
  BY DEF IInv
<1>2. Fine(Step(bk, <<>>), Heard)
  BY <1>1, CallBegins DEF Heard
<1>3. Told(Heard, <<>>) = Heard
  BY NoneIs
<1>4. Faithful(bk, Heard)
  BY <1>2, <1>3, StepIs
<1>5. Proper(Heard)
  BY <1>4, FaithfulIsProper
<1>6. shadow \in Shadow
  BY <1>1, FaithfulIs
<1> DEFINE none == [i \in {} |-> 0]
<1>7. EmptyShadow.fills = none /\ DOMAIN none = {} /\ Promise!NoFills = none
  BY DEF EmptyShadow, Promise!NoFills
<1> HIDE DEF none
<1>8. Heard.book = shadow.book /\ Heard.ahead = shadow.ahead /\ Heard.fills = none
  BY <1>6, <1>7 DEF Heard, Shadow
<1>9. Promise!Resting = DOMAIN shadow.book
  BY DEF Promise!Resting
<1> QED
  BY <1>1, <1>2, <1>3, <1>4, <1>5, <1>7, <1>8, <1>9

\* What a call leaves of the variables.
LEMMA ReturnTells ==
  ASSUME NEW r, Return(r)
  PROVE  shadow' = Told(Heard, r.events) /\ out'.verdict = r.verdict
BY DEF Return, Told, Heard

\* A call that tells nothing and is refused.
LEMMA RefuseKeeps ==
  ASSUME IInv, NEW id, NEW v, Return(Rejected(Step(bk, <<>>), id, v))
  PROVE  Promise!Refuse(v)
<1> DEFINE r == Rejected(Step(bk, <<>>), id, v)
<1>1. Told(Heard, r.events) = Told(Heard, <<>>) /\ r.verdict = v
  BY HeardIs, RejectTells
<1>2. shadow' = Told(Heard, r.events) /\ out'.verdict = r.verdict
  BY ReturnTells
<1> HIDE DEF r
<1>3. shadow' = Heard /\ out'.verdict = v
  BY <1>1, <1>2, HeardIs
<1>4. shadow'.book = shadow.book /\ shadow'.ahead = shadow.ahead /\ shadow'.fills = Promise!NoFills
  BY <1>3, HeardIs
<1> QED
  BY <1>3, <1>4 DEF Promise!Refuse

\* A call that takes an order out.
LEMMA PullKeeps ==
  ASSUME IInv, NEW id, Find(bk, id) # NullSlot, NEW reason \in {"User", "Replace"},
         Return(Ended(RemoveResting(Step(bk, <<>>), Find(bk, id), reason), "None"))
  PROVE  Promise!Pull(id)
<1> DEFINE s == Find(bk, id)
           r == RemoveResting(Step(bk, <<>>), s, reason)
           l == Lose(Heard, id, Heard.book[id].qty)
<1>1. /\ id \in DOMAIN Heard.book /\ s \in LiveSlots(bk) /\ bk.pool[s].id = id
      /\ Heard.book[id].qty = bk.pool[s].qty /\ bk.pool[s].qty \in Nat
  BY HeardIs, KnownIs
<1>2. Told(Heard, r.events) = l
  <2> HIDE DEF s
  <2>1. Told(Heard, r.events) = Lose(Told(Heard, <<>>), bk.pool[s].id, bk.pool[s].qty)
    BY <1>1, HeardIs, RemoveFine
  <2> QED
    BY <1>1, <2>1, HeardIs
<1>3. Lost(Heard, id, Heard.book[id].qty, l) /\ l.fills = Heard.fills
  <2>1. Heard \in Shadow /\ Heard.book[id].qty \in Int
    BY <1>1, HeardIs DEF Proper
  <2> QED
    BY <1>1, <2>1, LoseIs
<1>4. shadow' = Told(Heard, Ended(r, "None").events) /\ out'.verdict = Ended(r, "None").verdict
  BY ReturnTells
<1>5. Ended(r, "None").events = r.events /\ Ended(r, "None").verdict = "None"
  BY DEF Ended
<1> HIDE DEF r, l
<1>6. shadow' = l /\ out'.verdict = "None"
  BY <1>2, <1>4, <1>5
<1>7. /\ l.book = Promise!Without(Heard.book, id)
      /\ l.ahead = Promise!QueueWithout(Heard.ahead, Heard.book, id)
  BY <1>1, <1>3, HeardIs, LostAllIs
<1>8. /\ shadow'.book = Promise!Without(shadow.book, id)
      /\ shadow'.ahead = Promise!QueueWithout(shadow.ahead, shadow.book, id)
      /\ shadow'.fills = Promise!NoFills
  BY <1>3, <1>6, <1>7, HeardIs
<1> QED
  BY <1>6, <1>8 DEF Promise!Pull

\* A call that makes an order smaller.
LEMMA ShrinkKeeps ==
  ASSUME IInv, NEW id, Find(bk, id) # NullSlot, NEW reason \in {"User", "Replace"},
         NEW d \in Nat, d < shadow.book[id].qty,
         Return(Ended(ShrinkBy(bk, Find(bk, id), d, reason), "None"))
  PROVE  Promise!Shrink(id, shadow.book[id].qty - d)
<1> DEFINE s == Find(bk, id)
           o == bk.pool[s]
           e == CancelEvent(o.id, o.tick, d, o.side, reason)
           r == ShrinkBy(bk, s, d, reason)
           l == Lose(Heard, id, d)
<1>1. id \in DOMAIN Heard.book /\ o.id = id
  BY HeardIs, KnownIs
<1>2. Told(Heard, r.events) = l
  <2>1. r.events = <<e>>
    BY DEF ShrinkBy, Step
  <2>2. Observe(Heard, e) = Lose(Heard, o.id, d)
    BY EventsAre
  <2> HIDE DEF r, e
  <2> QED
    BY <1>1, <2>1, <2>2, OneEvent
<1>3. Lost(Heard, id, d, l) /\ l.fills = Heard.fills
  <2>1. Heard \in Shadow /\ d \in Int
    BY HeardIs DEF Proper
  <2> QED
    BY <1>1, <2>1, LoseIs
<1>4. shadow' = Told(Heard, Ended(r, "None").events) /\ out'.verdict = Ended(r, "None").verdict
  BY ReturnTells
<1>5. Ended(r, "None").events = r.events /\ Ended(r, "None").verdict = "None"
  BY DEF Ended
<1> HIDE DEF r, l
<1>6. shadow' = l /\ out'.verdict = "None"
  BY <1>2, <1>4, <1>5
<1>7. l.book = [Heard.book EXCEPT ![id].qty = Heard.book[id].qty - d] /\ l.ahead = Heard.ahead
  <2>1. d < Heard.book[id].qty
    BY HeardIs
  <2> QED
    BY <1>1, <1>3, <2>1, HeardIs, LostSomeIs
<1>8. /\ shadow'.book = [shadow.book EXCEPT ![id].qty = shadow.book[id].qty - d]
      /\ shadow'.ahead = shadow.ahead /\ shadow'.fills = Promise!NoFills
  BY <1>3, <1>6, <1>7, HeardIs
<1> QED
  BY <1>6, <1>8 DEF Promise!Shrink

\* What a call does that kept the promise of add_limit to the book of h.
LEMMA MeetsKeeps ==
  ASSUME NEW h, h.fills = Promise!NoFills, NEW id, NEW side, NEW tick, NEW qty, NEW tif,
         AddKeepsPromise(h, shadow', out'.verdict, id, side, tick, qty, tif)
  PROVE  Promise!AddLimitTo(h.book, h.ahead, id, side, tick, qty, tif)
<1>1. out'.verdict = Promise!LimitVerdict(h.book, h.ahead, id, side, tick, qty, tif)
  BY DEF AddKeepsPromise
<1>2. CASE out'.verdict = "None"
  <2>1. Meets(h, shadow', id, side, tick, qty, tif)
    BY <1>2 DEF AddKeepsPromise
  <2>2. Promise!Meet(h.book, h.ahead, id, side, tick, qty, tif)
    BY <2>1 DEF Meets, Promise!Meet
  <2> QED
    BY <1>1, <1>2, <2>2 DEF Promise!AddLimitTo
<1>3. CASE out'.verdict # "None"
  <2>1. shadow' = h
    BY <1>3 DEF AddKeepsPromise
  <2>2. shadow'.book = h.book /\ shadow'.ahead = h.ahead /\ shadow'.fills = Promise!NoFills
    BY <2>1
  <2> QED
    BY <1>1, <1>3, <2>2 DEF Promise!AddLimitTo
<1> QED
  BY <1>2, <1>3

\* add_limit.
LEMMA AddLimitKeeps ==
  ASSUME IInv, NEW id \in AnyId, NEW side \in Sides, NEW tick \in Int, NEW qty \in Int,
         NEW tif \in Tifs, AddLimit(id, side, tick, qty, tif)
  PROVE  Promise!AddLimit(id, side, tick, qty, tif)
<1> DEFINE r == AddLimitTo(Step(bk, <<>>), id, side, tick, qty, tif)
<1>1. Return(r)
  BY DEF AddLimit
<1>2. Told(Heard, <<>>) = Heard /\ DOMAIN Told(Heard, <<>>).fills = {} /\ Fine(Step(bk, <<>>), Heard)
  BY HeardIs
<1>3. AddKeepsPromise(Told(Heard, <<>>), Told(Heard, r.events), r.verdict, id, side, tick, qty, tif)
  BY <1>2, AddLimitMeets
<1> HIDE DEF r
<1>4. AddKeepsPromise(Heard, shadow', out'.verdict, id, side, tick, qty, tif)
  BY <1>1, <1>2, <1>3, ReturnTells
<1>5. Promise!AddLimitTo(Heard.book, Heard.ahead, id, side, tick, qty, tif)
  BY <1>4, HeardIs, MeetsKeeps
<1> QED
  BY <1>5, HeardIs DEF Promise!AddLimit

\* add_market.
LEMMA AddMarketKeeps ==
  ASSUME IInv, NEW id, NEW side \in Sides, NEW qty \in Int, AddMarket(id, side, qty)
  PROVE  Promise!AddMarket(id, side, qty)
<1> DEFINE r == AddMarketTo(bk, id, side, qty)
<1>1. Return(r)
  BY DEF AddMarket
<1>2. CASE qty <= 0
  <2>1. r = Rejected(Step(bk, <<>>), id, "BadQty")
    BY <1>2 DEF AddMarketTo
  <2> HIDE DEF r
  <2>2. Promise!Refuse("BadQty")
    BY <1>1, <2>1, RefuseKeeps
  <2> QED
    BY <1>2, <2>2 DEF Promise!AddMarket
<1>3. CASE qty > 0
  <2>1. r.verdict = "None" /\ Meets(Heard, Told(Heard, r.events), id, side, FarTick(side), qty, "Ioc")
    BY <1>3, HeardIs, AddMarketMeets
  <2> HIDE DEF r
  <2>2. out'.verdict = "None" /\ Meets(Heard, shadow', id, side, FarTick(side), qty, "Ioc")
    BY <1>1, <2>1, ReturnTells
  <2>3. Promise!FarTick(side) = FarTick(side)
    BY SameWords
  <2>4. Promise!Meet(Heard.book, Heard.ahead, id, side, FarTick(side), qty, "Ioc")
    BY <2>2 DEF Meets, Promise!Meet
  <2>5. Promise!Meet(shadow.book, shadow.ahead, id, side, Promise!FarTick(side), qty, "Ioc")
    BY <2>3, <2>4, HeardIs
  <2> QED
    BY <1>3, <2>2, <2>5 DEF Promise!AddMarket
<1> QED
  BY <1>2, <1>3

\* cancel.
LEMMA CancelKeeps ==
  ASSUME IInv, NEW id, Cancel(id)
  PROVE  Promise!Cancel(id)
<1>1. Return(CancelIn(bk, id))
  BY DEF Cancel
<1>2. Find(bk, id) # NullSlot <=> id \in Promise!Resting
  BY HeardIs, KnownIs
<1>3. CASE Find(bk, id) = NullSlot
  <2>1. Return(Rejected(Step(bk, <<>>), id, "UnknownId"))
    BY <1>1, <1>3 DEF CancelIn
  <2>2. Promise!Refuse("UnknownId")
    BY <2>1, RefuseKeeps
  <2> QED
    BY <1>2, <1>3, <2>2 DEF Promise!Cancel
<1>4. CASE Find(bk, id) # NullSlot
  <2>1. Return(Ended(RemoveResting(Step(bk, <<>>), Find(bk, id), "User"), "None"))
    BY <1>1, <1>4 DEF CancelIn
  <2>2. Promise!Pull(id)
    BY <1>4, <2>1, PullKeeps
  <2> QED
    BY <1>2, <1>4, <2>2 DEF Promise!Cancel
<1> QED
  BY <1>3, <1>4

\* reduce.
LEMMA ReduceKeeps ==
  ASSUME IInv, NEW id, NEW shares \in Int, Reduce(id, shares)
  PROVE  Promise!Reduce(id, shares)
<1> DEFINE s == Find(bk, id)
           v == Promise!SharesVerdict(id, shares)
<1>1. Return(ReduceIn(bk, id, shares))
  BY DEF Reduce
<1>2. s # NullSlot <=> id \in DOMAIN shadow.book
  BY HeardIs, KnownIs
<1>3. s # NullSlot => shadow.book[id].qty = bk.pool[s].qty /\ bk.pool[s].qty \in Nat
  BY HeardIs, KnownIs
<1>4. v = IF s = NullSlot THEN "UnknownId" ELSE IF shares <= 0 THEN "BadQty" ELSE "None"
  BY <1>2, HeardIs DEF Promise!SharesVerdict
<1>5. CASE v # "None"
  <2>1. Return(Rejected(Step(bk, <<>>), id, v))
    BY <1>1, <1>4, <1>5 DEF ReduceIn
  <2> HIDE DEF v
  <2>2. Promise!Refuse(v)
    BY <2>1, RefuseKeeps
  <2> QED
    BY <1>5, <2>2 DEF Promise!Reduce, v
<1>6. CASE v = "None" /\ shares >= shadow.book[id].qty
  <2>1. s # NullSlot /\ ~(shares <= 0)
    BY <1>4, <1>6
  <2>2. shares >= bk.pool[s].qty
    BY <1>3, <1>6, <2>1
  <2>3. Return(Ended(RemoveResting(Step(bk, <<>>), s, "User"), "None"))
    BY <1>1, <2>1, <2>2 DEF ReduceIn
  <2>4. Promise!Pull(id)
    BY <2>1, <2>3, PullKeeps
  <2> QED
    BY <1>6, <2>4 DEF Promise!Reduce
<1>7. CASE v = "None" /\ ~(shares >= shadow.book[id].qty)
  <2>1. s # NullSlot /\ ~(shares <= 0)
    BY <1>4, <1>7
  <2>2. ~(shares >= bk.pool[s].qty) /\ shares \in Nat /\ shares < shadow.book[id].qty
    BY <1>3, <1>7, <2>1
  <2>3. Return(Ended(ShrinkBy(bk, s, shares, "User"), "None"))
    BY <1>1, <2>1, <2>2 DEF ReduceIn
  <2>4. Promise!Shrink(id, shadow.book[id].qty - shares)
    BY <2>1, <2>2, <2>3, ShrinkKeeps
  <2> QED
    BY <1>7, <2>2, <2>4 DEF Promise!Reduce
<1> QED
  BY <1>5, <1>6, <1>7

\* What an order has left after one fill.
LEMMA FilledIs ==
  ASSUME NEW h, Proper(h), NEW id \in DOMAIN h.book, NEW take \in Nat, take <= h.book[id].qty,
         NEW l, Lost(h, id, take, l), NEW f, f = [i \in {id} |-> take]
  PROVE  /\ l.book = Promise!AfterFills(h.book, f)
         /\ l.ahead = Promise!QueueOnly(h.ahead, Promise!Survivors(h.book, f))
<1> DEFINE D == DOMAIN h.book
           S == Promise!Survivors(h.book, f)
<1>1. DOMAIN f = {id} /\ f[id] = take
  OBVIOUS
<1>2. S = {i \in D : i = id => take < h.book[i].qty}
  BY <1>1 DEF Promise!Survivors
<1>3. Promise!AfterFills(h.book, f)
        = [i \in S |-> IF i = id THEN [h.book[id] EXCEPT !.qty = h.book[id].qty - take] ELSE h.book[i]]
  BY <1>1 DEF Promise!AfterFills
<1>4. Promise!QueueOnly(h.ahead, S) = {p \in h.ahead : p[1] \in S /\ p[2] \in S}
  BY DEF Promise!QueueOnly
<1>5. h.ahead \subseteq D \X D /\ h.book[id].qty \in Nat
  BY DEF Proper
<1> HIDE DEF S
<1>6. CASE take = h.book[id].qty
  <2>1. /\ l.book = Promise!Without(h.book, id)
        /\ l.ahead = Promise!QueueWithout(h.ahead, h.book, id)
    BY <1>6, LostAllIs
  <2>2. S = D \ {id}
    BY <1>2, <1>5, <1>6
  <2>3. l.book = [i \in S |-> h.book[i]]
    BY <2>1, <2>2 DEF Promise!Without, Promise!Only
  <2>4. Promise!AfterFills(h.book, f) = [i \in S |-> h.book[i]]
    BY <1>3, <2>2
  <2>5. l.ahead = Promise!QueueOnly(h.ahead, S)
    BY <2>1, <2>2 DEF Promise!QueueWithout
  <2> QED
    BY <2>3, <2>4, <2>5 DEF S
<1>7. CASE take # h.book[id].qty
  <2>1. take < h.book[id].qty
    BY <1>5, <1>7
  <2>2. /\ l.book = [h.book EXCEPT ![id].qty = h.book[id].qty - take]
        /\ l.ahead = h.ahead
    BY <2>1, LostSomeIs
  <2>3. S = D
    BY <1>2, <2>1
  <2>4. h.book = [i \in D |-> h.book[i]]
    BY ShadowIs DEF Proper
  <2>5. l.book = Promise!AfterFills(h.book, f)
    BY <1>3, <2>2, <2>3, <2>4
  <2>6. l.ahead = Promise!QueueOnly(h.ahead, S)
    BY <1>4, <1>5, <2>2, <2>3
  <2> QED
    BY <2>5, <2>6 DEF S
<1> QED
  BY <1>6, <1>7

\* execute.
LEMMA ExecuteKeeps ==
  ASSUME IInv, NEW id, NEW shares \in Int, Execute(id, shares)
  PROVE  Promise!Execute(id, shares)
<1> DEFINE s == Find(bk, id)
           o == bk.pool[s]
           v == Promise!SharesVerdict(id, shares)
           take == Smaller(shares, o.qty)
           f == [i \in {id} |-> take]
           w == IF take = shares THEN "None" ELSE "BadQty"
           e == TradeEvent(id, o.tick, take, o.qty - take)
           r == ExecuteIn(bk, id, shares)
           l == Give(Heard, id, take)
<1>1. Return(r)
  BY DEF Execute
<1>2. s # NullSlot <=> id \in DOMAIN shadow.book
  BY HeardIs, KnownIs
<1>3. s # NullSlot => shadow.book[id].qty = o.qty /\ o.qty \in Nat
  BY HeardIs, KnownIs
<1>4. v = IF s = NullSlot THEN "UnknownId" ELSE IF shares <= 0 THEN "BadQty" ELSE "None"
  BY <1>2, HeardIs DEF Promise!SharesVerdict
<1>5. CASE v # "None"
  <2>1. Return(Rejected(Step(bk, <<>>), id, v))
    BY <1>1, <1>4, <1>5 DEF ExecuteIn
  <2> HIDE DEF v
  <2>2. Promise!Refuse(v)
    BY <2>1, RefuseKeeps
  <2> QED
    BY <1>5, <2>2 DEF Promise!Execute, v
<1>6. CASE v = "None"
  <2>1. s # NullSlot /\ ~(shares <= 0)
    BY <1>4, <1>6
  <2>2. r.events = <<e>> /\ r.verdict = w
    BY <2>1 DEF ExecuteIn, Ended, Step
  <2>3. Observe(Heard, e) = l
    BY EventsAre
  <2>4. shadow' = l /\ out'.verdict = w
    <3> HIDE DEF r, e, l, w
    <3> QED
      BY <1>1, <2>2, <2>3, OneEvent, ReturnTells
  <2>5. take \in Nat /\ take <= o.qty
    <3>1. ASSUME NEW y \in Nat
          PROVE  Smaller(shares, y) \in Nat /\ Smaller(shares, y) <= y
      BY <2>1 DEF Smaller
    <3> HIDE DEF o, s
    <3> QED
      BY <1>3, <2>1, <3>1
  <2>6. take = Promise!Smaller(shares, shadow.book[id].qty)
    <3>1. shadow.book[id].qty = o.qty
      BY <1>3, <2>1
    <3> HIDE DEF o
    <3> QED
      BY <3>1, SameWords
  <2> HIDE DEF take
  <2>7. id \in DOMAIN Heard.book /\ take <= Heard.book[id].qty /\ take \in Int
    BY <1>2, <1>3, <2>1, <2>5, HeardIs
  <2>8. Lost(Heard, id, take, l)
    BY <2>7, HeardIs, GiveIs DEF Proper
  <2>9. l.fills = f
    <3> DEFINE k == Lose(Heard, id, take)
    <3>1. Heard \in Shadow
      BY HeardIs DEF Proper
    <3>2. k \in Shadow /\ k.fills = Heard.fills
      <4>1. Lost(Heard, id, take, k) /\ k.fills = Heard.fills
        BY <2>7, <3>1, LoseIs
      <4> HIDE DEF k
      <4> QED
        BY <4>1 DEF Lost
    <3>3. DOMAIN Heard.fills = {}
      BY HeardIs
    <3> DEFINE before == IF id \in DOMAIN Heard.fills THEN Heard.fills[id] ELSE 0
               E == DOMAIN Heard.fills \union {id}
               g == [i \in E |-> IF i = id THEN before + take ELSE Heard.fills[i]]
    <3>4. l = [k EXCEPT !.fills = g]
      BY <3>2 DEF Give, Shadow
    <3>5. E = {id} /\ before = 0
      BY <3>3
    <3> HIDE DEF E, before, k, l
    <3>6. g = f
      BY <2>7, <3>5
    <3> HIDE DEF g, f
    <3> QED
      BY <3>2, <3>4, <3>6 DEF Shadow
  <2> HIDE DEF l
  <2>10. /\ l.book = Promise!AfterFills(Heard.book, f)
         /\ l.ahead = Promise!QueueOnly(Heard.ahead, Promise!Survivors(Heard.book, f))
    <3>1. f = [i \in {id} |-> take]
      OBVIOUS
    <3>2. Proper(Heard)
      BY HeardIs
    <3>3. take \in Nat /\ take <= Heard.book[id].qty /\ id \in DOMAIN Heard.book
      BY <2>5, <2>7
    <3> HIDE DEF f
    <3> QED
      BY <2>8, <3>1, <3>2, <3>3, FilledIs
  <2> HIDE DEF v, f
  <2>11. /\ shadow'.book = Promise!AfterFills(shadow.book, f)
         /\ shadow'.ahead = Promise!QueueOnly(shadow.ahead, Promise!Survivors(shadow.book, f))
         /\ shadow'.fills = f
    BY <2>4, <2>9, <2>10, HeardIs
  <2>12. f = [i \in {id} |-> Promise!Smaller(shares, shadow.book[id].qty)]
    BY <2>6 DEF f
  <2>13. out'.verdict = IF Promise!Smaller(shares, shadow.book[id].qty) = shares
                          THEN "None" ELSE "BadQty"
    BY <2>4, <2>6
  <2>14. Promise!SharesVerdict(id, shares) = "None"
    BY <1>6 DEF v
  <2> DEFINE all == Promise!Smaller(shares, shadow.book[id].qty)
             g == [i \in {id} |-> all]
  <2>15. /\ shadow'.book = Promise!AfterFills(shadow.book, g)
         /\ shadow'.ahead = Promise!QueueOnly(shadow.ahead, Promise!Survivors(shadow.book, g))
         /\ shadow'.fills = g
    BY <2>11, <2>12
  <2> QED
    BY <2>13, <2>14, <2>15 DEF Promise!Execute
<1> QED
  BY <1>5, <1>6

\* The common end of replace and modify.
LEMMA ReenterKeeps ==
  ASSUME IInv, NEW old, NEW new \in AnyId, Find(bk, old) # NullSlot,
         NEW tick \in Int, NEW qty \in Int, Return(Reenter(bk, old, new, tick, qty))
  PROVE  Promise!Reenter(old, new, tick, qty)
<1> DEFINE s == Find(bk, old)
           r == RemoveResting(Step(bk, <<>>), s, "Replace")
           side == bk.pool[s].side
           a == AddLimitTo(r, new, side, tick, qty, "Gtc")
           h == Told(Heard, r.events)
           l == Lose(Heard, old, Heard.book[old].qty)
<1>1. /\ old \in DOMAIN Heard.book /\ s \in LiveSlots(bk) /\ bk.pool[s].id = old
      /\ Heard.book[old].qty = bk.pool[s].qty /\ bk.pool[s].qty \in Nat
      /\ Heard.book[old].side = side /\ side \in Sides
  BY HeardIs, KnownIs
<1>2. r = Step(r.b, r.events) /\ Fine(r, Heard) /\ h = l
  <2> HIDE DEF s
  <2>1. "Replace" \in {"User", "Replace"}
    OBVIOUS
  <2>2. /\ r = Step(r.b, r.events) /\ Fine(r, Heard)
        /\ h = Lose(Told(Heard, <<>>), bk.pool[s].id, bk.pool[s].qty)
    BY <1>1, <2>1, HeardIs, RemoveFine
  <2> QED
    BY <1>1, <2>2, HeardIs
<1>3. Lost(Heard, old, Heard.book[old].qty, l) /\ l.fills = Heard.fills
  <2>1. Heard \in Shadow /\ Heard.book[old].qty \in Int
    BY <1>1, HeardIs DEF Proper
  <2> QED
    BY <1>1, <2>1, LoseIs
<1>4. Return(a)
  BY DEF Reenter
<1>5. "Gtc" \in Tifs
  BY DEF Tifs
<1> HIDE DEF l
<1>6. /\ l.book = Promise!Without(Heard.book, old)
      /\ l.ahead = Promise!QueueWithout(Heard.ahead, Heard.book, old)
  BY <1>1, <1>3, HeardIs, LostAllIs
<1> HIDE DEF r, side
<1>7. AddKeepsPromise(h, Told(Heard, a.events), a.verdict, new, side, tick, qty, "Gtc")
  <2>1. Fine(Step(r.b, r.events), Heard)
    BY <1>2
  <2>2. DOMAIN h.fills = {}
    <3> HIDE DEF h
    <3> QED
      BY <1>2, <1>3, HeardIs
  <2>3. LET z == AddLimitTo(Step(r.b, r.events), new, side, tick, qty, "Gtc") IN
        AddKeepsPromise(h, Told(Heard, z.events), z.verdict, new, side, tick, qty, "Gtc")
    BY <1>1, <1>5, <2>1, <2>2, AddLimitMeets
  <2> QED
    BY <1>2, <2>3
<1> HIDE DEF a, h
<1>8. AddKeepsPromise(h, shadow', out'.verdict, new, side, tick, qty, "Gtc")
  BY <1>4, <1>7, ReturnTells
<1>9. h.fills = Promise!NoFills
  BY <1>2, <1>3, HeardIs
<1>10. Promise!AddLimitTo(h.book, h.ahead, new, side, tick, qty, "Gtc")
  BY <1>8, <1>9, MeetsKeeps
<1>11. /\ h.book = Promise!Without(shadow.book, old)
       /\ h.ahead = Promise!QueueWithout(shadow.ahead, shadow.book, old)
       /\ side = shadow.book[old].side
  BY <1>1, <1>2, <1>6, HeardIs
<1> QED
  BY <1>10, <1>11 DEF Promise!Reenter

\* The checks that modify and replace share.
LEMMA ResizeKeeps ==
  ASSUME IInv, NEW id, NEW tick, NEW qty
  PROVE  Promise!ResizeVerdict(id, tick, qty) = ResizeVerdict(bk, id, tick, qty)
<1>1. Find(bk, id) # NullSlot <=> id \in Promise!Resting
  BY HeardIs, KnownIs
<1>2. Promise!Ticks = Ticks
  BY SameWords
<1> QED
  BY <1>1, <1>2 DEF Promise!ResizeVerdict, ResizeVerdict

\* modify.
LEMMA ModifyKeeps ==
  ASSUME IInv, NEW id \in AnyId, NEW tick \in Int, NEW qty \in Int, Modify(id, tick, qty)
  PROVE  Promise!Modify(id, tick, qty)
<1> DEFINE v == ResizeVerdict(bk, id, tick, qty)
           s == Find(bk, id)
           o == bk.pool[s]
<1>1. Return(ModifyIn(bk, id, tick, qty))
  BY DEF Modify
<1>2. Promise!ResizeVerdict(id, tick, qty) = v
  BY ResizeKeeps
<1>3. CASE v # "None"
  <2>1. Return(Rejected(Step(bk, <<>>), id, v))
    BY <1>1, <1>3 DEF ModifyIn
  <2> HIDE DEF v
  <2>2. Promise!Refuse(v)
    BY <2>1, RefuseKeeps
  <2> QED
    BY <1>2, <1>3, <2>2 DEF Promise!Modify
<1>4. CASE v = "None"
  <2>1. s # NullSlot /\ ~(qty <= 0)
    BY <1>4 DEF ResizeVerdict
  <2>2. /\ shadow.book[id].qty = o.qty /\ shadow.book[id].tick = o.tick /\ o.qty \in Nat
        /\ id \in DOMAIN shadow.book
    BY <2>1, HeardIs, KnownIs
  <2>3. CASE tick = o.tick /\ qty = o.qty
    <3> DEFINE r == Ended(Step(bk, <<>>), "None")
    <3>1. Return(r)
      BY <1>1, <1>4, <2>3 DEF ModifyIn
    <3>2. r.events = <<>> /\ r.verdict = "None"
      BY DEF Ended, Step
    <3> HIDE DEF r
    <3>3. shadow' = Heard /\ out'.verdict = "None"
      BY <3>1, <3>2, ReturnTells, HeardIs
    <3>4. shadow'.book = shadow.book /\ shadow'.ahead = shadow.ahead /\ shadow'.fills = Promise!NoFills
      BY <3>3, HeardIs
    <3>5. shadow.book = [shadow.book EXCEPT ![id].qty = qty]
      <4>1. shadow.book \in [DOMAIN shadow.book -> Lines]
        BY ShadowIs, HeardIs DEF Proper
      <4>2. \A x \in Lines : [x EXCEPT !.qty = x.qty] = x
        BY DEF Lines
      <4>3. shadow.book[id].qty = qty
        BY <2>2, <2>3
      <4> HIDE DEF o, s
      <4> QED
        BY <2>2, <4>1, <4>2, <4>3
    <3>6. Promise!Shrink(id, qty)
      BY <3>3, <3>4, <3>5 DEF Promise!Shrink
    <3>7. tick = shadow.book[id].tick /\ qty <= shadow.book[id].qty
      BY <2>2, <2>3
    <3> QED
      BY <1>2, <1>4, <3>6, <3>7 DEF Promise!Modify
  <2>4. CASE tick = o.tick /\ ~(qty = o.qty) /\ qty < o.qty
    <3> DEFINE d == o.qty - qty
    <3>1. Return(Ended(ShrinkBy(bk, s, d, "Replace"), "None"))
      BY <1>1, <1>4, <2>4 DEF ModifyIn
    <3>2. d \in Nat /\ d < shadow.book[id].qty /\ shadow.book[id].qty - d = qty
      <4> HIDE DEF o
      <4> QED
        BY <2>1, <2>2, <2>4
    <3> HIDE DEF d
    <3>3. Promise!Shrink(id, shadow.book[id].qty - d)
      BY <2>1, <3>1, <3>2, ShrinkKeeps
    <3>4. tick = shadow.book[id].tick /\ qty <= shadow.book[id].qty
      BY <2>2, <2>4
    <3> QED
      BY <1>2, <1>4, <3>2, <3>3, <3>4 DEF Promise!Modify
  <2>5. CASE ~(tick = o.tick /\ qty = o.qty) /\ ~(tick = o.tick /\ qty < o.qty)
    <3>1. Return(Reenter(bk, id, id, tick, qty))
      BY <1>1, <1>4, <2>5 DEF ModifyIn
    <3>2. Promise!Reenter(id, id, tick, qty)
      BY <2>1, <3>1, ReenterKeeps
    <3>3. ~(tick = shadow.book[id].tick /\ qty <= shadow.book[id].qty)
      <4> HIDE DEF o
      <4> QED
        BY <2>2, <2>5
    <3> QED
      BY <1>2, <1>4, <3>2, <3>3 DEF Promise!Modify
  <2> QED
    BY <2>3, <2>4, <2>5
<1> QED
  BY <1>3, <1>4

\* replace.
LEMMA ReplaceKeeps ==
  ASSUME IInv, NEW orig, NEW new \in AnyId, NEW tick \in Int, NEW qty \in Int,
         Replace(orig, new, tick, qty)
  PROVE  Promise!Replace(orig, new, tick, qty)
<1> DEFINE w == ResizeVerdict(bk, orig, tick, qty)
           e == IF w = "UnknownId" THEN orig ELSE new
<1>1. Return(ReplaceIn(bk, orig, new, tick, qty))
  BY DEF Replace
<1>2. Promise!ResizeVerdict(orig, tick, qty) = w
  BY ResizeKeeps
<1>3. Find(bk, new) # NullSlot <=> new \in Promise!Resting
  BY HeardIs, KnownIs
<1>4. CASE w # "None"
  <2>1. Return(Rejected(Step(bk, <<>>), e, w))
    BY <1>1, <1>4 DEF ReplaceIn
  <2> HIDE DEF w, e
  <2>2. Promise!Refuse(w)
    BY <2>1, RefuseKeeps
  <2> QED
    BY <1>2, <1>4, <2>2 DEF Promise!Replace
<1>5. CASE w = "None" /\ new # orig /\ Find(bk, new) # NullSlot
  <2>1. Return(Rejected(Step(bk, <<>>), new, "DuplicateId"))
    BY <1>1, <1>5 DEF ReplaceIn
  <2>2. Promise!Refuse("DuplicateId")
    BY <2>1, RefuseKeeps
  <2> HIDE DEF w
  <2> QED
    BY <1>2, <1>3, <1>5, <2>2 DEF Promise!Replace
<1>6. CASE w = "None" /\ ~(new # orig /\ Find(bk, new) # NullSlot)
  <2>1. Return(Reenter(bk, orig, new, tick, qty))
    BY <1>1, <1>6 DEF ReplaceIn
  <2>2. Find(bk, orig) # NullSlot
    BY <1>6 DEF ResizeVerdict
  <2>3. Promise!Reenter(orig, new, tick, qty)
    BY <2>1, <2>2, ReenterKeeps
  <2> HIDE DEF w
  <2> QED
    BY <1>2, <1>3, <1>6, <2>3 DEF Promise!Replace
<1> QED
  BY <1>4, <1>5, <1>6

\* Whatever the command, the call does what the promise says.
LEMMA ApplyKeeps ==
  ASSUME IInv, NEW c \in Commands, Apply(c)
  PROVE  Promise!Apply(c)
<1>0. InTicks \subseteq Int /\ InQty \subseteq Int
  BY BookAssumption
<1>1. CASE c.type = "AddLimit" /\ AddLimit(c.id, c.side, c.tick, c.qty, c.tif)
  <2>1. c.id \in AnyId /\ c.side \in Sides /\ c.tick \in Int /\ c.qty \in Int /\ c.tif \in Tifs
    BY <1>0, <1>1 DEF Commands
  <2>2. Promise!AddLimit(c.id, c.side, c.tick, c.qty, c.tif)
    BY <1>1, <2>1, AddLimitKeeps
  <2> QED
    BY <1>1, <2>2 DEF Promise!Apply
<1>2. CASE c.type = "AddMarket" /\ AddMarket(c.id, c.side, c.qty)
  <2>1. c.side \in Sides /\ c.qty \in Int
    BY <1>0, <1>2 DEF Commands
  <2>2. Promise!AddMarket(c.id, c.side, c.qty)
    BY <1>2, <2>1, AddMarketKeeps
  <2> QED
    BY <1>2, <2>2 DEF Promise!Apply
<1>3. CASE c.type = "Cancel" /\ Cancel(c.id)
  <2>1. Promise!Cancel(c.id)
    BY <1>3, CancelKeeps
  <2> QED
    BY <1>3, <2>1 DEF Promise!Apply
<1>4. CASE c.type = "Modify" /\ Modify(c.id, c.tick, c.qty)
  <2>1. c.id \in AnyId /\ c.tick \in Int /\ c.qty \in Int
    BY <1>0, <1>4 DEF Commands, AnyId
  <2>2. Promise!Modify(c.id, c.tick, c.qty)
    BY <1>4, <2>1, ModifyKeeps
  <2> QED
    BY <1>4, <2>2 DEF Promise!Apply
<1>5. CASE c.type = "Reduce" /\ Reduce(c.id, c.qty)
  <2>1. c.qty \in Int
    BY <1>0, <1>5 DEF Commands
  <2>2. Promise!Reduce(c.id, c.qty)
    BY <1>5, <2>1, ReduceKeeps
  <2> QED
    BY <1>5, <2>2 DEF Promise!Apply
<1>6. CASE c.type = "Execute" /\ Execute(c.id, c.qty)
  <2>1. c.qty \in Int
    BY <1>0, <1>6 DEF Commands
  <2>2. Promise!Execute(c.id, c.qty)
    BY <1>6, <2>1, ExecuteKeeps
  <2> QED
    BY <1>6, <2>2 DEF Promise!Apply
<1>7. CASE c.type = "Replace" /\ Replace(c.id, c.id2, c.tick, c.qty)
  <2>1. c.id2 \in AnyId /\ c.tick \in Int /\ c.qty \in Int
    BY <1>0, <1>7 DEF Commands
  <2>2. Promise!Replace(c.id, c.id2, c.tick, c.qty)
    BY <1>7, <2>1, ReplaceKeeps
  <2> QED
    BY <1>7, <2>2 DEF Promise!Apply
<1> QED
  BY <1>1, <1>2, <1>3, <1>4, <1>5, <1>6, <1>7 DEF Apply

\* clear leaves what the promise says it leaves.
LEMMA ClearKeeps ==
  ASSUME Clear
  PROVE  Promise!Clear
<1> DEFINE none == [i \in {} |-> 0]
<1>1. EmptyShadow = [book |-> none, ahead |-> {}, fills |-> none] /\ Promise!NoFills = none
  BY DEF EmptyShadow, Promise!NoFills
<1>2. /\ cmd' = ClearCall /\ out'.verdict = "None"
      /\ shadow' = EmptyShadow
  BY DEF Clear
<1>3. Promise!ClearCall = ClearCall
  BY SameWords
<1> HIDE DEF none
<1>4. shadow'.book = none /\ shadow'.ahead = {} /\ shadow'.fills = Promise!NoFills
  BY <1>1, <1>2
<1> QED
  BY <1>2, <1>3, <1>4 DEF Promise!Clear, none

\* A book that begins empty begins as the promise says.
LEMMA InitKeeps == Init => Promise!Init
<1> SUFFICES ASSUME Init PROVE Promise!Init
  OBVIOUS
<1> DEFINE none == [i \in {} |-> 0]
<1>1. EmptyShadow = [book |-> none, ahead |-> {}, fills |-> none] /\ Promise!NoFills = none
  BY DEF EmptyShadow, Promise!NoFills
<1>2. cmd = ClearCall /\ out.verdict = "None" /\ shadow = EmptyShadow
  BY DEF Init
<1>3. Promise!ClearCall = ClearCall
  BY SameWords
<1> HIDE DEF none
<1>4. shadow.book = none /\ shadow.ahead = {} /\ shadow.fills = Promise!NoFills
  BY <1>1, <1>2
<1> QED
  BY <1>2, <1>3, <1>4 DEF Promise!Init, none

\* Every step of the book is a step of the promise, or none.
LEMMA NextKeeps ==
  ASSUME IInv, [Next]_vars
  PROVE  [Promise!Next]_(Promise!vars)
<1>1. Promise!Commands = Commands
  BY DEF Promise!Commands, Commands, Promise!AnyId, AnyId, Promise!Sides, Sides, Promise!Tifs, Tifs
<1>2. \A c \in Commands : Apply(c) => Promise!Apply(c)
  BY ApplyKeeps
<1>3. CASE cmd' \in Commands /\ Apply(cmd')
  <2>1. cmd' \in Promise!Commands /\ Promise!Apply(cmd')
    BY <1>1, <1>2, <1>3
  <2> QED
    BY <2>1 DEF Promise!Next
<1>4. CASE Clear
  <2>1. Promise!Clear
    BY <1>4, ClearKeeps
  <2> QED
    BY <2>1 DEF Promise!Next
<1>5. CASE UNCHANGED vars
  BY <1>5 DEF vars, Promise!vars
<1> QED
  BY <1>3, <1>4, <1>5 DEF Next

\* The pointer-level book implements price-time priority: after every sequence of
\* calls, whatever the number of levels, words and slots, it has answered, traded
\* and queued as the book of PriceTime would, and an observer of its events saw it.
THEOREM SpecKeepsPromise == Spec => KeepsPromise
<1>1. Init => Promise!Init
  BY InitKeeps
<1>2. IInv /\ [Next]_vars => [Promise!Next]_(Promise!vars)
  BY NextKeeps
<1>3. Spec => []IInv
  BY SpecIInv
<1> QED
  BY <1>1, <1>2, <1>3, PTL DEF Spec, KeepsPromise, Promise!Spec

-----------------------------------------------------------------------------
(***************************************************************************)
(* What a caller reads off the book.                                        *)
(***************************************************************************)

\* What the orders in S have, as QueriesAgree adds it up.
OrdersHave(h, S) == MapThenSumSet(LAMBDA i : h.book[i].qty, S)

\* The slots of the orders in S.
SlotsOf(b, S) == {b.ids[i] : i \in S}

\* What an observer knows of an order is what its slot holds.
LEMMA KnownSlot ==
  ASSUME NEW b, NEW age, NEW now, NEW M, Kept(b, age, now, M), NEW h, Mirror(b, age, h),
         NEW i \in DOMAIN h.book
  PROVE  /\ i \in DOMAIN b.ids /\ b.ids[i] \in LiveSlots(b) /\ b.ids[i] \in Slots
         /\ b.pool[b.ids[i]].id = i /\ h.book[i].side = b.pool[b.ids[i]].side
         /\ h.book[i].tick = b.pool[b.ids[i]].tick
         /\ h.book[i].qty = b.pool[b.ids[i]].qty /\ h.book[i].qty \in Nat \ {0}
<1> DEFINE o == b.pool[b.ids[i]]
<1>1. b \in Book /\ Sound(b) /\ Indexed(b) /\ i \in DOMAIN b.ids /\ h.book[i] = LineOf(o)
  BY DEF Kept, Mirror
<1>2. b.ids[i] \in LiveSlots(b) /\ b.ids[i] \in Slots /\ o.id = i /\ o.qty \in Nat \ {0}
  BY <1>1, NamedIs
<1>3. LineOf(o).side = o.side /\ LineOf(o).tick = o.tick /\ LineOf(o).qty = o.qty
  BY DEF LineOf
<1> QED
  BY <1>1, <1>2, <1>3

\* Every live slot is that of an order the observer knows.
LEMMA SlotKnown ==
  ASSUME NEW b, NEW age, NEW now, NEW M, Kept(b, age, now, M), NEW h, Mirror(b, age, h),
         NEW s \in LiveSlots(b)
  PROVE  b.pool[s].id \in DOMAIN h.book /\ b.ids[b.pool[s].id] = s
BY DEF Kept, Mirror, Sound

\* Orders an observer knows have together what their slots weigh.
LEMMA OrdersWeigh ==
  ASSUME NEW b, NEW age, NEW now, NEW M, Kept(b, age, now, M), NEW h, Mirror(b, age, h),
         NEW S \in SUBSET (DOMAIN h.book)
  PROVE  OrdersHave(h, S) = M[SlotsOf(b, S)]
<1> DEFINE I(R) == SlotsOf(b, R)
           Sums(g) == g = [R \in SUBSET S |->
                             IF R = {} THEN 0
                             ELSE h.book[CHOOSE y \in R : TRUE].qty
                                    + g[R \ {CHOOSE y \in R : TRUE}]]
           p == CHOOSE g : Sums(g)
           W == [R \in SUBSET S |-> M[I(R)]]
<1>1. b \in Book /\ Weighs(M, b) /\ IsFiniteSet(S)
  <2>1. Faithful(b, h)
    BY DEF Faithful
  <2>2. IsFiniteSet(DOMAIN h.book)
    BY <2>1, FaithfulIsProper DEF Proper
  <2> QED
    BY <2>2, FS_Subset DEF Kept
<1>2. \A i \in S : /\ b.ids[i] \in Slots /\ b.pool[b.ids[i]].id = i
                   /\ h.book[i].qty = b.pool[b.ids[i]].qty /\ h.book[i].qty \in Nat
  BY KnownSlot
<1>3. ASSUME NEW R \in SUBSET S, NEW x \in R
      PROVE  M[I(R)] = h.book[x].qty + M[I(R \ {x})]
  <2>1. I(R) \in SUBSET Slots /\ b.ids[x] \in I(R)
    BY <1>2 DEF SlotsOf
  <2>2. I(R) \ {b.ids[x]} = I(R \ {x})
    BY <1>2 DEF SlotsOf
  <2> HIDE DEF I
  <2>3. M[I(R)] = M[I(R) \ {b.ids[x]}] + b.pool[b.ids[x]].qty
    BY <1>1, <2>1, WeighsPart
  <2>4. M[I(R \ {x})] \in Nat
    <3>1. I(R \ {x}) \in SUBSET Slots
      BY <2>1, <2>2
    <3> QED
      BY <1>1, <3>1 DEF Weighs
  <2>5. x \in S /\ h.book[x].qty = b.pool[b.ids[x]].qty /\ h.book[x].qty \in Nat
    BY <1>2
  <2>6. M[I(R)] = M[I(R \ {x})] + h.book[x].qty
    BY <2>2, <2>3, <2>5
  <2> QED
    BY <2>4, <2>5, <2>6
<1>4. ASSUME NEW R \in SUBSET S
      PROVE  W[R] = IF R = {} THEN 0
                    ELSE h.book[CHOOSE y \in R : TRUE].qty + W[R \ {CHOOSE y \in R : TRUE}]
  <2>1. CASE R = {}
    <3>1. I(R) = {}
      BY <2>1 DEF SlotsOf
    <3> HIDE DEF I
    <3> QED
      BY <1>1, <2>1, <3>1 DEF Weighs
  <2>2. CASE R # {}
    <3> DEFINE x == CHOOSE y \in R : TRUE
    <3>1. x \in R
      BY <2>2
    <3> HIDE DEF x, I
    <3>2. M[I(R)] = h.book[x].qty + M[I(R \ {x})]
      BY <1>3, <3>1
    <3>3. W[R] = M[I(R)] /\ W[R \ {x}] = M[I(R \ {x})]
      OBVIOUS
    <3> QED
      BY <2>2, <3>2, <3>3 DEF x
  <2> QED
    BY <2>1, <2>2
<1> HIDE DEF I
<1>5. Sums(W)
  <2>1. W = [R \in SUBSET S |-> W[R]]
    OBVIOUS
  <2> HIDE DEF W
  <2> QED
    BY <1>4, <2>1
<1>6. Sums(p)
  BY <1>5
<1>7. OrdersHave(h, S) = p[S]
  BY DEF OrdersHave, MapThenSumSet, MapThenFoldSet
<1> HIDE DEF p
<1> DEFINE T == {R \in SUBSET S : p[R] # W[R]}
<1>8. T = {}
  <2> SUFFICES ASSUME T # {} PROVE FALSE
    OBVIOUS
  <2>1. PICK R \in T : \A x \in R : R \ {x} \notin T
    <3>1. T \in SUBSET (SUBSET S)
      OBVIOUS
    <3> HIDE DEF T
    <3> QED
      BY <1>1, <3>1, LeastSet
  <2> DEFINE x == CHOOSE y \in R : TRUE
  <2>2. R \in SUBSET S /\ p[R] # W[R]
    BY <2>1
  <2>3. p[R] = IF R = {} THEN 0 ELSE h.book[x].qty + p[R \ {x}]
    BY <1>6, <2>2
  <2>4. W[R] = IF R = {} THEN 0 ELSE h.book[x].qty + W[R \ {x}]
    BY <1>4, <2>2
  <2>5. R # {}
    BY <2>2, <2>3, <2>4
  <2>6. x \in R /\ R \ {x} \in SUBSET S
    BY <2>2, <2>5
  <2> HIDE DEF x
  <2>7. p[R \ {x}] = W[R \ {x}]
    BY <2>1, <2>6
  <2> QED
    BY <2>2, <2>3, <2>4, <2>5, <2>7
<1>9. W[S] = M[I(S)] /\ S \in SUBSET S
  OBVIOUS
<1> QED
  BY <1>7, <1>8, <1>9 DEF I

\* There are as many orders in S as slots.
LEMMA SlotsCount ==
  ASSUME NEW b, NEW age, NEW now, NEW M, Kept(b, age, now, M), NEW h, Mirror(b, age, h),
         NEW S \in SUBSET (DOMAIN h.book)
  PROVE  Cardinality(S) = Cardinality(SlotsOf(b, S))
<1> DEFINE f == [i \in S |-> b.ids[i]]
           R == SlotsOf(b, S)
<1>1. \A i \in S : b.ids[i] \in R /\ b.pool[b.ids[i]].id = i
  BY KnownSlot DEF SlotsOf
<1>2. \A s \in R : \E i \in S : f[i] = s
  BY DEF SlotsOf
<1>3. IsFiniteSet(S)
  <2>1. Faithful(b, h)
    BY DEF Faithful
  <2>2. IsFiniteSet(DOMAIN h.book)
    BY <2>1, FaithfulIsProper DEF Proper
  <2> QED
    BY <2>2, FS_Subset
<1> HIDE DEF R
<1>4. f \in Bijection(S, R)
  BY <1>1, <1>2 DEF Bijection, Injection, Surjection, IsInjective
<1> HIDE DEF f
<1>5. Cardinality(S) = Cardinality(R)
  BY <1>3, <1>4, FS_Bijection DEF ExistsBijection
<1> QED
  BY <1>5 DEF R

-----------------------------------------------------------------------------
(***************************************************************************)
(* The ladder of a side: the levels a taker of the other side meets.        *)
(***************************************************************************)

\* Numbers up to d, each with all before it, are the first few.
LEMMA FirstFew ==
  ASSUME NEW d \in Nat, NEW S \in SUBSET (1 .. d), \A j \in S : j # 1 => j - 1 \in S
  PROVE  Cardinality(S) \in Nat /\ Cardinality(S) <= d /\ S = 1 .. Cardinality(S)
<1> DEFINE T == {j \in 1 .. d + 1 : j \notin S}
<1>1. PICK m \in T : \A j \in T : m <= j
  <2>1. d + 1 \in T /\ T \subseteq Nat
    OBVIOUS
  <2> HIDE DEF T
  <2> QED
    BY <2>1, LeastNat
<1>2. m \in 1 .. d + 1 /\ m \notin S
  BY <1>1
<1>3. \A j \in 1 .. m - 1 : j \in S
  <2> SUFFICES ASSUME NEW j \in 1 .. m - 1, j \notin S PROVE FALSE
    OBVIOUS
  <2>1. j \in 1 .. d + 1 /\ ~(m <= j)
    BY <1>2
  <2> QED
    BY <1>1, <2>1
<1>4. \A j \in S : j \in 1 .. m - 1
  <2> DEFINE R == {j \in S : m <= j}
  <2> SUFFICES ASSUME R # {} PROVE FALSE
    BY <1>2
  <2>1. PICK k \in R : \A j \in R : k <= j
    <3>1. R \subseteq S /\ S \subseteq Nat
      <4> HIDE DEF T
      <4> QED
        OBVIOUS
    <3> HIDE DEF R
    <3> QED
      BY <3>1, LeastNat
  <2>2. k \in S /\ m <= k /\ k # m /\ k # 1 /\ k \in Nat
    BY <1>2, <2>1
  <2>3. k - 1 \in S /\ m <= k - 1 /\ ~(k <= k - 1)
    BY <1>2, <2>2
  <2> QED
    BY <2>1, <2>3
<1>5. S = 1 .. m - 1
  BY <1>3, <1>4
<1>6. Cardinality(1 .. m - 1) = m - 1 /\ m - 1 \in Nat /\ m - 1 <= d
  <2>1. 1 \in Int /\ m - 1 \in Int /\ (1 > m - 1 => m - 1 = 0) /\ (m - 1) - 1 + 1 = m - 1
    BY <1>2
  <2>2. Cardinality(1 .. m - 1) = m - 1
    BY <2>1, FS_Interval
  <2> QED
    BY <1>2, <2>2
<1> QED
  BY <1>5, <1>6

\* The n levels in at are those of the makers a taker meets, in the order it
\* meets them.
Ladder(b, taker, at, n) ==
  /\ n \in Nat /\ at \in [1 .. n -> Levels]
  /\ \A k \in 1 .. n : At(b, at[k]) # {} /\ At(b, at[k]) \subseteq Makers(b, taker)
  /\ \A j, k \in 1 .. n : j < k => Better(taker, TickOf(at[j]), TickOf(at[k]))
  /\ \A s \in Makers(b, taker) : \E k \in 1 .. n : s \in At(b, at[k])

\* What a caller is told of level i.
Rung(b, i) == [tick |-> TickOf(i), qty |-> b.levels[i].qty, orders |-> b.levels[i].orders]

\* at is the walk of top_levels, from level i on.
Climbs(at, b, side, i, depth) ==
  at = [k \in 1 .. depth |->
          IF k = 1 THEN IF side = "Buy" THEN ScanDown(b, i) ELSE ScanUp(b, i)
          ELSE IF at[k - 1] = Npos THEN Npos ELSE Beyond(b, Opposite(side), at[k - 1])]

\* F is a walk of available to the far end of the range, over the orders of side.
Outward(F, b, side, i) ==
  /\ F[0].at = (IF side = "Buy" THEN ScanDown(b, i) ELSE ScanUp(b, i))
  /\ \A k \in 1 .. LevelCount :
       F[k] = Onward(F[k - 1], b, Opposite(side), FarTick(Opposite(side)))
  /\ \A k \in 0 .. LevelCount : F[k].at = Npos \/ F[k].at \in Levels

\* How many levels it meets, and what a caller is told of them.
LevelsMet(F) == Cardinality({j \in 1 .. LevelCount : F[j - 1].at # Npos})
RungsOf(b, F, n) == [k \in 1 .. n |-> Rung(b, F[k - 1].at)]

\* top_levels walks as available does.
LEMMA LevelsRun ==
  ASSUME NEW b, NEW side \in Sides, NEW i, NEW F, Outward(F, b, side, i)
  PROVE  LevelsFrom(b, side, i, LevelCount) = RungsOf(b, F, LevelsMet(F))
<1> DEFINE n == LevelsMet(F)
<1>1. /\ F[0].at = (IF side = "Buy" THEN ScanDown(b, i) ELSE ScanUp(b, i))
      /\ \A k \in 1 .. LevelCount :
           F[k] = Onward(F[k - 1], b, Opposite(side), FarTick(Opposite(side)))
      /\ \A k \in 0 .. LevelCount : F[k].at = Npos \/ F[k].at \in Levels
      /\ n = Cardinality({j \in 1 .. LevelCount : F[j - 1].at # Npos})
  BY DEF Outward, LevelsMet
<1> HIDE DEF n
<1> DEFINE t == Opposite(side)
           G == [k \in 1 .. LevelCount |-> F[k - 1].at]
           p == CHOOSE at : Climbs(at, b, side, i, LevelCount)
           start == IF side = "Buy" THEN ScanDown(b, i) ELSE ScanUp(b, i)
           then(x) == IF x = Npos THEN Npos ELSE Beyond(b, t, x)
<1>2. LevelCount \in Nat \ {0}
  BY LevelsAre
<1>3. \A x \in Levels : Reaches(t, FarTick(t), TickOf(x))
  BY LevelsAre, BookAssumption DEF Reaches, FarTick, Ticks
<1>4. ASSUME NEW k \in 1 .. LevelCount
      PROVE  F[k].at = then(F[k - 1].at)
  <2>1. k - 1 \in 0 .. LevelCount
    BY <1>2
  <2>2. F[k] = Onward(F[k - 1], b, t, FarTick(t))
    BY <1>1
  <2>3. CASE F[k - 1].at = Npos
    BY <2>2, <2>3 DEF Onward
  <2>4. CASE F[k - 1].at # Npos
    <3>1. Reaches(t, FarTick(t), TickOf(F[k - 1].at))
      BY <1>3, <1>1, <2>1, <2>4
    <3>2. F[k] = [at |-> Beyond(b, t, F[k - 1].at),
                  qty |-> F[k - 1].qty + b.levels[F[k - 1].at].qty]
      BY <2>2, <2>4, <3>1 DEF Onward
    <3> QED
      BY <2>4, <3>2
  <2> QED
    BY <2>3, <2>4
<1>5. ASSUME NEW k \in 1 .. LevelCount
      PROVE  G[k] = IF k = 1 THEN start ELSE then(G[k - 1])
  <2>1. CASE k = 1
    BY <1>1, <2>1
  <2>2. CASE k # 1
    <3>1. k - 1 \in 1 .. LevelCount /\ G[k] = F[k - 1].at /\ G[k - 1] = F[k - 1 - 1].at
      BY <1>2, <2>2
    <3>2. F[k - 1].at = then(F[k - 1 - 1].at)
      BY <1>4, <3>1
    <3> QED
      BY <2>2, <3>1, <3>2
  <2> QED
    BY <2>1, <2>2
<1>6. Climbs(G, b, side, i, LevelCount)
  <2>1. G = [k \in 1 .. LevelCount |-> G[k]]
    OBVIOUS
  <2> HIDE DEF G
  <2> QED
    BY <1>5, <2>1 DEF Climbs
<1>7. Climbs(p, b, side, i, LevelCount)
  BY <1>6
<1>8. LevelsFrom(b, side, i, LevelCount)
        = [k \in 1 .. Cardinality({j \in 1 .. LevelCount : p[j] # Npos}) |-> Rung(b, p[k])]
  BY DEF LevelsFrom, Climbs, Rung
<1> HIDE DEF p
<1>9. ASSUME NEW k \in 1 .. LevelCount
      PROVE  p[k] = IF k = 1 THEN start ELSE then(p[k - 1])
  <2> HIDE DEF G
  <2> QED
    BY <1>7 DEF Climbs
<1> DEFINE T == {k \in 1 .. LevelCount : p[k] # G[k]}
<1>10. T = {}
  <2> SUFFICES ASSUME T # {} PROVE FALSE
    OBVIOUS
  <2>1. PICK k \in T : \A j \in T : k <= j
    <3>1. T \subseteq Nat
      BY <1>2
    <3> HIDE DEF T
    <3> QED
      BY <3>1, LeastNat
  <2>2. k \in 1 .. LevelCount /\ p[k] # G[k]
    BY <2>1
  <2> HIDE DEF G, start, then
  <2>3. k # 1
    BY <1>5, <1>9, <2>2
  <2>4. k - 1 \in 1 .. LevelCount /\ ~(k <= k - 1)
    BY <1>2, <2>2, <2>3
  <2>5. p[k - 1] = G[k - 1]
    BY <2>1, <2>4
  <2> QED
    BY <1>5, <1>9, <2>2, <2>3, <2>5
<1>11. \A k \in 1 .. LevelCount : p[k] = F[k - 1].at
  BY <1>10
<1>12. {j \in 1 .. LevelCount : p[j] # Npos} = {j \in 1 .. LevelCount : F[j - 1].at # Npos}
  BY <1>11
<1> DEFINE S == {j \in 1 .. LevelCount : F[j - 1].at # Npos}
<1>13. n <= LevelCount /\ n \in Nat
  <2>1. IsFiniteSet(1 .. LevelCount) /\ Cardinality(1 .. LevelCount) = LevelCount
    <3>1. 1 \in Int /\ LevelCount \in Int /\ ~(1 > LevelCount) /\ LevelCount - 1 + 1 = LevelCount
      BY <1>2
    <3> QED
      BY <3>1, FS_Interval
  <2>2. S \subseteq 1 .. LevelCount /\ n = Cardinality(S)
    BY <1>1
  <2> HIDE DEF S
  <2> QED
    BY <2>1, <2>2, FS_Subset, FS_CardinalityType
<1>14. \A k \in 1 .. n : p[k] = F[k - 1].at
  <2>1. \A k \in 1 .. n : k \in 1 .. LevelCount
    BY <1>2, <1>13
  <2> QED
    BY <1>11, <2>1
<1> HIDE DEF S
<1>15. LevelsFrom(b, side, i, LevelCount) = [k \in 1 .. n |-> Rung(b, p[k])]
  BY <1>8, <1>12, <1>1 DEF S
<1>16. LevelsFrom(b, side, i, LevelCount) = [k \in 1 .. n |-> Rung(b, F[k - 1].at)]
  BY <1>14, <1>15
<1> QED
  BY <1>16 DEF n, RungsOf

\* The walk meets every level of makers, from the best one outward.
LEMMA LadderOf ==
  ASSUME NEW b, NEW age, NEW now, NEW M, Kept(b, age, now, M), Settled(b), NEW t \in Sides,
         NEW F, \A k \in 0 .. LevelCount : Walking(b, M, t, FarTick(t), F[k], k),
         \A k \in 1 .. LevelCount : F[k] = Onward(F[k - 1], b, t, FarTick(t)),
         Passed(b, t, F[0].at) = {}, NEW n, n = LevelsMet(F)
  PROVE  Ladder(b, t, [k \in 1 .. n |-> F[k - 1].at], n)
<1> DEFINE S == {j \in 1 .. LevelCount : F[j - 1].at # Npos}
           at == [k \in 1 .. n |-> F[k - 1].at]
<1>1. b \in Book /\ Sound(b) /\ LevelCount \in Nat \ {0}
  BY LevelsAre DEF Kept
<1>2. ASSUME NEW k \in 0 .. LevelCount, F[k].at # Npos
      PROVE  /\ F[k].at \in Levels /\ At(b, F[k].at) # {} /\ At(b, F[k].at) \subseteq Makers(b, t)
             /\ Reaches(t, FarTick(t), TickOf(F[k].at))
  <2>1. F[k].at \in Levels /\ At(b, F[k].at) # {} /\ At(b, F[k].at) \subseteq Makers(b, t)
    BY <1>2 DEF Walking
  <2>2. \A i \in Levels : Reaches(t, FarTick(t), TickOf(i))
    BY LevelsAre, BookAssumption DEF Reaches, FarTick, Ticks
  <2> QED
    BY <2>1, <2>2
<1>3. ASSUME NEW k \in 1 .. LevelCount
      PROVE  /\ F[k - 1].at = Npos => F[k].at = Npos
             /\ F[k - 1].at # Npos =>
                  /\ Passed(b, t, F[k].at) = Passed(b, t, F[k - 1].at) \union At(b, F[k - 1].at)
                  /\ F[k].at # Npos => Better(t, TickOf(F[k - 1].at), TickOf(F[k].at))
  <2>1. F[k] = Onward(F[k - 1], b, t, FarTick(t)) /\ k - 1 \in 0 .. LevelCount
    BY <1>1
  <2>2. CASE F[k - 1].at = Npos
    BY <2>1, <2>2 DEF Onward
  <2>3. CASE F[k - 1].at # Npos
    <3> DEFINE i == F[k - 1].at
    <3>1. /\ i \in Levels /\ At(b, i) # {} /\ At(b, i) \subseteq Makers(b, t)
          /\ Reaches(t, FarTick(t), TickOf(i))
      BY <1>2, <2>1, <2>3
    <3>2. F[k] = [at |-> Beyond(b, t, i), qty |-> F[k - 1].qty + b.levels[i].qty]
      BY <2>1, <2>3, <3>1 DEF Onward
    <3>3. F[k].at = Beyond(b, t, i)
      BY <3>2
    <3> HIDE DEF i
    <3>4. /\ Passed(b, t, F[k].at) = Passed(b, t, i) \union At(b, i)
          /\ F[k].at # Npos => Better(t, TickOf(i), TickOf(F[k].at))
      BY <1>1, <3>1, <3>3, PassedMore
    <3> QED
      BY <2>3, <3>4 DEF i
  <2> QED
    BY <2>2, <2>3
<1>4. n \in Nat /\ n <= LevelCount /\ S = 1 .. n
  <2>1. S \in SUBSET (1 .. LevelCount) /\ LevelCount \in Nat
    BY <1>1
  <2>2. \A j \in S : j # 1 => j - 1 \in S
    <3> SUFFICES ASSUME NEW j \in S, j # 1 PROVE j - 1 \in S
      OBVIOUS
    <3>1. j - 1 \in 1 .. LevelCount
      BY <1>1
    <3>2. F[j - 1 - 1].at # Npos
      BY <1>3, <3>1
    <3> QED
      BY <3>1, <3>2
  <2>3. n = Cardinality(S)
    BY DEF LevelsMet
  <2> HIDE DEF S
  <2> QED
    BY <2>1, <2>2, <2>3, FirstFew
<1>5. ASSUME NEW k \in 1 .. n
      PROVE  k \in 1 .. LevelCount /\ k - 1 \in 0 .. LevelCount /\ F[k - 1].at # Npos
  <2>1. k \in S
    BY <1>4
  <2> QED
    BY <1>1, <2>1
<1>6. \A k \in 1 .. n : at[k] = F[k - 1].at
  OBVIOUS
<1>7. /\ at \in [1 .. n -> Levels]
      /\ \A k \in 1 .. n : At(b, at[k]) # {} /\ At(b, at[k]) \subseteq Makers(b, t)
  <2>1. \A k \in 1 .. n : /\ F[k - 1].at \in Levels /\ At(b, F[k - 1].at) # {}
                          /\ At(b, F[k - 1].at) \subseteq Makers(b, t)
    BY <1>2, <1>5
  <2> QED
    BY <2>1
<1> HIDE DEF at, S
<1>8. ASSUME NEW j \in 1 .. n, NEW k \in 1 .. n, j < k
      PROVE  Better(t, TickOf(at[j]), TickOf(at[k]))
  <2> DEFINE T == {m \in 1 .. n : j < m /\ ~Better(t, TickOf(at[j]), TickOf(at[m]))}
  <2> SUFFICES ASSUME T # {} PROVE FALSE
    BY <1>8
  <2>1. PICK m \in T : \A x \in T : m <= x
    <3>1. T \subseteq Nat
      BY <1>4
    <3> HIDE DEF T
    <3> QED
      BY <3>1, LeastNat
  <2>2. m \in 1 .. n /\ j < m /\ ~Better(t, TickOf(at[j]), TickOf(at[m]))
    BY <2>1
  <2>3. m - 1 \in 1 .. n /\ ~(m <= m - 1) /\ j <= m - 1 /\ j \in Nat /\ m \in Nat
    BY <1>4, <2>2
  <2>4. Better(t, TickOf(at[m - 1]), TickOf(at[m]))
    <3>1. F[m - 1 - 1].at # Npos /\ F[m - 1].at # Npos /\ m - 1 \in 1 .. LevelCount
      BY <1>5, <2>2, <2>3
    <3>2. at[m - 1] = F[m - 1 - 1].at /\ at[m] = F[m - 1].at
      BY <1>6, <2>2, <2>3
    <3> QED
      BY <1>3, <3>1, <3>2
  <2>5. j # m - 1
    BY <2>2, <2>4
  <2>6. Better(t, TickOf(at[j]), TickOf(at[m - 1]))
    <3>1. j < m - 1 /\ m - 1 \notin T
      BY <2>1, <2>3, <2>5
    <3> QED
      BY <2>3, <3>1
  <2>7. TickOf(at[j]) \in Int /\ TickOf(at[m - 1]) \in Int /\ TickOf(at[m]) \in Int
    BY <1>7, <2>2, <2>3, LevelsAre, TicksAre
  <2> QED
    BY <2>2, <2>4, <2>6, <2>7 DEF Better
<1>9. ASSUME NEW s \in Makers(b, t)
      PROVE  \E k \in 1 .. n : s \in At(b, at[k])
  <2> DEFINE T == {k \in 0 .. LevelCount : s \in Passed(b, t, F[k].at)}
  <2>1. LevelCount \in T
    <3>1. LevelCount \in 0 .. LevelCount
      BY <1>1
    <3>2. FarTick(t) \in Int
      BY BookAssumption DEF FarTick
    <3>3. Passed(b, t, F[LevelCount].at) = Within(b, t, FarTick(t))
      BY <1>1, <3>1, <3>2, WalkEnds
    <3>4. s \in Within(b, t, FarTick(t))
      <4>1. b.pool[s].tick \in Ticks
        BY <1>1 DEF Makers, Sound
      <4>2. Reaches(t, FarTick(t), b.pool[s].tick)
        BY <4>1, BookAssumption DEF Reaches, FarTick, Ticks
      <4> QED
        BY <4>2 DEF Within
    <3> QED
      BY <3>1, <3>3, <3>4
  <2>2. PICK k \in T : \A x \in T : k <= x
    <3>1. T \subseteq Nat
      BY <1>1
    <3> HIDE DEF T
    <3> QED
      BY <2>1, <3>1, LeastNat
  <2>3. k \in 0 .. LevelCount /\ s \in Passed(b, t, F[k].at) /\ k # 0
    BY <2>2
  <2>4. k \in 1 .. LevelCount /\ k - 1 \in 0 .. LevelCount /\ ~(k <= k - 1)
    BY <1>1, <2>3
  <2>5. s \notin Passed(b, t, F[k - 1].at)
    BY <2>2, <2>4
  <2>6. F[k - 1].at # Npos
    BY <2>5 DEF Passed
  <2>7. s \in At(b, F[k - 1].at)
    BY <1>3, <2>3, <2>4, <2>5, <2>6
  <2>8. k \in 1 .. n
    BY <1>4, <2>4, <2>6 DEF S
  <2> QED
    BY <1>6, <2>7, <2>8
<1>10. Ladder(b, t, at, n)
  BY <1>4, <1>7, <1>8, <1>9 DEF Ladder
<1> QED
  BY <1>10 DEF at

\* top_levels lists the ladder of its side.
LEMMA TopLevelsAre ==
  ASSUME NEW b, NEW age, NEW now, NEW M, Kept(b, age, now, M), Settled(b), NEW side \in Sides
  PROVE  \E at, n : /\ Ladder(b, Opposite(side), at, n)
                    /\ TopLevels(b, side, LevelCount) = [k \in 1 .. n |-> Rung(b, at[k])]
<1> DEFINE t == Opposite(side)
           best == BestFor(b, t)
           li == Idx(best)
<1>1. t \in Sides
  BY DEF Opposite, Sides
<1>2. CASE best = InvalidTick
  <2> DEFINE at == [k \in 1 .. 0 |-> 0]
  <2>1. Makers(b, t) = {}
    BY <1>1, <1>2 DEF Settled, TopIs, Sides
  <2>2. 1 .. 0 = {} /\ 0 \in Nat
    OBVIOUS
  <2>3. at \in [1 .. 0 -> Levels]
    BY <2>2
  <2> HIDE DEF at
  <2>4. Ladder(b, t, at, 0)
    BY <2>1, <2>2, <2>3 DEF Ladder
  <2>5. TopLevels(b, side, LevelCount) = <<>>
    BY <1>2 DEF TopLevels
  <2>6. <<>> = [k \in 1 .. 0 |-> Rung(b, at[k])]
    BY <2>2
  <2> QED
    BY <2>4, <2>5, <2>6
<1>3. CASE best # InvalidTick
  <2>1. FarTick(t) \in Int
    BY BookAssumption DEF FarTick
  <2>2. /\ li \in Levels /\ Passed(b, t, li) = {}
        /\ (IF t = "Buy" THEN ScanUp(b, li) ELSE ScanDown(b, li)) = li
        /\ Walking(b, M, t, FarTick(t), [at |-> li, qty |-> 0], 0)
    BY <1>1, <1>3, <2>1, SetsOut
  <2>3. PICK F : /\ F[0] = [at |-> li, qty |-> 0]
                 /\ \A k \in 1 .. LevelCount : F[k] = Onward(F[k - 1], b, t, FarTick(t))
                 /\ AvailableFrom(b, t, FarTick(t), li) = F[LevelCount].qty
    <3> HIDE DEF t, li, best
    <3> QED
      BY AvailableRuns
  <2>4. F[0].at = li /\ Walking(b, M, t, FarTick(t), F[0], 0)
    BY <2>2, <2>3
  <2> HIDE DEF t, li, best
  <2>5. \A k \in 0 .. LevelCount : Walking(b, M, t, FarTick(t), F[k], k)
    BY <1>1, <2>1, <2>3, <2>4, WalkGoes
  <2>6. \A k \in 0 .. LevelCount : F[k].at = Npos \/ F[k].at \in Levels
    BY <2>5 DEF Walking
  <2> DEFINE n == LevelsMet(F)
             at == [k \in 1 .. n |-> F[k - 1].at]
  <2>7. F[0].at = (IF side = "Buy" THEN ScanDown(b, li) ELSE ScanUp(b, li))
    <3>1. t = "Buy" <=> side # "Buy"
      BY DEF t, Opposite, Sides
    <3> QED
      BY <2>2, <2>4, <3>1
  <2>8. LevelsFrom(b, side, li, LevelCount) = RungsOf(b, F, n)
    <3>1. \A k \in 1 .. LevelCount :
            F[k] = Onward(F[k - 1], b, Opposite(side), FarTick(Opposite(side)))
      BY <2>3 DEF t
    <3>2. Outward(F, b, side, li)
      BY <2>6, <2>7, <3>1 DEF Outward
    <3> QED
      BY <3>2, LevelsRun
  <2>9. Ladder(b, t, at, n)
    <3>1. Passed(b, t, F[0].at) = {}
      BY <2>2, <2>4
    <3> QED
      BY <1>1, <2>3, <2>5, <3>1, LadderOf
  <2>10. TopLevels(b, side, LevelCount) = LevelsFrom(b, side, li, LevelCount)
    BY <1>3 DEF TopLevels, t, best, li
  <2>11. RungsOf(b, F, n) = [k \in 1 .. n |-> Rung(b, at[k])]
    <3> HIDE DEF n
    <3> QED
      BY DEF RungsOf
  <2> HIDE DEF n, at
  <2>12. TopLevels(b, side, LevelCount) = [k \in 1 .. n |-> Rung(b, at[k])]
    BY <2>8, <2>10, <2>11
  <2> QED
    BY <2>9, <2>12 DEF t
<1> QED
  BY <1>2, <1>3

\* What the levels of q add up to, from the first k of them.
Heap(q) == FoldLeft(LAMBDA n, lv : n + lv.qty, 0, q)
Climbed(g, q, n) ==
  g = [s \in SUBSET (1 .. n) |-> IF s = {} THEN 0 ELSE g[s \ {Max(s)}] + q[Max(s)].qty]

\* It is a walk along q.
LEMMA HeapCarries ==
  ASSUME NEW q, NEW n \in Nat, DOMAIN q = 1 .. n
  PROVE  \E F : F[0] = 0 /\ F[n] = Heap(q) /\ \A k \in 1 .. n : F[k] = F[k - 1] + q[k].qty
<1> DEFINE p == CHOOSE g : Climbed(g, q, n)
           c == [pool |-> q]
           r == [k \in 1 .. n |-> k]
           F == [k \in 0 .. n |-> p[1 .. k]]
<1>1. c.pool = q /\ \A k \in 1 .. n : r[k] = k
  OBVIOUS
<1> HIDE DEF c, r
<1>2. \A s \in SUBSET (1 .. n) : s # {} => Max(s) \in 1 .. n
  <2> SUFFICES ASSUME NEW s \in SUBSET (1 .. n), s # {} PROVE Max(s) \in 1 .. n
    OBVIOUS
  <2>1. IsFiniteSet(s)
    <3>1. IsFiniteSet(1 .. n)
      BY FS_Interval
    <3> QED
      BY <3>1, FS_Subset
  <2>2. \E x \in s : \A y \in s : x >= y
    <3> DEFINE T == {n - x : x \in s}
    <3>1. T \subseteq Nat /\ T # {}
      <4>1. \A x \in s : n - x \in Nat
        OBVIOUS
      <4>2. PICK x \in s : TRUE
        OBVIOUS
      <4> QED
        BY <4>1, <4>2, Zenon
    <3>2. PICK m \in T : \A j \in T : m <= j
      <4> HIDE DEF T
      <4> QED
        BY <3>1, LeastNat
    <3>3. PICK x \in s : m = n - x
      BY <3>2
    <3>4. \A y \in s : n - x <= n - y
      BY <3>2, <3>3
    <3>5. \A y \in s : x >= y
      BY <3>4
    <3> QED
      BY <3>3, <3>5
  <2>3. Max(s) \in s
    BY <2>2 DEF Max
  <2> QED
    BY <2>3
<1>3. PICK f : Folds(f, "weigh", c, 0, r, n)
  BY FoldExists
<1>4. \A k \in 1 .. n : \A x : Do("weigh", c, x, r[k]) = x + q[k].qty
  BY <1>1 DEF Do
<1>5. Climbed(f, q, n)
  BY <1>2, <1>3, <1>4 DEF Folds, Climbed
<1>6. Climbed(p, q, n)
  BY <1>5
<1>7. Heap(q) = p[1 .. n]
  BY DEF FoldLeft, MapThenFoldSet, Climbed, Heap
<1> HIDE DEF p
<1>8. Folds(p, "weigh", c, 0, r, n)
  BY <1>2, <1>4, <1>6 DEF Folds, Climbed
<1>9. Carries(F, "weigh", c, 0, r, n) /\ F[n] = p[1 .. n]
  BY <1>8, FoldCarries
<1> HIDE DEF F
<1>10. F[0] = 0 /\ \A k \in 1 .. n : F[k] = F[k - 1] + q[k].qty
  BY <1>4, <1>9 DEF Carries
<1> QED
  BY <1>7, <1>9, <1>10

\* The ladder adds up to what the makers weigh.
LEMMA LadderWeighs ==
  ASSUME NEW b, NEW age, NEW now, NEW M, Kept(b, age, now, M), NEW t \in Sides, NEW at, NEW n,
         Ladder(b, t, at, n)
  PROVE  Heap([k \in 1 .. n |-> Rung(b, at[k])]) = M[Makers(b, t)]
<1> DEFINE q == [k \in 1 .. n |-> Rung(b, at[k])]
           P(k) == UNION {At(b, at[j]) : j \in 1 .. k}
<1>1. /\ n \in Nat /\ at \in [1 .. n -> Levels]
      /\ \A k \in 1 .. n : At(b, at[k]) # {} /\ At(b, at[k]) \subseteq Makers(b, t)
      /\ \A j, k \in 1 .. n : j < k => Better(t, TickOf(at[j]), TickOf(at[k]))
      /\ \A s \in Makers(b, t) : \E k \in 1 .. n : s \in At(b, at[k])
  BY DEF Ladder
<1>2. b \in Book /\ Weighs(M, b) /\ Counted(b, M)
  BY DEF Kept
<1>3. DOMAIN q = 1 .. n /\ \A k \in 1 .. n : q[k].qty = b.levels[at[k]].qty
  BY DEF Rung
<1> HIDE DEF q
<1>4. PICK F : F[0] = 0 /\ F[n] = Heap(q) /\ \A k \in 1 .. n : F[k] = F[k - 1] + q[k].qty
  BY <1>1, <1>3, HeapCarries
<1> DEFINE T == {k \in 0 .. n : F[k] # M[P(k)]}
<1>5. T = {}
  <2> SUFFICES ASSUME T # {} PROVE FALSE
    OBVIOUS
  <2>1. PICK k \in T : \A j \in T : k <= j
    <3>1. T \subseteq Nat
      BY <1>1
    <3> HIDE DEF T
    <3> QED
      BY <3>1, LeastNat
  <2>2. k \in 0 .. n /\ F[k] # M[P(k)]
    BY <2>1
  <2>3. k # 0
    <3>1. P(0) = {}
      OBVIOUS
    <3> HIDE DEF P
    <3> QED
      BY <1>2, <1>4, <2>2, <3>1 DEF Weighs
  <2>4. k \in 1 .. n /\ k - 1 \in 0 .. n /\ ~(k <= k - 1)
        /\ 1 .. k = (1 .. k - 1) \union {k} /\ \A j \in 1 .. k - 1 : j \in 1 .. n /\ j < k
    BY <1>1, <2>2, <2>3
  <2>5. F[k - 1] = M[P(k - 1)]
    BY <2>1, <2>4
  <2>6. P(k) = P(k - 1) \union At(b, at[k])
    BY <2>4
  <2>7. P(k - 1) \in SUBSET Slots /\ At(b, at[k]) \in SUBSET Slots
    BY AtIs
  <2>8. P(k - 1) \intersect At(b, at[k]) = {}
    <3> SUFFICES ASSUME NEW j \in 1 .. k - 1, NEW s \in At(b, at[j]), s \in At(b, at[k])
                 PROVE  FALSE
      OBVIOUS
    <3>1. TickOf(at[j]) = TickOf(at[k])
      BY DEF At
    <3>2. Better(t, TickOf(at[j]), TickOf(at[k]))
      BY <1>1, <2>4
    <3>3. TickOf(at[k]) \in Int
      BY <1>1, <2>4, LevelsAre, TicksAre
    <3> QED
      BY <3>1, <3>2, <3>3 DEF Better
  <2> HIDE DEF P
  <2>9. M[P(k)] = M[P(k - 1)] + M[At(b, at[k])]
    BY <1>2, <2>6, <2>7, <2>8, WeighsBoth
  <2>10. q[k].qty = M[At(b, at[k])]
    <3>1. at[k] \in Levels
      BY <1>1, <2>4
    <3> QED
      BY <1>2, <1>3, <2>4, <3>1 DEF Counted
  <2> QED
    BY <1>4, <2>2, <2>4, <2>5, <2>9, <2>10
<1>6. P(n) = Makers(b, t)
  BY <1>1
<1>7. F[n] = M[P(n)]
  <2>1. n \in 0 .. n
    BY <1>1
  <2> QED
    BY <1>5, <2>1
<1> HIDE DEF P
<1>8. Heap(q) = M[Makers(b, t)]
  BY <1>4, <1>6, <1>7
<1> QED
  BY <1>8 DEF q

\* Of a list the part before a slot lists those before it.
LEMMA ListedBefore ==
  ASSUME NEW age, NEW now, Aged(age, now), NEW T \in SUBSET Slots, NEW s \in T,
         NEW q \in [1 .. Cardinality(T) -> T], Listed(q, T, age),
         NEW k \in DOMAIN q, q[k] = s
  PROVE  LET p == SubSeq(q, 1, k - 1)
             E == Earlier(T, age, s)
         IN p \in [1 .. Cardinality(E) -> E] /\ Listed(p, E, age)
<1> DEFINE p == SubSeq(q, 1, k - 1)
           E == Earlier(T, age, s)
<1>1. Cardinality(T) \in Nat /\ k \in 1 .. Cardinality(T) /\ k - 1 \in Nat
      /\ Cardinality(E) = k - 1 /\ E \in SUBSET Slots
  BY SetsOfSlots DEF Listed, Earlier
<1>2. DOMAIN p = 1 .. k - 1 /\ p = [j \in 1 .. k - 1 |-> q[j]]
  <2>1. q \in Seq(T) /\ Len(q) = Cardinality(T)
    BY <1>1
  <2> QED
    BY <1>1, <2>1
<1> HIDE DEF p, E
<1>3. ASSUME NEW j \in 1 .. k - 1
      PROVE  q[j] \in E /\ Earlier(E, age, q[j]) = Earlier(T, age, q[j])
  <2>1. j \in DOMAIN q /\ j < k
    BY <1>1
  <2>2. q[j] \in T /\ age[q[j]] < age[s]
    BY <2>1, PlacesAre
  <2>3. \A r \in T : age[r] \in Nat
    BY DEF Aged
  <2> QED
    BY <2>2, <2>3 DEF E, Earlier
<1>4. p \in [1 .. Cardinality(E) -> E]
  BY <1>1, <1>2, <1>3
<1>5. ASSUME NEW j \in 1 .. k - 1
      PROVE  p[j] \in E /\ Cardinality(Earlier(E, age, p[j])) = j - 1
  <2>1. p[j] = q[j] /\ j \in DOMAIN q
    BY <1>1, <1>2
  <2>2. Cardinality(Earlier(T, age, q[j])) = j - 1
    BY <2>1 DEF Listed
  <2> QED
    BY <1>3, <2>1, <2>2
<1>6. ASSUME NEW r \in E PROVE \E j \in 1 .. k - 1 : p[j] = r
  <2>1. r \in T /\ age[r] < age[s]
    BY DEF E, Earlier
  <2>2. PICK j \in DOMAIN q : q[j] = r
    BY <2>1 DEF Listed
  <2>3. j < k
    BY <2>1, <2>2, PlacesAre
  <2>4. j \in 1 .. k - 1
    BY <1>1, <2>2, <2>3
  <2> QED
    BY <1>2, <2>2, <2>4
<1>7. Listed(p, E, age)
  BY <1>1, <1>2, <1>5, <1>6 DEF Listed
<1> QED
  BY <1>4, <1>7 DEF p, E

\* What stands before an order is what those before it weigh.
LEMMA QueueAheadWeighs ==
  ASSUME NEW b, NEW age, NEW now, NEW M, Kept(b, age, now, M), NEW id \in DOMAIN b.ids
  PROVE  LET s == b.ids[id] IN
         QueueAhead(b, id) = M[Earlier(At(b, Idx(b.pool[s].tick)), age, s)]
<1> DEFINE s == b.ids[id]
           i == Idx(b.pool[s].tick)
           T == At(b, i)
           q == Queue(b, i)
           k == CHOOSE j \in DOMAIN q : q[j] = s
<1>1. b \in Book /\ Sound(b) /\ Indexed(b) /\ Aged(age, now) /\ Weighs(M, b)
  BY DEF Kept
<1>2. s \in LiveSlots(b)
  BY <1>1, NamedIs
<1>3. i \in Levels /\ s \in T /\ T \in SUBSET Slots
  BY <1>1, <1>2, OrderIs, AtIs
<1>4. Listed(q, T, age) /\ q \in [1 .. Cardinality(T) -> T]
  BY <1>3, QueueIs
<1>5. Find(b, id) = s
  BY DEF Find
<1>6. QueueAhead(b, id) = Sum(b, SubSeq(q, 1, k - 1))
  BY <1>5 DEF QueueAhead, Sum
<1> HIDE DEF s, i, T, q
<1>7. k \in DOMAIN q /\ q[k] = s
  <2>1. \E j \in DOMAIN q : q[j] = s
    BY <1>3, <1>4 DEF Listed
  <2> QED
    BY <2>1
<1> HIDE DEF k
<1> DEFINE p == SubSeq(q, 1, k - 1)
           E == Earlier(T, age, s)
<1>8. p \in [1 .. Cardinality(E) -> E] /\ Listed(p, E, age) /\ E \in SUBSET Slots
  <2>1. E \in SUBSET Slots
    BY <1>3 DEF Earlier
  <2> QED
    BY <1>1, <1>3, <1>4, <1>7, <2>1, ListedBefore
<1> HIDE DEF p, E
<1>9. Sum(b, p) = M[E]
  BY <1>1, <1>8, SumIs
<1>10. QueueAhead(b, id) = Sum(b, p)
  BY <1>6 DEF p
<1> QED
  BY <1>9, <1>10 DEF E, s, i, T

-----------------------------------------------------------------------------
(***************************************************************************)
(* Every query agrees with what an observer adds up.                        *)
(***************************************************************************)

\* The resting orders of a side, and those of them at a price.
RestingOn(h, side) == {i \in DOMAIN h.book : h.book[i].side = side}
RestingAt(h, side, tick) == {i \in RestingOn(h, side) : h.book[i].tick = tick}
RungTicks(h, side) == {h.book[i].tick : i \in RestingOn(h, side)}

\* The orders of a side are whom the other side trades with.
LEMMA RestingSlots ==
  ASSUME NEW b, NEW age, NEW now, NEW M, Kept(b, age, now, M), NEW h, Mirror(b, age, h),
         NEW side \in Sides
  PROVE  /\ SlotsOf(b, RestingOn(h, side)) = Makers(b, Opposite(side))
         /\ \A limit :
              SlotsOf(b, {i \in RestingOn(h, side) : Reaches(Opposite(side), limit, h.book[i].tick)})
                = Within(b, Opposite(side), limit)
<1> DEFINE t == Opposite(side)
<1>1. Opposite(t) = side
  BY DEF Opposite, Sides
<1>2. \A i \in DOMAIN h.book : /\ b.ids[i] \in LiveSlots(b) /\ b.pool[b.ids[i]].id = i
                               /\ h.book[i].side = b.pool[b.ids[i]].side
                               /\ h.book[i].tick = b.pool[b.ids[i]].tick
  BY KnownSlot
<1>3. \A s \in LiveSlots(b) : b.pool[s].id \in DOMAIN h.book /\ b.ids[b.pool[s].id] = s
  BY SlotKnown
<1>4. \A s \in Makers(b, t) : \E i \in RestingOn(h, side) : s = b.ids[i]
  BY <1>1, <1>2, <1>3 DEF Makers, RestingOn
<1>5. \A i \in RestingOn(h, side) : b.ids[i] \in Makers(b, t)
                                    /\ h.book[i].tick = b.pool[b.ids[i]].tick
  BY <1>1, <1>2 DEF Makers, RestingOn
<1> HIDE DEF t
<1>6. SlotsOf(b, RestingOn(h, side)) = Makers(b, t)
  BY <1>4, <1>5 DEF SlotsOf
<1>7. ASSUME NEW limit
      PROVE  SlotsOf(b, {i \in RestingOn(h, side) : Reaches(t, limit, h.book[i].tick)})
               = Within(b, t, limit)
  BY <1>4, <1>5 DEF SlotsOf, Within
<1> QED
  BY <1>6, <1>7 DEF t

\* Those at the price of a level they have are the orders of the level.
LEMMA LevelSlots ==
  ASSUME NEW b, NEW age, NEW now, NEW M, Kept(b, age, now, M), NEW h, Mirror(b, age, h),
         NEW side \in Sides, NEW i \in Levels, At(b, i) \subseteq Makers(b, Opposite(side))
  PROVE  /\ SlotsOf(b, RestingAt(h, side, TickOf(i))) = At(b, i)
         /\ OrdersHave(h, RestingAt(h, side, TickOf(i))) = b.levels[i].qty
         /\ Cardinality(RestingAt(h, side, TickOf(i))) = b.levels[i].orders
<1> DEFINE S == RestingAt(h, side, TickOf(i))
<1>1. Opposite(Opposite(side)) = side
  BY DEF Opposite, Sides
<1>2. \A j \in DOMAIN h.book : /\ b.ids[j] \in LiveSlots(b)
                               /\ h.book[j].side = b.pool[b.ids[j]].side
                               /\ h.book[j].tick = b.pool[b.ids[j]].tick
  BY KnownSlot
<1>3. \A s \in LiveSlots(b) : b.pool[s].id \in DOMAIN h.book /\ b.ids[b.pool[s].id] = s
  BY SlotKnown
<1>4. \A s \in At(b, i) : \E j \in S : s = b.ids[j]
  BY <1>1, <1>2, <1>3 DEF Makers, RestingOn, RestingAt, At
<1>5. \A j \in S : b.ids[j] \in At(b, i)
  BY <1>2 DEF RestingOn, RestingAt, At
<1>6. S \in SUBSET (DOMAIN h.book)
  BY DEF RestingOn, RestingAt
<1> HIDE DEF S
<1>7. SlotsOf(b, S) = At(b, i)
  BY <1>4, <1>5 DEF SlotsOf
<1>8. OrdersHave(h, S) = M[At(b, i)]
  BY <1>6, <1>7, OrdersWeigh
<1>9. Cardinality(S) = Cardinality(At(b, i))
  BY <1>6, <1>7, SlotsCount
<1>10. b.levels[i].orders = Cardinality(At(b, i)) /\ b.levels[i].qty = M[At(b, i)]
  BY DEF Kept, Counted
<1> QED
  BY <1>7, <1>8, <1>9, <1>10 DEF S

\* Those before an order are the older ones of its level.
LEMMA AheadSlots ==
  ASSUME NEW b, NEW age, NEW now, NEW M, Kept(b, age, now, M), NEW h, Mirror(b, age, h),
         NEW id \in DOMAIN h.book
  PROVE  SlotsOf(b, {i \in DOMAIN h.book : <<i, id>> \in h.ahead})
           = Earlier(At(b, Idx(b.pool[b.ids[id]].tick)), age, b.ids[id])
<1> DEFINE s == b.ids[id]
           S == {i \in DOMAIN h.book : <<i, id>> \in h.ahead}
           T == At(b, Idx(b.pool[s].tick))
<1>1. \A i \in DOMAIN h.book :
        b.ids[i] \in LiveSlots(b) /\ b.pool[b.ids[i]].id = i
  BY KnownSlot
<1>2. \A r \in LiveSlots(b) : b.pool[r].id \in DOMAIN h.book /\ b.ids[b.pool[r].id] = r
  BY SlotKnown
<1>3. \A i \in DOMAIN h.book :
        <<i, id>> \in h.ahead <=> /\ b.pool[b.ids[i]].tick = b.pool[s].tick
                                  /\ age[b.ids[i]] < age[s]
  BY DEF Mirror
<1>4. T = {r \in LiveSlots(b) : b.pool[r].tick = b.pool[s].tick}
  <2>1. TickOf(Idx(b.pool[s].tick)) = b.pool[s].tick
    BY <1>1, OrderIs DEF Kept
  <2> QED
    BY <2>1 DEF At
<1> HIDE DEF s, T
<1>5. \A r \in Earlier(T, age, s) : \E i \in S : r = b.ids[i]
  BY <1>2, <1>3, <1>4 DEF Earlier
<1>6. \A i \in S : b.ids[i] \in Earlier(T, age, s)
  BY <1>1, <1>3, <1>4 DEF Earlier
<1> HIDE DEF S
<1>7. SlotsOf(b, S) = Earlier(T, age, s)
  BY <1>5, <1>6 DEF SlotsOf
<1> QED
  BY <1>7 DEF S, T, s

\* A ladder has one level for every price at which somebody of the side rests.
LEMMA LadderTicks ==
  ASSUME NEW b, NEW age, NEW now, NEW M, Kept(b, age, now, M), NEW h, Mirror(b, age, h),
         NEW side \in Sides, NEW at, NEW n, Ladder(b, Opposite(side), at, n)
  PROVE  /\ {TickOf(at[k]) : k \in 1 .. n} = RungTicks(h, side)
         /\ Cardinality(RungTicks(h, side)) = n
<1> DEFINE t == Opposite(side)
           f == [k \in 1 .. n |-> TickOf(at[k])]
           R == RungTicks(h, side)
<1>1. /\ n \in Nat /\ at \in [1 .. n -> Levels]
      /\ \A k \in 1 .. n : At(b, at[k]) # {} /\ At(b, at[k]) \subseteq Makers(b, t)
      /\ \A j, k \in 1 .. n : j < k => Better(t, TickOf(at[j]), TickOf(at[k]))
      /\ \A s \in Makers(b, t) : \E k \in 1 .. n : s \in At(b, at[k])
  BY DEF Ladder
<1>2. SlotsOf(b, RestingOn(h, side)) = Makers(b, t)
  BY RestingSlots
<1>3. \A i \in RestingOn(h, side) : h.book[i].tick = b.pool[b.ids[i]].tick
  BY KnownSlot DEF RestingOn
<1>4. \A k \in 1 .. n : TickOf(at[k]) \in R
  <2> SUFFICES ASSUME NEW k \in 1 .. n PROVE TickOf(at[k]) \in R
    OBVIOUS
  <2>1. PICK s \in At(b, at[k]) : s \in Makers(b, t)
    BY <1>1
  <2>2. PICK i \in RestingOn(h, side) : s = b.ids[i]
    BY <1>2, <2>1 DEF SlotsOf
  <2>3. h.book[i].tick = TickOf(at[k])
    BY <1>3, <2>1, <2>2 DEF At
  <2> QED
    BY <2>2, <2>3 DEF RungTicks
<1>5. \A x \in R : \E k \in 1 .. n : x = TickOf(at[k])
  <2> SUFFICES ASSUME NEW i \in RestingOn(h, side)
               PROVE  \E k \in 1 .. n : h.book[i].tick = TickOf(at[k])
    BY DEF RungTicks
  <2>1. b.ids[i] \in Makers(b, t)
    BY <1>2 DEF SlotsOf
  <2>2. PICK k \in 1 .. n : b.ids[i] \in At(b, at[k])
    BY <1>1, <2>1
  <2> QED
    BY <1>3, <2>2 DEF At
<1>6. \A j, k \in 1 .. n : TickOf(at[j]) = TickOf(at[k]) => j = k
  <2> SUFFICES ASSUME NEW j \in 1 .. n, NEW k \in 1 .. n, j < k
               PROVE  TickOf(at[j]) # TickOf(at[k])
    BY <1>1
  <2>1. TickOf(at[k]) \in Int
    BY <1>1, LevelsAre, TicksAre
  <2> QED
    BY <1>1, <2>1 DEF Better
<1> HIDE DEF R, t
<1>7. f \in Bijection(1 .. n, R)
  BY <1>4, <1>5, <1>6 DEF Bijection, Injection, Surjection, IsInjective
<1>8. IsFiniteSet(1 .. n) /\ Cardinality(1 .. n) = n
  <2>1. 1 \in Int /\ n \in Int /\ (1 > n => n = 0) /\ n - 1 + 1 = n
    BY <1>1
  <2> QED
    BY <2>1, FS_Interval
<1>9. Cardinality(R) = n
  <2> HIDE DEF f
  <2> QED
    BY <1>7, <1>8, FS_Bijection DEF ExistsBijection
<1>10. {TickOf(at[k]) : k \in 1 .. n} = R
  BY <1>4, <1>5
<1> QED
  BY <1>9, <1>10 DEF R

\* What top_levels lists is what rests on the side, best price first, and adds
\* up to total_qty.
LadderAnswers(b, h, side) ==
  LET top == TopLevels(b, side, LevelCount) IN
  /\ TotalQty(b, side) = OrdersHave(h, RestingOn(h, side))
  /\ {top[k].tick : k \in DOMAIN top} = RungTicks(h, side)
  /\ Len(top) = Cardinality(RungTicks(h, side))
  /\ \A k \in DOMAIN top :
       /\ top[k].qty = OrdersHave(h, RestingAt(h, side, top[k].tick))
       /\ top[k].orders = Cardinality(RestingAt(h, side, top[k].tick))
       /\ k > 1 => Better(Opposite(side), top[k - 1].tick, top[k].tick)

\* What stands before an order, and what a taker with a limit would find.
QueueAnswers(b, h) ==
  \A id \in DOMAIN h.book :
    QueueAhead(b, id) = OrdersHave(h, {i \in DOMAIN h.book : <<i, id>> \in h.ahead})
AvailableAnswers(b, h, side) ==
  \A limit \in Ticks :
    Available(b, Opposite(side), limit) =
      OrdersHave(h, {i \in RestingOn(h, side) : Reaches(Opposite(side), limit, h.book[i].tick)})

\* top_levels and total_qty are right.
LEMMA LadderAnswered ==
  ASSUME NEW b, NEW h, Faithful(b, h), Settled(b), NEW side \in Sides
  PROVE  LadderAnswers(b, h, side)
<1> DEFINE t == Opposite(side)
           top == TopLevels(b, side, LevelCount)
<1>1. PICK age, now, M : Kept(b, age, now, M) /\ Mirror(b, age, h)
  BY DEF Faithful
<1>2. t \in Sides
  BY DEF Opposite, Sides
<1>3. PICK at, n : Ladder(b, t, at, n) /\ top = [k \in 1 .. n |-> Rung(b, at[k])]
  BY <1>1, TopLevelsAre
<1>4. /\ n \in Nat /\ at \in [1 .. n -> Levels]
      /\ \A k \in 1 .. n : At(b, at[k]) \subseteq Makers(b, t)
      /\ \A j, k \in 1 .. n : j < k => Better(t, TickOf(at[j]), TickOf(at[k]))
  BY <1>3 DEF Ladder
<1>5. {TickOf(at[k]) : k \in 1 .. n} = RungTicks(h, side) /\ Cardinality(RungTicks(h, side)) = n
  BY <1>1, <1>3, LadderTicks
<1>6. TotalQty(b, side) = OrdersHave(h, RestingOn(h, side))
  <2>1. Heap(top) = M[Makers(b, t)]
    <3> HIDE DEF t, top
    <3> QED
      BY <1>1, <1>2, <1>3, LadderWeighs
  <2>2. RestingOn(h, side) \in SUBSET (DOMAIN h.book)
    BY DEF RestingOn
  <2>3. SlotsOf(b, RestingOn(h, side)) = Makers(b, t)
    BY <1>1, RestingSlots
  <2>4. OrdersHave(h, RestingOn(h, side)) = M[Makers(b, t)]
    BY <1>1, <2>2, <2>3, OrdersWeigh
  <2>5. TotalQty(b, side) = Heap(top)
    BY DEF TotalQty, Heap
  <2> QED
    BY <2>1, <2>4, <2>5
<1> HIDE DEF t, top
<1>7. DOMAIN top = 1 .. n /\ Len(top) = n
  <2>1. top \in Seq({Rung(b, at[k]) : k \in 1 .. n})
    BY <1>3, <1>4
  <2> QED
    BY <1>3, <1>4, <2>1
<1>8. \A k \in 1 .. n : /\ top[k].tick = TickOf(at[k]) /\ top[k].qty = b.levels[at[k]].qty
                        /\ top[k].orders = b.levels[at[k]].orders
  BY <1>3 DEF Rung
<1>9. {top[k].tick : k \in DOMAIN top} = RungTicks(h, side)
  BY <1>5, <1>7, <1>8
<1>10. ASSUME NEW k \in 1 .. n
       PROVE  /\ top[k].qty = OrdersHave(h, RestingAt(h, side, top[k].tick))
              /\ top[k].orders = Cardinality(RestingAt(h, side, top[k].tick))
              /\ k > 1 => Better(t, top[k - 1].tick, top[k].tick)
  <2>1. at[k] \in Levels /\ At(b, at[k]) \subseteq Makers(b, t)
    BY <1>4
  <2>2. /\ OrdersHave(h, RestingAt(h, side, TickOf(at[k]))) = b.levels[at[k]].qty
        /\ Cardinality(RestingAt(h, side, TickOf(at[k]))) = b.levels[at[k]].orders
    BY <1>1, <2>1, LevelSlots DEF t
  <2>3. k > 1 => Better(t, TickOf(at[k - 1]), TickOf(at[k])) /\ k - 1 \in 1 .. n
    BY <1>4
  <2> QED
    BY <1>8, <2>2, <2>3
<1> QED
  BY <1>5, <1>6, <1>7, <1>9, <1>10 DEF LadderAnswers, top, t

\* queue_ahead is right.
LEMMA QueueAnswered ==
  ASSUME NEW b, NEW h, Faithful(b, h)
  PROVE  QueueAnswers(b, h)
<1>1. PICK age, now, M : Kept(b, age, now, M) /\ Mirror(b, age, h)
  BY DEF Faithful
<1>2. ASSUME NEW id \in DOMAIN h.book
      PROVE  QueueAhead(b, id) = OrdersHave(h, {i \in DOMAIN h.book : <<i, id>> \in h.ahead})
  <2> DEFINE S == {i \in DOMAIN h.book : <<i, id>> \in h.ahead}
             s == b.ids[id]
             E == Earlier(At(b, Idx(b.pool[s].tick)), age, s)
  <2>1. id \in DOMAIN b.ids
    BY <1>1 DEF Mirror
  <2>2. QueueAhead(b, id) = M[E]
    <3> HIDE DEF S
    <3> QED
      BY <1>1, <2>1, QueueAheadWeighs
  <2>3. SlotsOf(b, S) = E
    BY <1>1, AheadSlots
  <2>4. S \in SUBSET (DOMAIN h.book)
    OBVIOUS
  <2> HIDE DEF S, E
  <2>5. OrdersHave(h, S) = M[E]
    BY <1>1, <2>3, <2>4, OrdersWeigh
  <2> QED
    BY <2>2, <2>5 DEF S
<1> QED
  BY <1>2 DEF QueueAnswers

\* available is right.
LEMMA AvailableAnswered ==
  ASSUME NEW b, NEW h, Faithful(b, h), Settled(b), NEW side \in Sides
  PROVE  AvailableAnswers(b, h, side)
<1> DEFINE t == Opposite(side)
<1>1. PICK age, now, M : Kept(b, age, now, M) /\ Mirror(b, age, h)
  BY DEF Faithful
<1>2. t \in Sides
  BY DEF Opposite, Sides
<1>3. ASSUME NEW limit \in Ticks
      PROVE  Available(b, t, limit) =
               OrdersHave(h, {i \in RestingOn(h, side) : Reaches(t, limit, h.book[i].tick)})
  <2> DEFINE S == {i \in RestingOn(h, side) : Reaches(t, limit, h.book[i].tick)}
  <2>1. Available(b, t, limit) = M[Within(b, t, limit)]
    <3>1. limit \in Int
      BY TicksAre
    <3> HIDE DEF t
    <3> QED
      BY <1>1, <1>2, <3>1, AvailableWeighs
  <2>2. SlotsOf(b, S) = Within(b, t, limit)
    BY <1>1, RestingSlots
  <2>3. S \in SUBSET (DOMAIN h.book)
    BY DEF RestingOn
  <2> HIDE DEF S, t
  <2>4. OrdersHave(h, S) = M[Within(b, t, limit)]
    BY <1>1, <2>2, <2>3, OrdersWeigh
  <2> QED
    BY <2>1, <2>4 DEF S
<1> QED
  BY <1>3 DEF AvailableAnswers

\* The four queries of the book - queue_ahead, total_qty, available and
\* top_levels - answer what an observer of its events would add up.
THEOREM SpecQueriesAgree == Spec => []QueriesAgree
<1>1. IInv => QueriesAgree
  <2> SUFFICES ASSUME IInv PROVE QueriesAgree
    OBVIOUS
  <2>1. Faithful(bk, shadow) /\ Settled(bk)
    BY DEF IInv
  <2>2. /\ QueueAnswers(bk, shadow)
        /\ \A side \in Sides : LadderAnswers(bk, shadow, side) /\ AvailableAnswers(bk, shadow, side)
    BY <2>1, QueueAnswered, LadderAnswered, AvailableAnswered
  <2> QED
    BY <2>2 DEF QueriesAgree, QueueAnswers, LadderAnswers, AvailableAnswers, RestingOn, RestingAt,
                RungTicks, OrdersHave
<1> QED
  BY <1>1, SpecIInv, PTL
=============================================================================
