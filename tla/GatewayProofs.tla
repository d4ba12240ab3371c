--------------------------- MODULE GatewayProofs ---------------------------
(***************************************************************************)
(* The gateway's maps name the orders that rest, and a client that follows   *)
(* what is published knows them, for any tokens, prices and sizes and for a  *)
(* book of any size.                                                        *)
(*                                                                          *)
(* What makes it true is that the book holds no order without size, so that  *)
(* a maker leaves it exactly when a fill takes all it had, and that numbers   *)
(* are never used twice, so that a new order meets neither an old one nor    *)
(* an old name.  A client is told of every fill because makers are served in *)
(* an order, so that on_trade is called for each of them once.              *)
(***************************************************************************)
EXTENDS Gateway, FiniteSetTheorems, WellFoundedInduction, TLAPS

Promises == INSTANCE PriceTimeProofs

\* A book that keeps its promises.
Good(B, A) == Promises!GoodBook(B, A)

\* The maps are each other's inverse.
Mirrored(n) ==
  /\ n = [id |-> n.id, token |-> n.token]
  /\ DOMAIN n.token = {n.id[t] : t \in DOMAIN n.id}
  /\ \A t \in DOMAIN n.id : n.token[n.id[t]] = t

\* What a client holds under the token t, by its account v.
Held(v, t) == IF t \in DOMAIN v THEN v[t] ELSE 0

\* An account has no empty entries.
Sound(v) == \A t \in DOMAIN v : v[t] \in Nat \ {0}

\* The account v tells of the orders of the book B with a name in n.
Tells(v, n, B) == Sound(v) /\ \A t \in DOMAIN n.id : Held(v, t) = B[n.id[t]].qty

NamesInv ==
  /\ Mirrored(names)
  /\ DOMAIN names.token = DOMAIN book \ orphans
  /\ orphans \subseteq 1 .. nextId

ViewInv ==
  /\ Tells(view, names, book)
  /\ orphans = {} => DOMAIN view \subseteq DOMAIN names.id

IInv ==
  /\ nextId \in Nat
  /\ Good(book, ahead) /\ DOMAIN book \subseteq 1 .. nextId
  /\ NamesInv
  /\ ViewInv

-----------------------------------------------------------------------------
(***************************************************************************)
(* Lists of a set.                                                          *)
(***************************************************************************)

\* A set of numbers has a least one: the form induction takes here.
LEMMA LeastNat ==
  ASSUME NEW T, T \subseteq Nat, T # {}
  PROVE  \E x \in T : \A y \in T : x <= y
<1>1. IsWellFoundedOn(OpToRel(<, Nat), Nat)
  BY NatLessThanWellFounded
<1>2. PICK x \in T : \A y \in T : <<y, x>> \notin OpToRel(<, Nat)
  BY <1>1, WFMin
<1>3. \A y \in T : ~ (y < x)
  BY <1>2 DEF OpToRel
<1> QED
  BY <1>3

\* R orders the set M.
Orders(R, M) ==
  /\ \A x \in M : <<x, x>> \notin R
  /\ \A x, y \in M : x # y => <<x, y>> \in R \/ <<y, x>> \in R
  /\ \A x, y, z \in M : <<x, y>> \in R /\ <<y, z>> \in R => <<x, z>> \in R

Sorted(s, R) == \A j, k \in DOMAIN s : j < k => <<s[j], s[k]>> \in R

\* A finite set that is ordered can be listed in its order.
LEMMA ListExists ==
  ASSUME NEW M, IsFiniteSet(M), NEW R, Orders(R, M)
  PROVE  \E s \in SetToSeqs(M) : Sorted(s, R)
<1> DEFINE n == Cardinality(M)
           below(x) == {y \in M : <<y, x>> \in R}
           rank == [x \in M |-> Cardinality(below(x)) + 1]
<1>1. n \in Nat /\ IsFiniteSet(1 .. n) /\ Cardinality(1 .. n) = n
  BY FS_CardinalityType, FS_Interval
<1>2. ASSUME NEW x \in M
      PROVE  IsFiniteSet(below(x)) /\ rank[x] \in 1 .. n /\ rank[x] = Cardinality(below(x)) + 1
  <2>1. below(x) \subseteq M /\ x \notin below(x)
    BY DEF Orders
  <2>2. IsFiniteSet(below(x)) /\ Cardinality(below(x)) <= n /\ Cardinality(below(x)) # n
    BY <2>1, FS_Subset
  <2>3. Cardinality(below(x)) \in Nat
    BY <2>2, FS_CardinalityType
  <2>4. rank[x] = Cardinality(below(x)) + 1
    OBVIOUS
  <2> HIDE DEF n, below, rank
  <2> QED
    BY <1>1, <2>2, <2>3, <2>4
<1>3. ASSUME NEW x \in M, NEW y \in M, <<x, y>> \in R
      PROVE  rank[x] < rank[y]
  <2>1. below(x) \subseteq below(y) /\ x \in below(y) /\ x \notin below(x)
    BY <1>3 DEF Orders
  <2>2. /\ Cardinality(below(x)) <= Cardinality(below(y))
        /\ Cardinality(below(x)) # Cardinality(below(y))
    BY <1>2, <2>1, FS_Subset
  <2>3. /\ rank[x] \in 1 .. n /\ rank[x] = Cardinality(below(x)) + 1
        /\ rank[y] \in 1 .. n /\ rank[y] = Cardinality(below(y)) + 1
    BY <1>2
  <2>4. Cardinality(below(x)) \in Nat /\ Cardinality(below(y)) \in Nat
    BY <1>2, FS_CardinalityType
  <2> HIDE DEF n, below, rank
  <2> QED
    BY <2>2, <2>3, <2>4
<1>4. rank \in [M -> 1 .. n]
  BY <1>2
<1> HIDE DEF rank, below, n
<1>5. \A x, y \in M : rank[x] = rank[y] => x = y
  <2> SUFFICES ASSUME NEW x \in M, NEW y \in M, x # y PROVE rank[x] # rank[y]
    OBVIOUS
  <2>1. <<x, y>> \in R \/ <<y, x>> \in R
    BY DEF Orders
  <2>2. rank[x] < rank[y] \/ rank[y] < rank[x]
    BY <1>3, <2>1
  <2> QED
    BY <1>4, <2>2
<1>6. rank \in Injection(M, 1 .. n)
  BY <1>4, <1>5 DEF Injection, IsInjective
<1>7. \A k \in 1 .. n : \E x \in M : rank[x] = k
  <2>1. rank \in Surjection(M, 1 .. n)
    BY <1>1, <1>6, FS_Injection DEF n
  <2> QED
    BY <2>1 DEF Surjection
<1> DEFINE s == [k \in 1 .. n |-> CHOOSE x \in M : rank[x] = k]
<1>8. \A k \in 1 .. n : s[k] \in M /\ rank[s[k]] = k
  BY <1>7
<1>9. s \in SetToSeqs(M)
  BY <1>8 DEF SetToSeqs, n
<1>10. Sorted(s, R)
  <2> SUFFICES ASSUME NEW j \in 1 .. n, NEW k \in 1 .. n, j < k PROVE <<s[j], s[k]>> \in R
    BY DEF Sorted
  <2>1. s[j] \in M /\ s[k] \in M /\ s[j] # s[k] /\ ~(rank[s[k]] < rank[s[j]])
    BY <1>8
  <2> QED
    BY <1>3, <2>1 DEF Orders
<1> QED
  BY <1>9, <1>10

\* s lists the elements of M, each once, in n places.
Lists(s, M, n) ==
  /\ s \in [1 .. n -> M]
  /\ \A j, k \in 1 .. n : s[j] = s[k] => j = k
  /\ \A x \in M : \E k \in 1 .. n : s[k] = x

\* A list of a finite set is a bijection from its places.
LEMMA ListIs ==
  ASSUME NEW M, IsFiniteSet(M), NEW s \in SetToSeqs(M)
  PROVE  \E n \in Nat : Lists(s, M, n)
<1> DEFINE n == Cardinality(M)
<1>1. n \in Nat /\ IsFiniteSet(1 .. n) /\ Cardinality(1 .. n) = n
  BY FS_CardinalityType, FS_Interval
<1>2. s \in [1 .. n -> M] /\ \A j, k \in 1 .. n : s[j] = s[k] => j = k
  BY DEF SetToSeqs
<1>3. s \in Injection(1 .. n, M)
  BY <1>2 DEF Injection, IsInjective
<1>4. s \in Surjection(1 .. n, M)
  BY <1>1, <1>3, FS_Injection
<1> QED
  BY <1>1, <1>2, <1>4 DEF Surjection, Lists

-----------------------------------------------------------------------------
(***************************************************************************)
(* What a client makes of messages.                                         *)
(***************************************************************************)

Minus(a, b) == IF a <= b THEN 0 ELSE a - b

\* How an account changes with each message it hears.
LEMMA HeldIs ==
  ASSUME NEW v, Sound(v), NEW t
  PROVE  Held(v, t) \in Nat /\ (t \in DOMAIN v <=> Held(v, t) # 0)
BY DEF Held, Sound

LEMMA DropIs ==
  ASSUME NEW v, Sound(v), NEW t
  PROVE  /\ Sound(Drop(v, t)) /\ Held(Drop(v, t), t) = 0
         /\ \A s : s # t => Held(Drop(v, t), s) = Held(v, s)
BY DEF Drop, Restrict, Sound, Held

LEMMA ExtendIs ==
  ASSUME NEW v, Sound(v), NEW t, NEW x \in Nat \ {0}
  PROVE  /\ Sound(Extend(v, t, x)) /\ Held(Extend(v, t, x), t) = x
         /\ \A s : s # t => Held(Extend(v, t, x), s) = Held(v, s)
BY DEF Extend, Sound, Held

LEMMA LessIs ==
  ASSUME NEW v, Sound(v), NEW t, NEW x \in Nat
  PROVE  /\ Sound(Less(v, t, x)) /\ Held(Less(v, t, x), t) = Minus(Held(v, t), x)
         /\ \A s : s # t => Held(Less(v, t, x), s) = Held(v, s)
<1>1. CASE t \notin DOMAIN v
  BY <1>1 DEF Less, Held, Minus
<1>2. CASE t \in DOMAIN v /\ v[t] <= x
  <2>1. Less(v, t, x) = Drop(v, t) /\ Held(v, t) = v[t]
    BY <1>2 DEF Less, Held
  <2> QED
    BY <1>2, <2>1, DropIs DEF Minus
<1>3. CASE t \in DOMAIN v /\ ~(v[t] <= x)
  <2> DEFINE w == Less(v, t, x)
  <2>1. w = [v EXCEPT ![t] = v[t] - x]
    BY <1>3 DEF Less
  <2>2. DOMAIN w = DOMAIN v /\ w[t] = v[t] - x /\ \A s \in DOMAIN v : s # t => w[s] = v[s]
    BY <1>3, <2>1
  <2>3. v[t] \in Nat \ {0} /\ v[t] - x \in Nat \ {0}
    BY <1>3 DEF Sound
  <2> HIDE DEF w
  <2>4. Sound(w)
    BY <2>2, <2>3 DEF Sound
  <2>5. Held(w, t) = Minus(Held(v, t), x)
    BY <1>3, <2>2 DEF Held, Minus
  <2>6. \A s : s # t => Held(w, s) = Held(v, s)
    BY <2>2 DEF Held
  <2> QED
    BY <2>4, <2>5, <2>6 DEF w
<1> QED
  BY <1>1, <1>2, <1>3

\* What FoldLeft does with the messages q from the account v on.
Folds(g, v, q, k) ==
  g = [s \in SUBSET (1 .. k) |-> IF s = {} THEN v ELSE Hear(g[s \ {Max(s)}], q[Max(s)])]

\* There is such a function for every list, which an induction over its length
\* shows: take the first length for which there is none.
LEMMA FoldExists ==
  ASSUME NEW v, NEW q, NEW n \in Nat
  PROVE  \E g : Folds(g, v, q, n)
<1> DEFINE T == {k \in Nat : ~ \E g : Folds(g, v, q, k)}
<1> SUFFICES ASSUME T # {} PROVE FALSE
  OBVIOUS
<1>1. PICK k \in T : \A j \in T : k <= j
  BY LeastNat
<1>2. k # 0
  <2> DEFINE g == [s \in SUBSET (1 .. 0) |-> v]
  <2>1. \A s \in SUBSET (1 .. 0) : s = {}
    OBVIOUS
  <2>2. Folds(g, v, q, 0)
    BY <2>1 DEF Folds
  <2> QED
    BY <2>2
<1>3. k - 1 \in Nat /\ k - 1 \notin T
  BY <1>1, <1>2
<1>4. PICK h : Folds(h, v, q, k - 1)
  BY <1>3
<1> DEFINE g == [s \in SUBSET (1 .. k) |->
                   IF k \in s THEN Hear(h[s \ {k}], q[k]) ELSE h[s]]
<1>5. ASSUME NEW s \in SUBSET (1 .. k), k \notin s
      PROVE  s \in SUBSET (1 .. k - 1)
  BY <1>1, <1>5
<1>6. ASSUME NEW s \in SUBSET (1 .. k)
      PROVE  g[s] = IF s = {} THEN v ELSE Hear(g[s \ {Max(s)}], q[Max(s)])
  <2>1. CASE k \in s
    <3>1. k \in s /\ \A y \in s : k >= y
      BY <1>1, <2>1
    <3>2. \A x \in s : (\A y \in s : x >= y) => x = k
      BY <1>1, <2>1
    <3>3. Max(s) = k
      BY <3>1, <3>2 DEF Max
    <3>4. s \ {k} \in SUBSET (1 .. k) /\ k \notin s \ {k}
      OBVIOUS
    <3>5. g[s \ {k}] = h[s \ {k}]
      BY <3>4
    <3> QED
      BY <2>1, <3>3, <3>5
  <2>2. CASE k \notin s
    <3>1. s \in SUBSET (1 .. k - 1) /\ g[s] = h[s]
      BY <1>5, <2>2
    <3>2. h[s] = IF s = {} THEN v ELSE Hear(h[s \ {Max(s)}], q[Max(s)])
      BY <1>4, <3>1 DEF Folds
    <3>3. s \ {Max(s)} \in SUBSET (1 .. k) /\ k \notin s \ {Max(s)}
      BY <2>2
    <3>4. g[s \ {Max(s)}] = h[s \ {Max(s)}]
      BY <3>3
    <3> QED
      BY <3>1, <3>2, <3>4
  <2> QED
    BY <2>1, <2>2
<1>7. Folds(g, v, q, k)
  <2> HIDE DEF g
  <2>1. g = [s \in SUBSET (1 .. k) |-> g[s]]
    BY DEF g
  <2> QED
    BY <1>6, <2>1 DEF Folds
<1> QED
  BY <1>1, <1>7

Heard(v, q) == FoldLeft(Hear, v, q)

\* The account after each of the messages q.
Accounts(F, v, q, n) ==
  /\ F[0] = v
  /\ \A k \in 1 .. n : F[k] = Hear(F[k - 1], q[k])

\* A client that hears a list of messages hears them one after the other.
LEMMA HearAll ==
  ASSUME NEW v, NEW q, NEW n \in Nat, DOMAIN q = 1 .. n
  PROVE  \E F : Accounts(F, v, q, n) /\ F[n] = Heard(v, q)
<1> DEFINE g == CHOOSE g : Folds(g, v, q, n)
           F == [k \in 0 .. n |-> g[1 .. k]]
<1>1. Folds(g, v, q, n)
  BY FoldExists
<1>2. Heard(v, q) = g[1 .. n]
  BY DEF Heard, FoldLeft, MapThenFoldSet, Folds
<1> HIDE DEF g
<1>3. F[0] = v
  <2>1. 1 .. 0 = {} /\ {} \in SUBSET (1 .. n)
    OBVIOUS
  <2> QED
    BY <1>1, <2>1 DEF Folds
<1>4. ASSUME NEW k \in 1 .. n
      PROVE  F[k] = Hear(F[k - 1], q[k])
  <2>1. /\ 1 .. k \in SUBSET (1 .. n) /\ 1 .. k # {} /\ k - 1 \in 0 .. n /\ k \in 0 .. n
        /\ k \in Nat \ {0}
    <3>1. k \in Nat /\ 1 <= k /\ k <= n
      OBVIOUS
    <3>2. 1 \in 1 .. k
      BY <3>1
    <3>3. \A x \in 1 .. k : x \in 1 .. n
      BY <3>1
    <3> QED
      BY <3>1, <3>2, <3>3
  <2>2. k \in 1 .. k /\ \A y \in 1 .. k : k >= y
    OBVIOUS
  <2>3. \A x \in 1 .. k : (\A y \in 1 .. k : x >= y) => x = k
    OBVIOUS
  <2>4. Max(1 .. k) = k
    BY <2>2, <2>3 DEF Max
  <2>5. (1 .. k) \ {k} = 1 .. k - 1
    OBVIOUS
  <2>6. g[1 .. k] = Hear(g[1 .. k - 1], q[k])
    BY <1>1, <2>1, <2>4, <2>5 DEF Folds
  <2> QED
    BY <2>1, <2>6
<1>5. F[n] = Heard(v, q)
  BY <1>2
<1> HIDE DEF F
<1>6. Accounts(F, v, q, n)
  BY <1>3, <1>4 DEF Accounts
<1> QED
  BY <1>5, <1>6

\* The account w is v after the fills x of the orders named by the tokens s.
Settled(w, v, s, x, n) ==
  /\ Sound(w)
  /\ \A j \in 1 .. n : Held(w, s[j]) = Minus(Held(v, s[j]), x[j])
  /\ \A t : (\A j \in 1 .. n : s[j] # t) => Held(w, t) = Held(v, t)

\* Each fill told is settled once.
LEMMA SettledStep ==
  ASSUME NEW w, NEW v, NEW s, NEW x, NEW n \in Nat, x[n + 1] \in Nat,
         \A j \in 1 .. n : s[j] # s[n + 1], Settled(w, v, s, x, n)
  PROVE  Settled(Less(w, s[n + 1], x[n + 1]), v, s, x, n + 1)
<1> DEFINE t == s[n + 1]
           u == Less(w, t, x[n + 1])
<1>1. /\ Sound(u) /\ Held(u, t) = Minus(Held(w, t), x[n + 1])
      /\ \A r : r # t => Held(u, r) = Held(w, r)
  BY LessIs DEF Settled
<1>2. Held(w, t) = Held(v, t)
  BY DEF Settled
<1> HIDE DEF u
<1>3. ASSUME NEW j \in 1 .. n + 1
      PROVE  Held(u, s[j]) = Minus(Held(v, s[j]), x[j])
  <2>1. CASE j = n + 1
    BY <1>1, <1>2, <2>1
  <2>2. CASE j \in 1 .. n
    BY <1>1, <2>2 DEF Settled
  <2> QED
    BY <2>1, <2>2
<1>4. ASSUME NEW r, \A j \in 1 .. n + 1 : s[j] # r
      PROVE  Held(u, r) = Held(v, r)
  <2>1. r # t /\ \A j \in 1 .. n : s[j] # r
    <3>1. n + 1 \in 1 .. n + 1 /\ \A j \in 1 .. n : j \in 1 .. n + 1
      OBVIOUS
    <3> QED
      BY <1>4, <3>1
  <2> QED
    BY <1>1, <2>1 DEF Settled
<1> QED
  BY <1>1, <1>3, <1>4 DEF Settled, u

LEMMA SettledAll ==
  ASSUME NEW v, Sound(v), NEW n \in Nat, NEW s, NEW x, \A k \in 1 .. n : x[k] \in Nat,
         \A j, k \in 1 .. n : s[j] = s[k] => j = k,
         NEW F, F[0] = v, \A k \in 1 .. n : F[k] = Less(F[k - 1], s[k], x[k])
  PROVE  Settled(F[n], v, s, x, n)
<1> DEFINE T == {k \in 0 .. n : ~Settled(F[k], v, s, x, k)}
<1> SUFFICES ASSUME T # {} PROVE FALSE
  OBVIOUS
<1>1. PICK k \in T : \A j \in T : k <= j
  <2>1. T \subseteq Nat
    OBVIOUS
  <2> HIDE DEF T
  <2> QED
    BY <2>1, LeastNat
<1>2. Settled(F[0], v, s, x, 0)
  BY DEF Settled
<1>3. k # 0
  BY <1>2
<1>4. k \in 1 .. n /\ k - 1 \in Nat /\ k - 1 + 1 = k /\ k - 1 \in 0 .. n
  BY <1>3
<1>5. Settled(F[k - 1], v, s, x, k - 1)
  BY <1>1, <1>4
<1>6. \A j \in 1 .. k - 1 : s[j] # s[k]
  BY <1>4
<1>7. Settled(Less(F[k - 1], s[k], x[k]), v, s, x, k)
  BY <1>4, <1>5, <1>6, SettledStep
<1> QED
  BY <1>4, <1>7

-----------------------------------------------------------------------------
(***************************************************************************)
(* The maps.                                                                *)
(***************************************************************************)

\* remember and forget keep the maps each other's inverse.
LEMMA RememberIs ==
  ASSUME NEW n, Mirrored(n), NEW id, id \notin DOMAIN n.token, NEW t, t \notin DOMAIN n.id
  PROVE  /\ Mirrored(Remember(n, id, t))
         /\ DOMAIN Remember(n, id, t).token = DOMAIN n.token \union {id}
         /\ DOMAIN Remember(n, id, t).id = DOMAIN n.id \union {t}
         /\ Remember(n, id, t).id[t] = id
         /\ \A s \in DOMAIN n.id : Remember(n, id, t).id[s] = n.id[s]
<1> DEFINE m == Remember(n, id, t)
<1>1. /\ DOMAIN m.id = DOMAIN n.id \union {t} /\ DOMAIN m.token = DOMAIN n.token \union {id}
      /\ m.id[t] = id /\ \A s \in DOMAIN n.id : m.id[s] = n.id[s]
      /\ m.token[id] = t /\ \A i \in DOMAIN n.token : m.token[i] = n.token[i]
      /\ m = [id |-> m.id, token |-> m.token]
  BY DEF Remember, Extend
<1> HIDE DEF m
<1>2. \A s \in DOMAIN n.id : n.id[s] \in DOMAIN n.token /\ n.token[n.id[s]] = s
  BY DEF Mirrored
<1>3. DOMAIN m.token = {m.id[s] : s \in DOMAIN m.id}
  BY <1>1 DEF Mirrored
<1>4. \A s \in DOMAIN m.id : m.token[m.id[s]] = s
  BY <1>1, <1>2
<1> QED
  BY <1>1, <1>3, <1>4 DEF Mirrored, m

\* The names m are those of n less those of the orders X.
Loses(m, n, X) ==
  /\ Mirrored(m)
  /\ DOMAIN m.token = DOMAIN n.token \ X
  /\ \A s : s \in DOMAIN m.id <=> s \in DOMAIN n.id /\ n.id[s] \notin X
  /\ \A s \in DOMAIN m.id : m.id[s] = n.id[s]

LEMMA ForgetIs ==
  ASSUME NEW n, Mirrored(n), NEW X
  PROVE  Loses(Forget(n, X), n, X)
<1> DEFINE gone == X \intersect DOMAIN n.token
           kept == DOMAIN n.id \ {n.token[i] : i \in gone}
           m == Forget(n, X)
<1>1. /\ m = [id |-> [s \in kept |-> n.id[s]],
              token |-> [i \in DOMAIN n.token \ gone |-> n.token[i]]]
  BY DEF Forget, Restrict
<1>2. /\ m = [id |-> m.id, token |-> m.token]
      /\ DOMAIN m.id = kept /\ \A s \in kept : m.id[s] = n.id[s]
      /\ DOMAIN m.token = DOMAIN n.token \ gone
      /\ \A i \in DOMAIN n.token \ gone : m.token[i] = n.token[i]
  BY <1>1
<1> HIDE DEF m
<1>3. \A s \in DOMAIN n.id : n.id[s] \in DOMAIN n.token /\ n.token[n.id[s]] = s
  BY DEF Mirrored
<1>4. \A i \in DOMAIN n.token : n.token[i] \in DOMAIN n.id /\ n.id[n.token[i]] = i
  BY DEF Mirrored
<1>5. \A s \in kept : n.id[s] \in DOMAIN n.token \ gone
  BY <1>3
<1>6. \A i \in DOMAIN n.token \ gone : n.token[i] \in kept
  BY <1>4
<1> HIDE DEF kept
<1>7. kept \subseteq DOMAIN n.id
  BY DEF kept
<1>8. DOMAIN m.token = {m.id[s] : s \in DOMAIN m.id}
  BY <1>2, <1>4, <1>5, <1>6
<1>9. \A s \in DOMAIN m.id : m.token[m.id[s]] = s
  BY <1>2, <1>3, <1>5, <1>7
<1>10. DOMAIN m.token = DOMAIN n.token \ X
  BY <1>2
<1>11. \A s : s \in kept <=> s \in DOMAIN n.id /\ n.id[s] \notin X
  <2>1. ASSUME NEW s \in DOMAIN n.id
        PROVE  s \in kept <=> n.id[s] \notin X
    BY <1>3, <1>4 DEF kept
  <2> QED
    BY <1>7, <2>1
<1>12. Mirrored(m)
  BY <1>2, <1>8, <1>9 DEF Mirrored
<1>13. Loses(m, n, X)
  BY <1>2, <1>7, <1>10, <1>11, <1>12 DEF Loses
<1> QED
  BY <1>13 DEF m

LEMMA LosesBoth ==
  ASSUME NEW l, NEW m, NEW n, NEW X, NEW Y, Loses(m, n, X), Loses(l, m, Y)
  PROVE  Loses(l, n, X \union Y)
BY DEF Loses

-----------------------------------------------------------------------------
(***************************************************************************)
(* The book.                                                                *)
(***************************************************************************)

\* What is proved of PriceTime is true of the gateway's book.
LEMMA SameRemainder ==
  ASSUME NEW qty, NEW f
  PROVE  Book!Remainder(qty, f) = Promises!Remainder(qty, f)
BY DEF Book!Remainder, Promises!Remainder, Book!FoldFunction, Promises!FoldFunction,
       Book!FoldFunctionOnSet, Promises!FoldFunctionOnSet, Book!MapThenFoldSet,
       Promises!MapThenFoldSet

LEMMA SameBefore ==
  ASSUME NEW B, NEW A, NEW i, NEW j
  PROVE  Book!Before(B, A, i, j) <=> Promises!Before(B, A, i, j)
BY DEF Book!Before, Promises!Before, Better, Promises!Better, Opposite, Promises!Opposite,
       Book!Better, Book!Opposite

LEMMA SameEligible ==
  ASSUME NEW B, NEW side, NEW limit
  PROVE  Book!Eligible(B, side, limit) = Promises!Eligible(B, side, limit)
BY DEF Book!Eligible, Promises!Eligible, Book!Reaches, Promises!Reaches, Promises!Opposite,
       Book!Opposite

LEMMA SameFilling ==
  ASSUME NEW B, NEW A, NEW side, NEW limit, NEW qty, NEW f
  PROVE  Book!Filling(B, A, side, limit, qty, f) <=> Promises!Filling(B, A, side, limit, qty, f)
BY SameRemainder, SameEligible, SameBefore DEF Book!Filling, Promises!Filling

LEMMA SameBook ==
  ASSUME NEW B, NEW A, NEW f, NEW X, NEW id, NEW o
  PROVE  /\ Book!AfterFills(B, f) = Promises!AfterFills(B, f)
         /\ Book!QueueOnly(A, X) = Promises!QueueOnly(A, X)
         /\ Book!Only(B, X) = Promises!Only(B, X)
         /\ Book!WithOrder(B, id, o) = Promises!WithOrder(B, id, o)
         /\ Book!QueueBehind(B, A, id, o) = Promises!QueueBehind(B, A, id, o)
         /\ Book!Given(f) = Promises!Given(f)
BY DEF Book!AfterFills, Promises!AfterFills, Book!Survivors, Promises!Survivors, Book!QueueOnly,
       Promises!QueueOnly, Book!Only, Promises!Only, Book!WithOrder, Promises!WithOrder,
       Book!QueueBehind, Promises!QueueBehind, Book!Given, Promises!Given

LEMMA SameMeet ==
  ASSUME NEW B, NEW A, NEW id, NEW side, NEW tick, NEW qty, NEW tif,
         Book!Meet(B, A, id, side, tick, qty, tif)
  PROVE  Promises!Meet(B, A, id, side, tick, qty, tif)
<1>1. PICK f \in [Book!Eligible(B, side, tick) -> 0 .. qty] :
        LET rem   == Book!Remainder(qty, f)
            left  == Book!AfterFills(B, f)
            queue == Book!QueueOnly(A, DOMAIN left)
            order == [side |-> side, tick |-> tick, qty |-> rem]
        IN /\ fills' = Book!Given(f)
           /\ Book!Filling(B, A, side, tick, qty, f)
           /\ tif = "Fok" => rem = 0
           /\ IF rem > 0 /\ tif = "Gtc"
                THEN /\ book' = Book!WithOrder(left, id, order)
                     /\ ahead' = Book!QueueBehind(left, queue, id, order)
                ELSE book' = left /\ ahead' = queue
  BY DEF Book!Meet
<1>2. f \in [Promises!Eligible(B, side, tick) -> 0 .. qty]
  BY <1>1, SameEligible
<1>3. LET rem   == Promises!Remainder(qty, f)
          left  == Promises!AfterFills(B, f)
          queue == Promises!QueueOnly(A, DOMAIN left)
          order == [side |-> side, tick |-> tick, qty |-> rem]
      IN /\ fills' = Promises!Given(f)
         /\ Promises!Filling(B, A, side, tick, qty, f)
         /\ tif = "Fok" => rem = 0
         /\ IF rem > 0 /\ tif = "Gtc"
              THEN /\ book' = Promises!WithOrder(left, id, order)
                   /\ ahead' = Promises!QueueBehind(left, queue, id, order)
              ELSE book' = left /\ ahead' = queue
  BY <1>1, SameRemainder, SameFilling, SameBook
<1> QED
  BY <1>2, <1>3 DEF Promises!Meet

LEMMA SameVerdict ==
  ASSUME NEW B, NEW A, NEW id, NEW side, NEW tick, NEW qty, NEW tif
  PROVE  Book!LimitVerdict(B, A, id, side, tick, qty, tif)
           = Promises!LimitVerdict(B, A, id, side, tick, qty, tif)
<1>1. Book!Fillable(B, A, side, tick, qty) <=> Promises!Fillable(B, A, side, tick, qty)
  <2>1. \A f : /\ Book!Filling(B, A, side, tick, qty, f)
                    <=> Promises!Filling(B, A, side, tick, qty, f)
               /\ Book!Remainder(qty, f) = Promises!Remainder(qty, f)
    BY SameRemainder, SameFilling
  <2>2. [Book!Eligible(B, side, tick) -> 0 .. qty] = [Promises!Eligible(B, side, tick) -> 0 .. qty]
    BY SameEligible
  <2> QED
    BY <2>1, <2>2 DEF Book!Fillable, Promises!Fillable
<1> QED
  BY <1>1 DEF Book!LimitVerdict, Promises!LimitVerdict, Book!Ticks, Promises!Ticks, Ticks,
         Book!Cardinality, Promises!Cardinality

LEMMA SameAddLimit ==
  ASSUME NEW B, NEW A, NEW id, NEW side, NEW tick, NEW qty, NEW tif,
         Book!AddLimitTo(B, A, id, side, tick, qty, tif)
  PROVE  Promises!AddLimitTo(B, A, id, side, tick, qty, tif)
BY SameVerdict, SameMeet
DEF Book!AddLimitTo, Promises!AddLimitTo, Book!NoFills, Promises!NoFills

\* The calls the gateway makes keep the book's promises.
LEMMA AddKeepsGood ==
  ASSUME NEW B, NEW A, Good(B, A),
         NEW id \in AnyId, NEW side \in Sides, NEW tick \in Int, NEW qty \in Int, NEW tif,
         Book!AddLimitTo(B, A, id, side, tick, qty, tif)
  PROVE  Good(book', ahead')
<1>1. Promises!BookAssumption
  BY BookAssumption DEF Promises!BookAssumption
<1>2. id \in Promises!AnyId /\ side \in Promises!Sides
  BY DEF AnyId, Promises!AnyId, Sides, Promises!Sides
<1>3. Promises!AddLimitTo(B, A, id, side, tick, qty, tif)
  BY SameAddLimit
<1>4. Promises!Fine
  BY <1>1, <1>2, <1>3, Promises!AddLimitIsFine DEF Good
<1> QED
  BY <1>4 DEF Promises!Fine, Good

LEMMA WithoutKeepsGood ==
  ASSUME NEW B, NEW A, Good(B, A), NEW id
  PROVE  Good(Book!Without(B, id), Book!QueueWithout(A, B, id))
<1> DEFINE X == DOMAIN B \ {id}
<1>1. Promises!BookAssumption
  BY BookAssumption DEF Promises!BookAssumption
<1>2. X \in SUBSET DOMAIN B
  OBVIOUS
<1>3. Promises!GoodBook(Promises!Only(B, X), Promises!QueueOnly(A, X))
  BY <1>1, <1>2, Promises!OnlyIsGood DEF Good
<1> QED
  BY <1>3, SameBook DEF Book!Without, Book!QueueWithout, Good

LEMMA NobodyIsGood ==
  ASSUME Book!Init
  PROVE  Good(book, ahead)
<1>1. Promises!BookAssumption
  BY BookAssumption DEF Promises!BookAssumption
<1> QED
  BY <1>1, Promises!EmptyIsGood DEF Book!Init, Good

\* What the promises say.
LEMMA GoodIs ==
  ASSUME NEW B, NEW A, Good(B, A)
  PROVE  /\ IsFiniteSet(DOMAIN B)
         /\ \A i \in DOMAIN B : B[i] \in [side : Sides, tick : Int, qty : Nat \ {0}]
         /\ \A i \in DOMAIN B : <<i, i>> \notin A
         /\ \A i, j \in DOMAIN B : <<i, j>> \in A => B[i].side = B[j].side /\ B[i].tick = B[j].tick
         /\ \A i, j \in DOMAIN B : i # j /\ B[i].side = B[j].side /\ B[i].tick = B[j].tick =>
              (<<i, j>> \in A <=> <<j, i>> \notin A)
         /\ \A i, j, k \in DOMAIN B : <<i, j>> \in A /\ <<j, k>> \in A => <<i, k>> \in A
<1>1. IsFiniteSet(DOMAIN B)
  BY DEF Good, Promises!GoodBook, Promises!InPool, Promises!IsFiniteSet, IsFiniteSet
<1>2. /\ \A i \in DOMAIN B : B[i] \in Promises!Order
      /\ Promises!Ordered(B, A)
  BY DEF Good, Promises!GoodBook, Promises!BookTyped
<1>3. \A i \in DOMAIN B : B[i] \in [side : Sides, tick : Int, qty : Nat \ {0}]
  BY <1>2, BookAssumption
     DEF Promises!Order, Sides, Promises!Sides, Promises!Ticks, Promises!Quantities
<1> QED
  BY <1>1, <1>2, <1>3 DEF Promises!Ordered, Promises!SameLevel

\* Of the orders of B, those that a call leaves.
Kept(B) == DOMAIN B \ {i \in DOMAIN fills' : fills'[i] = B[i].qty}

\* What a call for the order id on `side` makes of the others.
Trades(B, id, side) ==
  /\ DOMAIN fills' \subseteq DOMAIN B
  /\ \A i \in DOMAIN fills' :
       fills'[i] \in Nat /\ fills'[i] <= B[i].qty /\ B[i].side = Opposite(side)
  /\ DOMAIN book' \ {id} = Kept(B)
  /\ \A i \in Kept(B) :
       book'[i].qty = IF i \in DOMAIN fills' THEN B[i].qty - fills'[i] ELSE B[i].qty

\* An order that meets the book takes from makers what they have at most.
LEMMA MeetIs ==
  ASSUME NEW B, NEW A, Good(B, A), NEW id, id \notin DOMAIN B, NEW side \in Sides,
         NEW tick, NEW qty \in Nat, NEW tif, Book!Meet(B, A, id, side, tick, qty, tif)
  PROVE  Trades(B, id, side)
<1>1. PICK f \in [Book!Eligible(B, side, tick) -> 0 .. qty] :
        LET rem   == Book!Remainder(qty, f)
            left  == Book!AfterFills(B, f)
            queue == Book!QueueOnly(A, DOMAIN left)
            order == [side |-> side, tick |-> tick, qty |-> rem]
        IN /\ fills' = Book!Given(f)
           /\ Book!Filling(B, A, side, tick, qty, f)
           /\ IF rem > 0 /\ tif = "Gtc"
                THEN /\ book' = Book!WithOrder(left, id, order)
                     /\ ahead' = Book!QueueBehind(left, queue, id, order)
                ELSE book' = left /\ ahead' = queue
  BY DEF Book!Meet
<1> DEFINE E == DOMAIN f
           rem == Book!Remainder(qty, f)
           left == Book!AfterFills(B, f)
           order == [side |-> side, tick |-> tick, qty |-> rem]
<1>2. /\ E \subseteq DOMAIN B
      /\ \A i \in E : f[i] \in Nat /\ f[i] <= B[i].qty /\ B[i].side = Opposite(side)
  BY <1>1 DEF Book!Filling, Book!Eligible, Book!Opposite, Opposite
<1>3. DOMAIN fills' = {i \in E : f[i] > 0} /\ \A i \in DOMAIN fills' : fills'[i] = f[i]
  BY <1>1 DEF Book!Given
<1>4. /\ DOMAIN left = {i \in DOMAIN B : i \in E => f[i] < B[i].qty}
      /\ \A i \in DOMAIN left : left[i] = IF i \in E THEN [B[i] EXCEPT !.qty = @ - f[i]] ELSE B[i]
  BY DEF Book!AfterFills, Book!Survivors
<1>5. book' = left \/ book' = Book!WithOrder(left, id, order)
  BY <1>1
<1>6. \A i \in DOMAIN B : B[i] \in [side : Sides, tick : Int, qty : Nat \ {0}]
  BY GoodIs
<1>7. \A i \in DOMAIN B : B[i].qty \in Nat \ {0}
  BY <1>6
<1> HIDE DEF rem, left, E
<1>8. DOMAIN left = Kept(B)
  <2>1. ASSUME NEW i \in DOMAIN B
        PROVE  (i \in E => f[i] < B[i].qty) <=> ~(i \in DOMAIN fills' /\ fills'[i] = B[i].qty)
    BY <1>2, <1>3, <1>7
  <2> QED
    BY <1>4, <2>1 DEF Kept
<1>9. ASSUME NEW i \in DOMAIN left
      PROVE  left[i].qty = IF i \in DOMAIN fills' THEN B[i].qty - fills'[i] ELSE B[i].qty
  <2>1. i \in DOMAIN B /\ B[i].qty \in Nat \ {0}
    BY <1>4, <1>7
  <2>2. CASE i \in E
    <3>1. left[i].qty = B[i].qty - f[i] /\ f[i] \in Nat
      BY <1>2, <1>4, <1>6, <2>1, <2>2
    <3> QED
      BY <1>3, <2>1, <2>2, <3>1
  <2>3. CASE i \notin E
    BY <1>3, <1>4, <2>3
  <2> QED
    BY <2>2, <2>3
<1>10. /\ DOMAIN book' \ {id} = DOMAIN left
       /\ \A i \in DOMAIN left : book'[i] = left[i]
  <2>1. id \notin DOMAIN left
    BY <1>4
  <2>2. CASE book' = left
    BY <2>1, <2>2
  <2>3. CASE book' = Book!WithOrder(left, id, order)
    BY <2>1, <2>3 DEF Book!WithOrder
  <2> QED
    BY <1>5, <2>2, <2>3
<1>11. DOMAIN fills' \subseteq DOMAIN B
  BY <1>2, <1>3
<1>12. \A i \in DOMAIN fills' :
         fills'[i] \in Nat /\ fills'[i] <= B[i].qty /\ B[i].side = Opposite(side)
  BY <1>2, <1>3
<1>13. \A i \in Kept(B) :
         book'[i].qty = IF i \in DOMAIN fills' THEN B[i].qty - fills'[i] ELSE B[i].qty
  BY <1>8, <1>9, <1>10
<1> QED
  BY <1>8, <1>10, <1>11, <1>12, <1>13 DEF Trades

\* An order that is entered is let in and takes what it is given, or is refused.
LEMMA AddLimitIs ==
  ASSUME NEW B, NEW A, Good(B, A), NEW id, id \notin DOMAIN B, NEW side \in Sides,
         NEW tick \in Int, NEW qty \in Nat, NEW tif, Book!AddLimitTo(B, A, id, side, tick, qty, tif)
  PROVE  /\ Trades(B, id, side)
         /\ verdict' # "None" => book' = B /\ DOMAIN fills' = {}
<1>1. CASE verdict' = "None" /\ Book!Meet(B, A, id, side, tick, qty, tif)
  BY <1>1, MeetIs
<1>2. CASE verdict' # "None" /\ book' = B /\ fills' = Book!NoFills
  <2>1. DOMAIN fills' = {}
    BY <1>2 DEF Book!NoFills
  <2>2. Kept(B) = DOMAIN B
    BY <2>1 DEF Kept
  <2> QED
    BY <1>2, <2>1, <2>2 DEF Trades
<1> QED
  BY <1>1, <1>2 DEF Book!AddLimitTo

-----------------------------------------------------------------------------
(***************************************************************************)
(* on_trade.                                                                *)
(***************************************************************************)

\* The makers of one side are served in an order.
LEMMA BeforeOrders ==
  ASSUME Good(book, ahead), NEW M \in SUBSET DOMAIN book, NEW side \in Sides,
         \A i \in M : book[i].side = side
  PROVE  Orders({p \in M \X M : Book!Before(book, ahead, p[1], p[2])}, M)
<1> DEFINE R == {p \in M \X M : Book!Before(book, ahead, p[1], p[2])}
<1>1. ASSUME NEW i \in M, NEW j \in M
      PROVE  <<i, j>> \in R <=> \/ IF side = "Sell" THEN book[i].tick < book[j].tick
                                                    ELSE book[i].tick > book[j].tick
                                \/ <<i, j>> \in ahead
  BY <1>1 DEF Book!Before, Book!Better, Book!Opposite, Better, Opposite, Sides
<1> HIDE DEF R
<1>2. /\ \A i \in M : book[i].tick \in Int /\ <<i, i>> \notin ahead
      /\ \A i, j \in M : <<i, j>> \in ahead => book[i].tick = book[j].tick
      /\ \A i, j \in M : i # j /\ book[i].tick = book[j].tick =>
           <<i, j>> \in ahead \/ <<j, i>> \in ahead
      /\ \A i, j, k \in M : <<i, j>> \in ahead /\ <<j, k>> \in ahead => <<i, k>> \in ahead
  <2> DEFINE same(i, j) == book[i].side = book[j].side /\ book[i].tick = book[j].tick
  <2>1. /\ \A i \in DOMAIN book : book[i].tick \in Int /\ <<i, i>> \notin ahead
        /\ \A i, j \in DOMAIN book : <<i, j>> \in ahead => same(i, j)
        /\ \A i, j \in DOMAIN book : i # j /\ same(i, j) => <<i, j>> \in ahead \/ <<j, i>> \in ahead
        /\ \A i, j, k \in DOMAIN book :
             <<i, j>> \in ahead /\ <<j, k>> \in ahead => <<i, k>> \in ahead
    BY GoodIs
  <2>2. M \subseteq DOMAIN book /\ \A i, j \in M : same(i, j) <=> book[i].tick = book[j].tick
    OBVIOUS
  <2> HIDE DEF same
  <2>3. /\ \A i \in M : book[i].tick \in Int /\ <<i, i>> \notin ahead
        /\ \A i, j, k \in M : <<i, j>> \in ahead /\ <<j, k>> \in ahead => <<i, k>> \in ahead
    BY <2>1
  <2>4. ASSUME NEW i \in M, NEW j \in M
        PROVE  /\ <<i, j>> \in ahead => book[i].tick = book[j].tick
               /\ i # j /\ book[i].tick = book[j].tick => <<i, j>> \in ahead \/ <<j, i>> \in ahead
    BY <2>1, <2>2
  <2> QED
    BY <2>3, <2>4
<1>3. ASSUME NEW i \in M
      PROVE  <<i, i>> \notin R
  <2>1. book[i].tick \in Int /\ <<i, i>> \notin ahead
    BY <1>2
  <2> QED
    BY <1>1, <2>1
<1>4. ASSUME NEW i \in M, NEW j \in M, i # j
      PROVE  <<i, j>> \in R \/ <<j, i>> \in R
  <2>1. book[i].tick \in Int /\ book[j].tick \in Int
    BY <1>2
  <2>2. CASE book[i].tick = book[j].tick
    BY <1>1, <1>2, <1>4, <2>2
  <2>3. CASE book[i].tick # book[j].tick
    BY <1>1, <2>1, <2>3
  <2> QED
    BY <2>2, <2>3
<1>5. ASSUME NEW i \in M, NEW j \in M, NEW k \in M, <<i, j>> \in R, <<j, k>> \in R
      PROVE  <<i, k>> \in R
  <2>1. book[i].tick \in Int /\ book[j].tick \in Int /\ book[k].tick \in Int
    BY <1>2
  <2>2. /\ <<i, j>> \in ahead => book[i].tick = book[j].tick
        /\ <<j, k>> \in ahead => book[j].tick = book[k].tick
        /\ <<i, j>> \in ahead /\ <<j, k>> \in ahead => <<i, k>> \in ahead
    BY <1>2
  <2>3. CASE <<i, j>> \in ahead /\ <<j, k>> \in ahead
    BY <1>1, <2>2, <2>3
  <2>4. CASE ~(<<i, j>> \in ahead /\ <<j, k>> \in ahead)
    <3>1. CASE side = "Sell"
      BY <1>1, <1>5, <2>1, <2>2, <2>4, <3>1
    <3>2. CASE side # "Sell"
      BY <1>1, <1>5, <2>1, <2>2, <2>4, <3>2
    <3> QED
      BY <3>1, <3>2
  <2> QED
    BY <2>3, <2>4
<1> QED
  BY <1>3, <1>4, <1>5 DEF Orders, R

\* The makers told of are each of those with a name once.
LEMMA ToldIs ==
  ASSUME Good(book, ahead), NEW n, NEW side \in Sides,
         DOMAIN fills' \subseteq DOMAIN book, \A i \in DOMAIN fills' : book[i].side = side
  PROVE  \E k \in Nat : Lists(Told(n), DOMAIN fills' \intersect DOMAIN n.token, k)
<1> DEFINE M == DOMAIN fills' \intersect DOMAIN n.token
           R == {p \in M \X M : Book!Before(book, ahead, p[1], p[2])}
<1>1. M \in SUBSET DOMAIN book /\ IsFiniteSet(M)
  BY GoodIs, FS_Subset
<1>2. Orders(R, M)
  BY <1>1, BeforeOrders
<1>3. PICK s \in SetToSeqs(M) : Sorted(s, R)
  BY <1>1, <1>2, ListExists
<1>4. \A j, k \in DOMAIN s : j < k => Book!Before(book, ahead, s[j], s[k])
  BY <1>3 DEF Sorted
<1>5. Told(n) \in SetToSeqs(M)
  BY <1>3, <1>4 DEF Told
<1> QED
  BY <1>1, <1>5, ListIs

\* The makers of the call told of by the names n.
Named(n) == DOMAIN fills' \intersect DOMAIN n.token

\* The account w is that of a client that heard of the fills, by the names n.
Follows(w, n) ==
  /\ Sound(w)
  /\ \A i \in Named(n) : Held(w, n.token[i]) = Minus(Held(view, n.token[i]), fills'[i])
  /\ \A t : (\A i \in Named(n) : n.token[i] # t) => Held(w, t) = Held(view, t)

\* The messages published: one for each maker told of, and the answer.
LEMMA ExecutionsAre ==
  ASSUME NEW n, NEW k \in Nat, Lists(Told(n), Named(n), k), NEW last
  PROVE  LET q == Append(Executions(n), last)
         IN /\ DOMAIN q = 1 .. k + 1 /\ q[k + 1] = last
            /\ \A j \in 1 .. k :
                 q[j] = Executed(n.token[Told(n)[j]], fills'[Told(n)[j]])
<1> DEFINE e == Executions(n)
<1>1. /\ DOMAIN e = 1 .. k /\ e = [j \in 1 .. k |-> e[j]]
      /\ \A j \in 1 .. k : e[j] = Executed(n.token[Told(n)[j]], fills'[Told(n)[j]])
  BY DEF Executions, Lists
<1> HIDE DEF e
<1> DEFINE S == {e[j] : j \in 1 .. k} \union {last}
<1>2. e \in [1 .. k -> S]
  BY <1>1
<1> HIDE DEF S
<1>3. e \in Seq(S) /\ Len(e) = k
  BY <1>2
<1>4. last \in S
  BY DEF S
<1> QED
  BY <1>1, <1>3, <1>4 DEF e

LEMMA HearExecuted ==
  ASSUME NEW v, NEW t, NEW x
  PROVE  Hear(v, Executed(t, x)) = Less(v, t, x)
BY DEF Hear, Executed

LEMMA TokensDiffer ==
  ASSUME NEW n, Mirrored(n), NEW i \in DOMAIN n.token, NEW j \in DOMAIN n.token,
         n.token[i] = n.token[j]
  PROVE  i = j
BY DEF Mirrored

\* Who hears of the fills settles each of them.
LEMMA ExecutionsSettle ==
  ASSUME Good(book, ahead), NEW side \in Sides, NEW n, Mirrored(n), Sound(view), NEW last,
         DOMAIN fills' \subseteq DOMAIN book, \A i \in DOMAIN fills' : book[i].side = side,
         \A i \in DOMAIN fills' : fills'[i] \in Nat
  PROVE  \E w : Follows(w, n) /\ Heard(view, Append(Executions(n), last)) = Hear(w, last)
<1> DEFINE q == Append(Executions(n), last)
           M == Named(n)
           told == Told(n)
<1>1. PICK k \in Nat : Lists(told, M, k)
  BY ToldIs DEF Named
<1>2. /\ DOMAIN q = 1 .. k + 1 /\ q[k + 1] = last
      /\ \A j \in 1 .. k : q[j] = Executed(n.token[told[j]], fills'[told[j]])
  BY <1>1, ExecutionsAre
<1>3. PICK F : Accounts(F, view, q, k + 1) /\ F[k + 1] = Heard(view, q)
  <2>1. k + 1 \in Nat
    OBVIOUS
  <2> HIDE DEF q
  <2> QED
    BY <1>2, <2>1, HearAll
<1> DEFINE s == [j \in 1 .. k |-> n.token[told[j]]]
           x == [j \in 1 .. k |-> fills'[told[j]]]
           w == F[k]
<1>4. told \in [1 .. k -> M] /\ M \subseteq DOMAIN fills' /\ M \subseteq DOMAIN n.token
  BY <1>1 DEF Lists, Named
<1> HIDE DEF told, q
<1>5. \A j \in 1 .. k : x[j] \in Nat
  BY <1>4
<1>6. \A i, j \in 1 .. k : s[i] = s[j] => i = j
  <2> SUFFICES ASSUME NEW i \in 1 .. k, NEW j \in 1 .. k, s[i] = s[j] PROVE i = j
    OBVIOUS
  <2>1. /\ told[i] \in DOMAIN n.token /\ told[j] \in DOMAIN n.token
        /\ n.token[told[i]] = n.token[told[j]]
    BY <1>4
  <2>2. told[i] = told[j]
    BY <2>1, TokensDiffer
  <2> QED
    BY <1>1, <2>2 DEF Lists
<1>7. F[0] = view
  BY <1>3 DEF Accounts
<1>8. ASSUME NEW j \in 1 .. k
      PROVE  F[j] = Less(F[j - 1], s[j], x[j])
  <2>1. j \in 1 .. k + 1
    OBVIOUS
  <2>2. F[j] = Hear(F[j - 1], q[j])
    BY <1>3, <2>1 DEF Accounts
  <2>3. q[j] = Executed(s[j], x[j])
    BY <1>2
  <2> QED
    BY <2>2, <2>3, HearExecuted
<1>9. F[k + 1] = Hear(w, last)
  <2>1. k + 1 \in 1 .. k + 1 /\ k + 1 - 1 = k
    OBVIOUS
  <2> QED
    BY <1>2, <1>3, <2>1 DEF Accounts
<1> HIDE DEF s, x
<1>10. Settled(w, view, s, x, k)
  BY <1>5, <1>6, <1>7, <1>8, SettledAll
<1>11. ASSUME NEW i \in M
       PROVE  Held(w, n.token[i]) = Minus(Held(view, n.token[i]), fills'[i])
  <2>1. PICK j \in 1 .. k : told[j] = i
    BY <1>1 DEF Lists
  <2>2. s[j] = n.token[i] /\ x[j] = fills'[i]
    BY <2>1 DEF s, x
  <2> QED
    BY <1>10, <2>2 DEF Settled
<1>12. ASSUME NEW t, \A i \in M : n.token[i] # t
       PROVE  Held(w, t) = Held(view, t)
  <2>1. \A j \in 1 .. k : s[j] # t
    BY <1>4, <1>12 DEF s
  <2> QED
    BY <1>10, <2>1 DEF Settled
<1> HIDE DEF w
<1>13. Follows(w, n)
  BY <1>10, <1>11, <1>12 DEF Follows, Settled, w
<1> QED
  BY <1>3, <1>9, <1>13 DEF q

-----------------------------------------------------------------------------
(***************************************************************************)
(* The handlers.                                                            *)
(***************************************************************************)

\* The makers that give all they have, and whether the order id is left resting.
Gone == {i \in DOMAIN fills' : fills'[i] = book[i].qty}
Stays(id) == verdict' = "None" /\ LiveNow(id)
Lost(id) == Gone \union IF Stays(id) THEN {} ELSE {id}

\* The names that are left of n when a call for the order id is over.
LEMMA NamesAfter ==
  ASSUME NEW n, Mirrored(n), NEW id, id \notin DOMAIN fills', NEW m,
         m = IF verdict' = "None" /\ LiveNow(id) THEN AfterTrades(n)
             ELSE Forget(AfterTrades(n), {id})
  PROVE  Loses(m, n, Lost(id)) /\ id \notin Gone
<1> DEFINE a == AfterTrades(n)
<1>1. a = Forget(n, Gone) /\ id \notin Gone
  BY DEF AfterTrades, Gone
<1> HIDE DEF a
<1>2. Loses(a, n, Gone) /\ Mirrored(a)
  BY <1>1, ForgetIs DEF Loses
<1>3. CASE Stays(id)
  <2>1. m = a /\ Lost(id) = Gone
    BY <1>3 DEF Stays, Lost, a
  <2> QED
    BY <1>1, <1>2, <2>1
<1>4. CASE ~Stays(id)
  <2>1. m = Forget(a, {id}) /\ Lost(id) = Gone \union {id}
    BY <1>4 DEF Stays, Lost, a
  <2>2. Loses(m, a, {id})
    BY <1>2, <2>1, ForgetIs
  <2> QED
    BY <1>1, <1>2, <2>1, <2>2, LosesBoth
<1> QED
  BY <1>3, <1>4

\* The order id, named in n, is brought to the book B, and leaves the names m.
Calls(B, n, m, id, side) ==
  /\ id \notin DOMAIN B /\ id \notin orphans
  /\ Mirrored(n) /\ DOMAIN n.token = (DOMAIN B \ orphans) \union {id}
  /\ \A i \in DOMAIN B : i \in DOMAIN book /\ B[i] = book[i] /\ B[i].qty \in Nat \ {0}
  /\ Trades(B, id, side)
  /\ verdict' # "None" => book' = B
  /\ m = IF verdict' = "None" /\ LiveNow(id) THEN AfterTrades(n) ELSE Forget(AfterTrades(n), {id})

\* After a call the names are those of the orders that rest.
LEMMA NamesFollow ==
  ASSUME NEW B, NEW n, NEW m, NEW id, NEW side, Calls(B, n, m, id, side)
  PROVE  /\ Mirrored(m) /\ DOMAIN m.token = DOMAIN book' \ orphans
         /\ Loses(m, n, Lost(id))
<1> USE DEF Calls
<1>1. Loses(m, n, Lost(id))
  BY NamesAfter DEF Trades
<1>2. DOMAIN book' \ {id} = DOMAIN B \ Gone /\ id \notin Gone
  BY DEF Trades, Kept, Gone
<1>3. Stays(id) <=> id \in DOMAIN book'
  BY DEF Stays, LiveNow
<1>4. Mirrored(m) /\ DOMAIN m.token = DOMAIN n.token \ Lost(id)
  BY <1>1 DEF Loses
<1>5. DOMAIN n.token = (DOMAIN B \ orphans) \union {id} /\ id \notin orphans
  OBVIOUS
<1>6. DOMAIN n.token \ Lost(id) = DOMAIN book' \ orphans
  <2> USE DEF Lost
  <2>1. CASE Stays(id)
    BY <1>2, <1>3, <1>5, <2>1
  <2>2. CASE ~Stays(id)
    BY <1>2, <1>3, <1>5, <2>2
  <2> QED
    BY <2>1, <2>2
<1> QED
  BY <1>1, <1>4, <1>6

\* Nobody is told of the fills of an order without a name.
LEMMA NobodyElse ==
  ASSUME NEW n, Mirrored(n), NEW s, \A i \in Named(n) : s \in DOMAIN n.id => i # n.id[s]
  PROVE  \A i \in Named(n) : n.token[i] # s
BY DEF Named, Mirrored

(***************************************************************************)
(* The order id is let in, by the names n, to the book B, of which the       *)
(* account `view` tells.  It is w when the fills are heard, and u when the    *)
(* answer is: which is about the token t, and the tokens given up.           *)
(***************************************************************************)
\* The account tells of the orders of B named in n, that of t aside, and of no
\* other but those of the tokens dropped.
TellsOthers(n, B, t) == \A s \in DOMAIN n.id \ {t} : Held(view, s) = B[n.id[s]].qty
NoOthers(n, t, dropped) ==
  \A s : s \notin dropped /\ (s \in DOMAIN n.id => s = t) => Held(view, s) = 0

\* The names n give t to the order id, and the tokens dropped to none.
Gives(n, t, id, dropped) ==
  t \in DOMAIN n.id /\ n.id[t] = id /\ \A s \in dropped : s \notin DOMAIN n.id

Answers(u, w, t, id, dropped) ==
  /\ Sound(u)
  /\ \A s \in dropped : Held(u, s) = 0
  /\ \A s : s # t /\ s \notin dropped => Held(u, s) = Held(w, s)
  /\ Held(u, t) = IF LiveNow(id) THEN book'[id].qty ELSE Held(w, t)

\* After a call the account tells of the orders that rest.
LEMMA ViewFollows ==
  ASSUME NEW B, NEW n, NEW m, NEW id, NEW side, Calls(B, n, m, id, side), verdict' = "None",
         NEW t, NEW dropped, Gives(n, t, id, dropped), TellsOthers(n, B, t), NEW w, Follows(w, n),
         NEW u, Answers(u, w, t, id, dropped)
  PROVE  /\ Tells(u, m, book')
         /\ NoOthers(n, t, dropped) => DOMAIN u \subseteq DOMAIN m.id
<1> USE DEF Calls, Answers, TellsOthers, Gives
<1>1. /\ \A s : s \in DOMAIN m.id <=>
             s \in DOMAIN n.id /\ n.id[s] \notin Gone /\ (n.id[s] = id => Stays(id))
      /\ \A s \in DOMAIN m.id : m.id[s] = n.id[s]
  <2>1. Loses(m, n, Lost(id))
    BY NamesFollow
  <2> QED
    BY <2>1 DEF Loses, Lost
<1>2. /\ id \notin Gone /\ Gone \subseteq DOMAIN fills' /\ DOMAIN B \ Gone = Kept(B)
      /\ id \notin DOMAIN fills' /\ DOMAIN fills' \subseteq DOMAIN B
  BY DEF Trades, Kept, Gone
<1>3. Stays(id) <=> LiveNow(id)
  BY DEF Stays
<1>4. ASSUME NEW s \in DOMAIN n.id, s # t
      PROVE  n.id[s] \in DOMAIN B /\ n.id[s] \in DOMAIN n.token /\ n.token[n.id[s]] = s
  BY <1>4 DEF Mirrored
<1>5. ASSUME NEW s \in DOMAIN n.id, s # t
      PROVE  IF n.id[s] \in DOMAIN fills'
               THEN Held(u, s) = Minus(B[n.id[s]].qty, fills'[n.id[s]])
               ELSE Held(u, s) = B[n.id[s]].qty
  <2>1. Held(u, s) = Held(w, s) /\ Held(view, s) = B[n.id[s]].qty
    BY <1>5
  <2>2. CASE n.id[s] \in DOMAIN fills'
    <3>1. n.id[s] \in Named(n)
      BY <1>4, <1>5, <2>2 DEF Named
    <3>2. Held(w, n.token[n.id[s]]) = Minus(Held(view, n.token[n.id[s]]), fills'[n.id[s]])
      BY <3>1 DEF Follows
    <3> QED
      BY <1>4, <1>5, <2>1, <2>2, <3>2
  <2>3. CASE n.id[s] \notin DOMAIN fills'
    <3>1. \A i \in Named(n) : n.token[i] # s
      BY <2>3, NobodyElse DEF Named
    <3> QED
      BY <2>1, <2>3, <3>1 DEF Follows
  <2> QED
    BY <2>2, <2>3
<1>6. ASSUME NEW s \in DOMAIN m.id
      PROVE  Held(u, s) = book'[m.id[s]].qty
  <2> DEFINE i == n.id[s]
  <2>1. s \in DOMAIN n.id /\ m.id[s] = i /\ i \notin Gone /\ (i = id => LiveNow(id))
    BY <1>1, <1>3
  <2>2. CASE s = t
    BY <2>1, <2>2
  <2>3. CASE s # t
    <3>1. i \in Kept(B) /\ i \in DOMAIN B /\ B[i].qty \in Nat
      BY <1>2, <1>4, <2>1, <2>3
    <3>2. book'[i].qty = IF i \in DOMAIN fills' THEN B[i].qty - fills'[i] ELSE B[i].qty
      BY <3>1 DEF Trades
    <3>3. CASE i \in DOMAIN fills'
      <4>1. Held(u, s) = Minus(B[i].qty, fills'[i]) /\ book'[i].qty = B[i].qty - fills'[i]
        BY <1>5, <2>1, <2>3, <3>2, <3>3
      <4>2. fills'[i] \in Nat /\ fills'[i] <= B[i].qty /\ fills'[i] # B[i].qty
        BY <3>1, <3>3 DEF Trades, Kept
      <4>3. ~(B[i].qty <= fills'[i])
        BY <3>1, <4>2
      <4> QED
        BY <2>1, <4>1, <4>3 DEF Minus
    <3>4. CASE i \notin DOMAIN fills'
      BY <1>5, <2>1, <2>3, <3>2, <3>4
    <3> QED
      BY <3>3, <3>4
  <2> QED
    BY <2>2, <2>3
<1>7. ASSUME NoOthers(n, t, dropped)
      PROVE  DOMAIN u \subseteq DOMAIN m.id
  <2> USE <1>7 DEF NoOthers
  <2> SUFFICES ASSUME NEW s, s \notin DOMAIN m.id PROVE Held(u, s) = 0
    <3>1. \A s \in DOMAIN u : Held(u, s) # 0
      BY DEF Held, Sound
    <3> QED
      BY <3>1
  <2>1. CASE s \in dropped
    BY <2>1
  <2>2. CASE s = t
    <3>1. ~LiveNow(id) /\ Held(u, t) = Held(w, t)
      BY <1>1, <1>2, <1>3, <2>2
    <3>2. \A i \in Named(n) : n.token[i] # t
      BY <1>2, NobodyElse DEF Named
    <3>3. t \notin dropped /\ Held(view, t) = 0
      BY <1>7
    <3> QED
      BY <2>2, <3>1, <3>2, <3>3 DEF Follows
  <2>3. CASE s \notin dropped /\ s # t /\ s \in DOMAIN n.id
    <3>1. n.id[s] \in DOMAIN B /\ n.id[s] \in Gone
      BY <1>1, <1>4, <2>3
    <3>2. Held(u, s) = Minus(B[n.id[s]].qty, fills'[n.id[s]])
      BY <1>2, <1>5, <2>3, <3>1
    <3>3. fills'[n.id[s]] = B[n.id[s]].qty /\ B[n.id[s]].qty \in Nat
      BY <3>1 DEF Gone
    <3> QED
      BY <3>2, <3>3 DEF Minus
  <2>4. CASE s \notin dropped /\ s \notin DOMAIN n.id
    <3>1. \A i \in Named(n) : n.token[i] # s
      BY <2>4, NobodyElse
    <3>2. s # t /\ Held(view, s) = 0
      BY <1>7, <2>4
    <3> QED
      BY <2>4, <3>1, <3>2 DEF Follows
  <2> QED
    BY <2>1, <2>2, <2>3, <2>4
<1> QED
  BY <1>6, <1>7 DEF Tells

\* One message alone.
LEMMA HeardOne ==
  ASSUME NEW v, NEW m
  PROVE  Heard(v, <<m>>) = Hear(v, m)
<1>1. DOMAIN <<m>> = 1 .. 1 /\ <<m>>[1] = m
  OBVIOUS
<1>2. PICK F : Accounts(F, v, <<m>>, 1) /\ F[1] = Heard(v, <<m>>)
  BY <1>1, HearAll
<1> QED
  BY <1>1, <1>2 DEF Accounts

LEMMA HearAccepted ==
  ASSUME NEW v, NEW t, NEW x, NEW live \in BOOLEAN
  PROVE  Hear(v, Accepted(t, x, live)) = IF live THEN Extend(v, t, x) ELSE v
BY DEF Hear, Accepted

LEMMA HearReplaced ==
  ASSUME NEW v, NEW t, NEW old, NEW x, NEW live \in BOOLEAN
  PROVE  Hear(v, Replaced(t, old, x, live)) =
           IF live THEN Extend(Drop(v, old), t, x) ELSE Drop(v, old)
BY DEF Hear, Replaced

LEMMA HearCanceled ==
  ASSUME NEW v, NEW t, NEW x
  PROVE  Hear(v, Canceled(t, x)) = Less(v, t, x)
BY DEF Hear, Canceled

LEMMA HearRejected ==
  ASSUME NEW v, NEW t, NEW why
  PROVE  Hear(v, Rejected(t, why)) = v
BY DEF Hear, Rejected

\* The account tells of orders that rest, and orders have a size.
LEMMA IInvFacts ==
  ASSUME IInv
  PROVE  /\ \A i \in DOMAIN book : book[i].side \in Sides /\ book[i].qty \in Nat \ {0}
         /\ Mirrored(names) /\ DOMAIN names.token = DOMAIN book \ orphans
         /\ Sound(view) /\ \A s \in DOMAIN names.id : Held(view, s) = book[names.id[s]].qty
         /\ \A s \in DOMAIN names.id : names.id[s] \in DOMAIN book \ orphans
         /\ orphans = {} => \A s : s \notin DOMAIN names.id => Held(view, s) = 0
<1>1. /\ Mirrored(names) /\ DOMAIN names.token = DOMAIN book \ orphans
      /\ Sound(view) /\ \A s \in DOMAIN names.id : Held(view, s) = book[names.id[s]].qty
  BY DEF IInv, NamesInv, ViewInv, Tells
<1>2. \A s \in DOMAIN names.id : names.id[s] \in DOMAIN book \ orphans
  BY <1>1 DEF Mirrored
<1>3. orphans = {} => \A s : s \notin DOMAIN names.id => Held(view, s) = 0
  BY DEF IInv, ViewInv, Held
<1>4. \A i \in DOMAIN book : book[i] \in [side : Sides, tick : Int, qty : Nat \ {0}]
  BY GoodIs DEF IInv
<1>5. \A i \in DOMAIN book : book[i].side \in Sides /\ book[i].qty \in Nat \ {0}
  BY <1>4
<1> QED
  BY <1>1, <1>2, <1>3, <1>5

\* A request that is rejected changes nothing.
LEMMA RejectIInv ==
  ASSUME IInv, NEW t, NEW why, Reject(t, why)
  PROVE  IInv'
<1>1. view' = Heard(view, <<Rejected(t, why)>>)
  BY DEF Reject, Publish, Heard
<1>2. view' = view
  BY <1>1, HeardOne, HearRejected
<1>3. /\ book' = book /\ ahead' = ahead /\ names' = names /\ nextId' = nextId
      /\ orphans' = orphans
  BY DEF Reject, engine
<1> QED
  BY <1>2, <1>3 DEF IInv, NamesInv, ViewInv, Tells, Good

\* What follows from a call for the order id, by the names n, that is let in.
LEMMA LetIn ==
  ASSUME IInv, NEW B, NEW n, NEW id, NEW side \in Sides, Calls(B, n, names', id, side),
         verdict' = "None", orphans' = orphans,
         NEW t, t \notin DOMAIN names.id, NEW dropped, Gives(n, t, id, dropped),
         \A s \in DOMAIN n.id \ {t} : s \in DOMAIN names.id /\ n.id[s] = names.id[s],
         \A s : s \in DOMAIN names.id => s \in DOMAIN n.id \/ s \in dropped,
         NEW last, \A w : Sound(w) => Answers(Hear(w, last), w, t, id, dropped),
         view' = Heard(view, Append(Executions(n), last))
  PROVE  ViewInv'
<1>1. /\ DOMAIN fills' \subseteq DOMAIN book
      /\ \A i \in DOMAIN fills' : book[i].side = Opposite(side) /\ fills'[i] \in Nat
  BY DEF Calls, Trades
<1>2. PICK w : /\ Follows(w, n)
               /\ Heard(view, Append(Executions(n), last)) = Hear(w, last)
  <2>1. Opposite(side) \in Sides
    BY DEF Opposite, Sides
  <2>2. Good(book, ahead) /\ Sound(view) /\ Mirrored(n)
    BY IInvFacts DEF IInv, Calls
  <2> QED
    BY <1>1, <2>1, <2>2, ExecutionsSettle
<1>3. Answers(view', w, t, id, dropped)
  BY <1>2 DEF Follows
<1>4. TellsOthers(n, B, t)
  <2> SUFFICES ASSUME NEW s \in DOMAIN n.id \ {t}
               PROVE  Held(view, s) = B[n.id[s]].qty
    BY DEF TellsOthers
  <2>1. s \in DOMAIN names.id /\ n.id[s] = names.id[s] /\ Held(view, s) = book[n.id[s]].qty
    BY IInvFacts
  <2>2. n.id[s] \in DOMAIN n.token /\ n.id[s] # id
    BY DEF Calls, Mirrored, Gives
  <2> QED
    BY <2>1, <2>2 DEF Calls
<1>5. /\ Tells(view', names', book')
      /\ NoOthers(n, t, dropped) => DOMAIN view' \subseteq DOMAIN names'.id
  BY <1>2, <1>3, <1>4, ViewFollows
<1>6. ASSUME orphans = {}
      PROVE  NoOthers(n, t, dropped)
  <2> SUFFICES ASSUME NEW s, s \notin dropped, s \in DOMAIN n.id => s = t
               PROVE  Held(view, s) = 0
    BY DEF NoOthers
  <2>1. s \notin DOMAIN names.id
    BY DEF Gives
  <2> QED
    BY <1>6, <2>1, IInvFacts
<1> QED
  BY <1>5, <1>6 DEF ViewInv

\* What follows for the account from a call that is refused.
LEMMA TurnedDown ==
  ASSUME IInv, view' = view,
         \A s \in DOMAIN names'.id : /\ s \in DOMAIN names.id /\ names'.id[s] = names.id[s]
                                     /\ book'[names.id[s]] = book[names.id[s]],
         orphans' = {} => orphans = {} /\ DOMAIN names.id \subseteq DOMAIN names'.id
  PROVE  ViewInv'
<1>1. Sound(view') /\ \A s \in DOMAIN names'.id : Held(view', s) = book'[names'.id[s]].qty
  BY IInvFacts
<1>2. orphans' = {} => DOMAIN view' \subseteq DOMAIN names'.id
  BY DEF IInv, ViewInv
<1> QED
  BY <1>1, <1>2 DEF ViewInv, Tells

\* A new number has not been used.
LEMMA NumberIsNew ==
  ASSUME IInv
  PROVE  /\ nextId + 1 \in Nat /\ nextId + 1 \notin DOMAIN book /\ nextId + 1 \notin orphans
         /\ nextId + 1 \notin DOMAIN names.token /\ 1 .. nextId \subseteq 1 .. nextId + 1
         /\ nextId + 1 \in 1 .. nextId + 1
<1>1. nextId \in Nat /\ DOMAIN book \subseteq 1 .. nextId /\ orphans \subseteq 1 .. nextId
  BY DEF IInv, NamesInv
<1>2. nextId + 1 \notin DOMAIN book
  BY <1>1
<1> QED
  BY <1>1, <1>2, IInvFacts

\* One lemma for each handler.
LEMMA EnterIInv ==
  ASSUME IInv, NEW t \in Tokens, NEW side \in Sides, NEW shares \in Sizes, NEW price \in Prices,
         NEW symbol \in BOOLEAN, NEW tif, Enter(t, side, shares, price, symbol, tif)
  PROVE  IInv'
<1> DEFINE id == nextId + 1
           n == Remember(names, id, t)
           tick == ToTick(price)
           answer == Answer(id, t, shares)
<1>1. CASE \E why : Reject(t, why)
  BY <1>1, RejectIInv
<1>2. CASE /\ EnterVerdict(t, shares, price, symbol) = "None" /\ nextId < MaxId
           /\ nextId' = id
           /\ Book!AddLimitTo(book, ahead, id, side, tick, shares, tif)
           /\ names' = IF verdict' = "None" /\ LiveNow(id) THEN AfterTrades(n)
                       ELSE Forget(AfterTrades(n), {id})
           /\ Publish(IF verdict' = "None" THEN Append(Executions(n), answer)
                                           ELSE <<Rejected(t, "BadPrice")>>)
           /\ UNCHANGED orphans
  <2>1. /\ shares \in Nat /\ tick \in Int /\ nextId \in Nat /\ id \in Nat /\ id \in AnyId
        /\ Good(book, ahead)
    <3>1. shares \in Nat /\ tick \in Int
      BY GatewayAssumption DEF ToTick
    <3>2. nextId \in Nat /\ id \in Nat /\ Good(book, ahead)
      BY DEF IInv
    <3>3. id \in AnyId
      BY <1>2, <3>2, GatewayAssumption DEF AnyId
    <3> QED
      BY <3>1, <3>2, <3>3
  <2>2. /\ id \notin DOMAIN book /\ id \notin orphans /\ id \notin DOMAIN names.token
        /\ 1 .. nextId \subseteq 1 .. id /\ id \in 1 .. id
    BY NumberIsNew
  <2>3. t \notin DOMAIN names.id
    BY <1>2 DEF EnterVerdict, Known
  <2> HIDE DEF id, tick
  <2>4. /\ Trades(book, id, side) /\ Good(book', ahead')
        /\ verdict' # "None" => book' = book /\ DOMAIN fills' = {}
    BY <1>2, <2>1, <2>2, AddLimitIs, AddKeepsGood
  <2>5. /\ Mirrored(n) /\ DOMAIN n.token = DOMAIN names.token \union {id}
        /\ DOMAIN n.id = DOMAIN names.id \union {t}
        /\ n.id[t] = id /\ \A s \in DOMAIN names.id : n.id[s] = names.id[s]
    BY <2>2, <2>3, IInvFacts, RememberIs
  <2> HIDE DEF n
  <2>6. Calls(book, n, names', id, side)
    BY <1>2, <2>2, <2>4, <2>5, IInvFacts DEF Calls
  <2>7. /\ Mirrored(names') /\ DOMAIN names'.token = DOMAIN book' \ orphans
        /\ Loses(names', n, Lost(id))
    BY <2>6, NamesFollow
  <2>8. NamesInv' /\ DOMAIN book' \subseteq 1 .. nextId'
    <3>1. DOMAIN book' \subseteq DOMAIN book \union {id}
      BY <2>4 DEF Trades, Kept
    <3> QED
      BY <1>2, <2>2, <2>7, <3>1 DEF NamesInv, IInv
  <2>9. CASE verdict' = "None"
    <3>1. view' = Heard(view, Append(Executions(n), answer))
      BY <1>2, <2>9 DEF Publish, Heard
    <3>2. ASSUME NEW w, Sound(w)
          PROVE  Answers(Hear(w, answer), w, t, id, {})
      <4>1. Hear(w, answer) = IF LiveNow(id) THEN Extend(w, t, LeftOf(id)) ELSE w
        <5>1. LiveNow(id) \in BOOLEAN
          BY DEF LiveNow
        <5> QED
          BY <5>1, HearAccepted DEF Answer
      <4>2. LiveNow(id) => LeftOf(id) = book'[id].qty /\ LeftOf(id) \in Nat \ {0}
        <5>1. LiveNow(id) => book'[id] \in [side : Sides, tick : Int, qty : Nat \ {0}]
          BY <2>4, GoodIs DEF LiveNow
        <5> QED
          BY <5>1 DEF LiveNow, LeftOf
      <4> QED
        BY <3>2, <4>1, <4>2, ExtendIs DEF Answers
    <3>3. Gives(n, t, id, {})
      BY <2>5 DEF Gives
    <3>4. /\ \A s \in DOMAIN n.id \ {t} : s \in DOMAIN names.id /\ n.id[s] = names.id[s]
          /\ \A s : s \in DOMAIN names.id => s \in DOMAIN n.id \/ s \in {}
      BY <2>5
    <3>5. ViewInv'
      <4> HIDE DEF answer
      <4> QED
        BY <1>2, <2>3, <2>6, <2>9, <3>1, <3>2, <3>3, <3>4, LetIn
    <3> QED
      BY <1>2, <2>1, <2>4, <2>8, <3>5 DEF IInv
  <2>10. CASE verdict' # "None"
    <3>1. view' = view
      <4>1. view' = Heard(view, <<Rejected(t, "BadPrice")>>)
        BY <1>2, <2>10 DEF Publish, Heard
      <4> QED
        BY <4>1, HeardOne, HearRejected
    <3>2. Lost(id) = {id}
      BY <2>4, <2>10 DEF Lost, Stays, Gone
    <3>3. /\ \A s : s \in DOMAIN names'.id <=> s \in DOMAIN n.id /\ n.id[s] # id
          /\ \A s \in DOMAIN names'.id : names'.id[s] = n.id[s]
      BY <2>7, <3>2 DEF Loses
    <3>4. \A s \in DOMAIN names.id : names.id[s] # id
      BY <2>2, IInvFacts
    <3>5. ViewInv'
      BY <1>2, <2>4, <2>5, <2>10, <3>1, <3>3, <3>4, TurnedDown
    <3> QED
      BY <1>2, <2>1, <2>4, <2>8, <3>5 DEF IInv
  <2> QED
    BY <2>9, <2>10
<1> QED
  BY <1>1, <1>2 DEF Enter, Book!AddLimit

LEMMA CancelIInv ==
  ASSUME IInv, NEW t \in Tokens, Cancel(t)
  PROVE  IInv'
<1> DEFINE id == names.id[t]
<1>1. CASE ~Known(t) /\ Reject(t, "UnknownToken")
  BY <1>1, RejectIInv
<1>2. CASE /\ Known(t)
           /\ Book!Cancel(id)
           /\ IF verdict' = "None"
                THEN names' = Forget(names, {id}) /\ Publish(<<Canceled(t, book[id].qty)>>)
                ELSE names' = names /\ Publish(<<Rejected(t, "UnknownToken")>>)
           /\ UNCHANGED <<nextId, orphans>>
  <2>1. t \in DOMAIN names.id /\ id \in DOMAIN book /\ id \notin orphans
    BY <1>2, IInvFacts DEF Known
  <2>2. /\ book' = Book!Without(book, id) /\ ahead' = Book!QueueWithout(ahead, book, id)
        /\ verdict' = "None"
    BY <1>2, <2>1 DEF Book!Cancel, Book!Resting, Book!Pull
  <2>3. names' = Forget(names, {id}) /\ nextId' = nextId /\ orphans' = orphans
    BY <1>2, <2>2
  <2>4. Good(book', ahead')
    BY <2>2, WithoutKeepsGood DEF IInv
  <2>5. DOMAIN book' = DOMAIN book \ {id} /\ \A i \in DOMAIN book' : book'[i] = book[i]
    BY <2>2 DEF Book!Without, Book!Only
  <2>6. Loses(names', names, {id})
    BY <2>3, ForgetIs, IInvFacts
  <2>7. NamesInv'
    BY <2>3, <2>5, <2>6 DEF IInv, NamesInv, Loses
  <2>8. book[id].qty \in Nat /\ Held(view, t) = book[id].qty /\ Sound(view)
    BY <2>1, IInvFacts
  <2>9. view' = Less(view, t, book[id].qty)
    <3>1. view' = Heard(view, <<Canceled(t, book[id].qty)>>)
      BY <1>2, <2>2 DEF Publish, Heard
    <3> QED
      BY <3>1, HeardOne, HearCanceled
  <2>10. Sound(view') /\ Held(view', t) = 0 /\ \A s : s # t => Held(view', s) = Held(view, s)
    BY <2>8, <2>9, LessIs DEF Minus
  <2>11. \A s : s \in DOMAIN names'.id <=> s \in DOMAIN names.id /\ s # t
    <3>1. \A s \in DOMAIN names.id : names.id[s] = id <=> s = t
      BY <2>1, IInvFacts DEF Mirrored
    <3> QED
      BY <2>6, <3>1 DEF Loses
  <2>12. \A s \in DOMAIN names'.id : Held(view', s) = book'[names'.id[s]].qty
    <3> SUFFICES ASSUME NEW s \in DOMAIN names'.id
                 PROVE  Held(view', s) = book'[names'.id[s]].qty
      OBVIOUS
    <3>1. s \in DOMAIN names.id /\ s # t /\ names'.id[s] = names.id[s] /\ names.id[s] # id
      BY <2>6, <2>11 DEF Loses
    <3>2. Held(view, s) = book[names.id[s]].qty /\ names.id[s] \in DOMAIN book
      BY <3>1, IInvFacts
    <3> QED
      BY <2>5, <2>10, <3>1, <3>2
  <2>13. ASSUME orphans = {}
         PROVE  DOMAIN view' \subseteq DOMAIN names'.id
    <3> SUFFICES ASSUME NEW s \in DOMAIN view' PROVE s \in DOMAIN names'.id
      OBVIOUS
    <3>1. Held(view', s) # 0
      BY <2>10, HeldIs
    <3>2. s # t /\ Held(view, s) # 0
      BY <2>10, <3>1
    <3>3. s \in DOMAIN names.id
      BY <2>13, <3>2, IInvFacts
    <3> QED
      BY <2>11, <3>2, <3>3
  <2>14. ViewInv'
    BY <2>3, <2>10, <2>12, <2>13 DEF ViewInv, Tells
  <2> QED
    BY <2>3, <2>4, <2>5, <2>7, <2>14 DEF IInv
<1> QED
  BY <1>1, <1>2 DEF Cancel

LEMMA ReplaceIInv ==
  ASSUME IInv, NEW old \in Tokens, NEW t \in Tokens, NEW shares \in Sizes, NEW price \in Prices,
         Replace(old, t, shares, price)
  PROVE  IInv'
<1> DEFINE oldId == names.id[old]
           id == nextId + 1
           n == Renamed(oldId, id, t)
           tick == ToTick(price)
           answer == Replaced(t, old, LeftOf(id), LiveNow(id))
<1>1. CASE \E s, why : Reject(s, why)
  BY <1>1, RejectIInv
<1>2. CASE /\ Known(old) /\ ~Known(t) /\ nextId < MaxId
           /\ nextId' = id
           /\ Book!Replace(oldId, id, tick, shares)
           /\ names' = IF verdict' = "None" /\ LiveNow(id) THEN AfterTrades(n)
                       ELSE Forget(AfterTrades(n), {id})
           /\ Publish(IF verdict' = "None" THEN Append(Executions(n), answer)
                                           ELSE <<Rejected(t, "BadPrice")>>)
           /\ orphans' = IF verdict' = "None" THEN orphans ELSE orphans \union {oldId}
  <2> DEFINE B == Book!Without(book, oldId)
             A == Book!QueueWithout(ahead, book, oldId)
             side == book[oldId].side
             f == Forget(names, {oldId})
  <2>1. /\ shares \in Nat /\ tick \in Int /\ nextId \in Nat /\ id \in Nat /\ id \in AnyId
        /\ Good(book, ahead) /\ DOMAIN book \subseteq 1 .. nextId
    <3>1. shares \in Nat /\ tick \in Int
      BY GatewayAssumption DEF ToTick
    <3>2. nextId \in Nat /\ id \in Nat /\ Good(book, ahead) /\ DOMAIN book \subseteq 1 .. nextId
      BY DEF IInv
    <3>3. id \in AnyId
      BY <1>2, <3>2, GatewayAssumption DEF AnyId
    <3> QED
      BY <3>1, <3>2, <3>3
  <2>2. /\ id \notin DOMAIN book /\ id \notin orphans /\ id \notin DOMAIN names.token
        /\ 1 .. nextId \subseteq 1 .. id /\ id \in 1 .. id
    BY NumberIsNew
  <2>3. /\ old \in DOMAIN names.id /\ t \notin DOMAIN names.id /\ t # old
        /\ oldId \in DOMAIN book /\ oldId \notin orphans /\ side \in Sides /\ id # oldId
    BY <1>2, <2>2, IInvFacts DEF Known
  <2> HIDE DEF id, tick
  <2>4. /\ DOMAIN B = DOMAIN book \ {oldId} /\ \A i \in DOMAIN B : B[i] = book[i]
        /\ Good(B, A)
    BY <2>1, WithoutKeepsGood DEF Book!Without, Book!Only
  <2>5. Loses(f, names, {oldId})
    BY ForgetIs, IInvFacts
  <2>6. /\ Mirrored(f) /\ DOMAIN f.token = DOMAIN names.token \ {oldId}
        /\ \A s : s \in DOMAIN f.id <=> s \in DOMAIN names.id /\ s # old
        /\ \A s \in DOMAIN f.id : f.id[s] = names.id[s]
    <3>1. \A s \in DOMAIN names.id : names.id[s] = oldId <=> s = old
      BY <2>3, IInvFacts DEF Mirrored
    <3> QED
      BY <2>5, <3>1 DEF Loses
  <2>7. n = Remember(f, id, t)
    BY DEF Renamed
  <2> HIDE DEF n, f
  <2>8. /\ Mirrored(n) /\ DOMAIN n.token = DOMAIN f.token \union {id}
        /\ DOMAIN n.id = DOMAIN f.id \union {t}
        /\ n.id[t] = id /\ \A s \in DOMAIN f.id : n.id[s] = f.id[s]
    BY <2>2, <2>3, <2>6, <2>7, RememberIs
  <2>9. /\ \A s \in DOMAIN n.id : s # t => s \in DOMAIN names.id /\ s # old /\ n.id[s] = names.id[s]
        /\ \A s \in DOMAIN names.id : s # old => s \in DOMAIN n.id
        /\ old \notin DOMAIN n.id
        /\ DOMAIN n.token = (DOMAIN B \ orphans) \union {id}
    <3>1. DOMAIN f.token = DOMAIN B \ orphans
      BY <2>4, <2>6, IInvFacts
    <3> QED
      BY <2>3, <2>6, <2>8, <3>1
  <2> HIDE DEF B, A, side
  <2>10. nextId' \in Nat /\ DOMAIN book \subseteq 1 .. nextId' /\ orphans' \subseteq 1 .. nextId'
    <3>1. orphans \subseteq 1 .. nextId /\ oldId \in 1 .. nextId
      BY <2>1, <2>3 DEF IInv, NamesInv
    <3> QED
      BY <1>2, <2>1, <2>2, <3>1
  <2>11. CASE verdict' = "None"
    <3>1. Book!AddLimitTo(B, A, id, side, tick, shares, "Gtc")
      <4>1. \/ \E v : v # "None" /\ Book!Refuse(v)
            \/ Book!Reenter(oldId, id, tick, shares)
        BY <1>2 DEF Book!Replace
      <4> QED
        BY <2>11, <4>1 DEF Book!Refuse, Book!Reenter, B, A, side
    <3>2. /\ Trades(B, id, side) /\ Good(book', ahead')
      <4>1. Good(B, A) /\ shares \in Int /\ id \notin DOMAIN B
        BY <2>1, <2>2, <2>4
      <4>2. Trades(B, id, side)
        BY <2>1, <2>3, <3>1, <4>1, AddLimitIs
      <4> QED
        BY <2>1, <2>3, <3>1, <4>1, <4>2, AddKeepsGood
    <3>3. \A i \in DOMAIN B : i \in DOMAIN book /\ B[i] = book[i] /\ B[i].qty \in Nat \ {0}
      BY <2>4, IInvFacts
    <3>4. Calls(B, n, names', id, side)
      BY <1>2, <2>2, <2>4, <2>8, <2>9, <2>11, <3>2, <3>3 DEF Calls
    <3>5. Mirrored(names') /\ DOMAIN names'.token = DOMAIN book' \ orphans
      BY <3>4, NamesFollow
    <3>6. NamesInv' /\ DOMAIN book' \subseteq 1 .. nextId'
      <4>1. DOMAIN book' \subseteq DOMAIN B \union {id}
        BY <3>2 DEF Trades, Kept
      <4> QED
        BY <1>2, <2>2, <2>4, <2>10, <2>11, <3>5, <4>1 DEF NamesInv
    <3>7. view' = Heard(view, Append(Executions(n), answer))
      BY <1>2, <2>11 DEF Publish, Heard
    <3>8. ASSUME NEW w, Sound(w)
          PROVE  Answers(Hear(w, answer), w, t, id, {old})
      <4>1. Hear(w, answer) = IF LiveNow(id) THEN Extend(Drop(w, old), t, LeftOf(id))
                                             ELSE Drop(w, old)
        <5>1. LiveNow(id) \in BOOLEAN
          BY DEF LiveNow
        <5> QED
          BY <5>1, HearReplaced
      <4>2. LiveNow(id) => LeftOf(id) = book'[id].qty /\ LeftOf(id) \in Nat \ {0}
        <5>1. LiveNow(id) => book'[id] \in [side : Sides, tick : Int, qty : Nat \ {0}]
          BY <3>2, GoodIs DEF LiveNow
        <5> QED
          BY <5>1 DEF LiveNow, LeftOf
      <4> DEFINE d == Drop(w, old)
      <4>3. Sound(d) /\ Held(d, old) = 0 /\ \A s : s # old => Held(d, s) = Held(w, s)
        BY <3>8, DropIs
      <4> HIDE DEF d, answer
      <4>4. CASE LiveNow(id)
        <5>1. Hear(w, answer) = Extend(d, t, LeftOf(id))
          BY <4>1, <4>4 DEF d
        <5> DEFINE u == Hear(w, answer)
        <5>2. /\ Sound(u) /\ Held(u, t) = LeftOf(id)
              /\ \A s : s # t => Held(u, s) = Held(d, s)
          BY <4>2, <4>3, <4>4, <5>1, ExtendIs
        <5> HIDE DEF u
        <5>3. Answers(u, w, t, id, {old})
          BY <2>3, <4>2, <4>3, <4>4, <5>2 DEF Answers
        <5> QED
          BY <5>3 DEF u
      <4>5. CASE ~LiveNow(id)
        BY <2>3, <4>1, <4>3, <4>5 DEF Answers, d
      <4> QED
        BY <4>4, <4>5
    <3>9. Gives(n, t, id, {old})
      BY <2>8, <2>9 DEF Gives
    <3>10. /\ \A s \in DOMAIN n.id \ {t} : s \in DOMAIN names.id /\ n.id[s] = names.id[s]
           /\ \A s : s \in DOMAIN names.id => s \in DOMAIN n.id \/ s \in {old}
      BY <2>9
    <3>11. ViewInv'
      <4> HIDE DEF answer
      <4> QED
        BY <1>2, <2>3, <2>11, <3>4, <3>7, <3>8, <3>9, <3>10, LetIn
    <3> QED
      BY <2>10, <3>2, <3>6, <3>11 DEF IInv
  <2>12. CASE verdict' # "None"
    <3>1. DOMAIN fills' = {} /\ Good(book', ahead') /\ (book' = book \/ book' = B)
      <4>1. \/ \E v : v # "None" /\ Book!Refuse(v)
            \/ Book!AddLimitTo(B, A, id, side, tick, shares, "Gtc")
        BY <1>2 DEF Book!Replace, Book!Reenter, B, A, side
      <4>2. CASE \E v : v # "None" /\ Book!Refuse(v)
        BY <2>1, <4>2 DEF Book!Refuse, Book!NoFills
      <4>3. CASE Book!AddLimitTo(B, A, id, side, tick, shares, "Gtc")
        BY <2>4, <2>12, <4>3 DEF Book!AddLimitTo, Book!NoFills
      <4> QED
        BY <4>1, <4>2, <4>3
    <3>2. view' = view
      <4>1. view' = Heard(view, <<Rejected(t, "BadPrice")>>)
        BY <1>2, <2>12 DEF Publish, Heard
      <4> QED
        BY <4>1, HeardOne, HearRejected
    <3>3. Loses(names', n, {id})
      <4>1. Lost(id) = {id}
        BY <2>12, <3>1 DEF Lost, Stays, Gone
      <4>2. Loses(names', n, Lost(id))
        BY <1>2, <2>8, <3>1, NamesAfter
      <4> QED
        BY <4>1, <4>2
    <3>4. \A s \in DOMAIN names'.id :
            /\ s \in DOMAIN names.id /\ names'.id[s] = names.id[s]
            /\ book'[names.id[s]] = book[names.id[s]]
      <4> SUFFICES ASSUME NEW s \in DOMAIN names'.id
                   PROVE  /\ s \in DOMAIN names.id /\ names'.id[s] = names.id[s]
                          /\ book'[names.id[s]] = book[names.id[s]]
        OBVIOUS
      <4>1. s \in DOMAIN n.id /\ n.id[s] # id /\ names'.id[s] = n.id[s]
        BY <3>3 DEF Loses
      <4>2. s \in DOMAIN names.id /\ s # old /\ n.id[s] = names.id[s]
        BY <2>8, <2>9, <4>1
      <4>3. names.id[s] \in DOMAIN B
        BY <2>3, <2>4, <4>2, IInvFacts DEF Mirrored
      <4> QED
        BY <2>4, <3>1, <4>1, <4>2, <4>3
    <3>5. orphans' = orphans \union {oldId}
      BY <1>2, <2>12
    <3>6. DOMAIN names'.token = DOMAIN book' \ orphans'
      BY <2>2, <2>4, <2>9, <3>1, <3>3, <3>5 DEF Loses
    <3>7. ViewInv'
      BY <3>2, <3>4, <3>5, TurnedDown
    <3>8. NamesInv'
      BY <2>10, <3>3, <3>6 DEF NamesInv, Loses
    <3>9. DOMAIN book' \subseteq 1 .. nextId'
      BY <2>4, <2>10, <3>1
    <3> QED
      BY <2>10, <3>1, <3>7, <3>8, <3>9 DEF IInv
  <2> QED
    BY <2>11, <2>12
<1> QED
  BY <1>1, <1>2 DEF Replace

-----------------------------------------------------------------------------
(***************************************************************************)
(* The theorems.                                                            *)
(***************************************************************************)

LEMMA InitIInv == Init => IInv
<1> SUFFICES ASSUME Init PROVE IInv
  OBVIOUS
<1>1. /\ DOMAIN book = {} /\ DOMAIN names.token = {} /\ DOMAIN names.id = {} /\ orphans = {}
      /\ names = [id |-> names.id, token |-> names.token] /\ DOMAIN view = {} /\ nextId = 0
  BY DEF Init, Book!Init, NoNames
<1>2. Good(book, ahead)
  BY NobodyIsGood DEF Init
<1>3. NamesInv
  BY <1>1 DEF NamesInv, Mirrored
<1>4. ViewInv
  BY <1>1 DEF ViewInv, Tells, Sound
<1> QED
  BY <1>1, <1>2, <1>3, <1>4 DEF IInv

LEMMA NextIInv == IInv /\ [Next]_vars => IInv'
<1> SUFFICES ASSUME IInv, [Next]_vars PROVE IInv'
  OBVIOUS
<1>1. CASE Next
  BY <1>1, EnterIInv, CancelIInv, ReplaceIInv DEF Next
<1>2. CASE UNCHANGED vars
  BY <1>2 DEF vars, engine, IInv, NamesInv, ViewInv, Tells, Good
<1> QED
  BY <1>1, <1>2

\* The book keeps its promises under the gateway, its numbers are those given
\* out, the maps name the orders that rest and the account tells of them.
THEOREM GatewayInvariant == Spec => []IInv
BY InitIInv, NextIInv, PTL DEF Spec

\* Between handlers token_to_id_ and id_to_token_ are each other's inverse and
\* name the orders that rest (Gateway::remember, forget, on_trade).
THEOREM GatewayNamesAreLive == Spec => []NamesAreLive
<1>1. IInv => NamesAreLive
  BY DEF IInv, NamesInv, Mirrored, NamesAreLive
<1> QED
  BY <1>1, GatewayInvariant, PTL

\* Whoever follows the messages published knows each named order that rests and
\* how much is left of it, and, while no replacement was refused, of no other
\* (Gateway::enter, cancel, replace, on_trade).
THEOREM GatewayClientKnows == Spec => []ClientKnows
<1>1. IInv => ClientKnows
  <2> SUFFICES ASSUME IInv PROVE ClientKnows
    OBVIOUS
  <2>1. ASSUME NEW s \in DOMAIN names.id
        PROVE  s \in DOMAIN view /\ view[s] = book[names.id[s]].qty
    <3>1. Held(view, s) = book[names.id[s]].qty /\ names.id[s] \in DOMAIN book
      BY IInvFacts
    <3>2. Held(view, s) # 0
      BY <3>1, IInvFacts
    <3> QED
      BY <3>1, <3>2 DEF Held
  <2>2. orphans = {} => DOMAIN view = DOMAIN names.id
    BY <2>1 DEF IInv, ViewInv
  <2> QED
    BY <2>1, <2>2 DEF ClientKnows
<1> QED
  BY <1>1, GatewayInvariant, PTL
=============================================================================
