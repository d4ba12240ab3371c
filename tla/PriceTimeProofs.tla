-------------------------- MODULE PriceTimeProofs --------------------------
(***************************************************************************)
(* The promises of the abstract book, for any ids, prices, quantities and    *)
(* pool size.                                                               *)
(*                                                                          *)
(* The four invariants are proved together: they are all facts about one     *)
(* pair of a book value B and a queue relation A (GoodBook), and every        *)
(* operation builds its result from a good pair by leaving orders out, by    *)
(* shrinking one, by filling some and by putting one at the back of its      *)
(* level.  One lemma for each of these, then one step for each command.      *)
(***************************************************************************)
EXTENDS PriceTime, FiniteSetTheorems, TLAPS

\* The parts of the invariant, of a book value and a queue relation.
Relates(A, S) == A \subseteq S \X S

BookTyped(B, A) ==
  /\ DOMAIN B \subseteq Ids
  /\ B \in [DOMAIN B -> Order]
  /\ Relates(A, DOMAIN B)

NotCrossed(B) ==
  \A i, j \in DOMAIN B : B[i].side = "Buy" /\ B[j].side = "Sell" => B[i].tick < B[j].tick

Ordered(B, A) ==
  /\ \A i \in DOMAIN B : <<i, i>> \notin A
  /\ \A i, j \in DOMAIN B : <<i, j>> \in A => SameLevel(B, i, j)
  /\ \A i, j \in DOMAIN B :
       i # j /\ SameLevel(B, i, j) => (<<i, j>> \in A <=> <<j, i>> \notin A)
  /\ \A i, j, k \in DOMAIN B : <<i, j>> \in A /\ <<j, k>> \in A => <<i, k>> \in A

InPool(B) == IsFiniteSet(DOMAIN B) /\ Cardinality(DOMAIN B) <= PoolSize

GoodBook(B, A) == BookTyped(B, A) /\ NotCrossed(B) /\ Ordered(B, A) /\ InPool(B)

\* The inductive invariant: a good book, and the last command and its verdict
\* are what they can be.
IInv ==
  /\ GoodBook(book, ahead)
  /\ cmd \in Commands \union {ClearCall}
  /\ verdict \in Verdicts

\* The invariant is the four promises.
LEMMA IInvIsPromises == IInv <=> TypeOK /\ Uncrossed /\ QueueIsOrder /\ WithinPool
<1>1. NotCrossed(book) <=> Uncrossed
  BY DEF NotCrossed, Uncrossed, Resting
<1>2. Ordered(book, ahead) <=> QueueIsOrder
  BY DEF Ordered, QueueIsOrder, Resting
<1>3. InPool(book) <=> WithinPool
  BY DEF InPool, WithinPool, Resting
<1>4. BookTyped(book, ahead) <=> /\ Resting \subseteq Ids
                                 /\ book \in [Resting -> Order]
                                 /\ Relates(ahead, Resting)
  BY DEF BookTyped, Resting
<1>5. Relates(ahead, Resting) <=> ahead \subseteq Resting \X Resting
  BY DEF Relates
<1> QED
  BY <1>1, <1>2, <1>3, <1>4, <1>5 DEF IInv, GoodBook, TypeOK

-----------------------------------------------------------------------------
(***************************************************************************)
(* What the operations are built from.                                      *)
(***************************************************************************)

\* A queue relation restricted to some of its orders relates those.
LEMMA QueueOnlyType ==
  ASSUME NEW S, NEW A, Relates(A, S), NEW X \in SUBSET S
  PROVE  Relates(QueueOnly(A, X), X)
BY DEF QueueOnly, Relates

\* The empty book is good.
LEMMA EmptyIsGood ==
  ASSUME NEW B, B = [i \in {} |-> 0]
  PROVE  GoodBook(B, {})
<1>1. DOMAIN B = {} /\ B \in [{} -> Order]
  OBVIOUS
<1>2. InPool(B)
  BY <1>1, FS_EmptySet, BookAssumption DEF InPool
<1> QED
  BY <1>1, <1>2 DEF GoodBook, BookTyped, NotCrossed, Ordered, Relates

\* Leaving orders out of a good book leaves a good book, with no more orders.
LEMMA OnlyIsGood ==
  ASSUME NEW B, NEW A, GoodBook(B, A), NEW X \in SUBSET DOMAIN B
  PROVE  /\ GoodBook(Only(B, X), QueueOnly(A, X))
         /\ DOMAIN Only(B, X) = X
         /\ Cardinality(X) <= Cardinality(DOMAIN B)
<1> DEFINE R == Only(B, X)
           Q == QueueOnly(A, X)
<1> USE DEF GoodBook, BookTyped
<1>1. DOMAIN R = X /\ \A i \in X : R[i] = B[i]
  BY DEF Only
<1>2. \A i, j \in X : <<i, j>> \in Q <=> <<i, j>> \in A
  BY DEF QueueOnly
<1>3. IsFiniteSet(X) /\ Cardinality(X) <= Cardinality(DOMAIN B)
  BY FS_Subset DEF InPool
<1>4. InPool(R)
  <2>1. Cardinality(X) \in Nat /\ Cardinality(DOMAIN B) \in Nat
    BY <1>3, FS_CardinalityType DEF InPool
  <2> QED
    BY <1>1, <1>3, <2>1, BookAssumption DEF InPool
<1>5. BookTyped(R, Q)
  <2>1. R \in [X -> Order]
    BY <1>1 DEF Only
  <2>2. Relates(Q, X)
    BY QueueOnlyType
  <2> HIDE DEF R, Q
  <2> QED
    BY <1>1, <2>1, <2>2
<1>6. NotCrossed(R)
  BY <1>1 DEF NotCrossed
<1>7. Ordered(R, Q)
  BY <1>1, <1>2 DEF Ordered, SameLevel
<1> HIDE DEF BookTyped
<1> QED
  BY <1>1, <1>3, <1>4, <1>5, <1>6, <1>7

\* A book that differs from a good one in sizes alone is good.
LEMMA ResizedIsGood ==
  ASSUME NEW B, NEW A, GoodBook(B, A),
         NEW R \in [DOMAIN B -> Order],
         \A i \in DOMAIN B : R[i].side = B[i].side /\ R[i].tick = B[i].tick
  PROVE  GoodBook(R, A)
<1> USE DEF GoodBook, BookTyped
<1>1. DOMAIN R = DOMAIN B
  OBVIOUS
<1>2. NotCrossed(R)
  BY <1>1 DEF NotCrossed
<1>3. Ordered(R, A)
  BY <1>1 DEF Ordered, SameLevel
<1>4. InPool(R)
  BY <1>1 DEF InPool
<1>5. BookTyped(R, A)
  BY <1>1
<1> HIDE DEF BookTyped
<1> QED
  BY <1>2, <1>3, <1>4, <1>5

\* The fills of a taker: a share for each order it reaches, no more than the
\* order has.
IsFill(B, f) ==
  /\ DOMAIN f \subseteq DOMAIN B
  /\ \A i \in DOMAIN f : f[i] \in Nat /\ f[i] <= B[i].qty

\* Filling orders, and dropping those filled in full, leaves a good book.
LEMMA FilledIsGood ==
  ASSUME NEW B, NEW A, GoodBook(B, A), NEW f, IsFill(B, f)
  PROVE  LET left == AfterFills(B, f) IN
         /\ GoodBook(left, QueueOnly(A, DOMAIN left))
         /\ DOMAIN left = Survivors(B, f)
         /\ DOMAIN left \subseteq DOMAIN B
         /\ Cardinality(DOMAIN left) <= Cardinality(DOMAIN B)
         /\ \A i \in DOMAIN left : left[i].side = B[i].side /\ left[i].tick = B[i].tick
<1> DEFINE left == AfterFills(B, f)
           S == Survivors(B, f)
<1>1. S \in SUBSET DOMAIN B
  BY DEF Survivors
<1>2. DOMAIN left = S
  BY DEF AfterFills
<1>3. /\ GoodBook(Only(B, S), QueueOnly(A, S))
      /\ DOMAIN Only(B, S) = S
      /\ Cardinality(S) <= Cardinality(DOMAIN B)
  BY <1>1, OnlyIsGood
<1>4. \A i \in S : Only(B, S)[i] = B[i] /\ B[i] \in Order
  BY <1>1 DEF Only, GoodBook, BookTyped
<1>5. ASSUME NEW i \in S
      PROVE  left[i] \in Order /\ left[i].side = B[i].side /\ left[i].tick = B[i].tick
  <2>1. CASE i \in DOMAIN f
    <3>1. left[i] = [B[i] EXCEPT !.qty = B[i].qty - f[i]]
      BY <2>1 DEF AfterFills
    <3>2. B[i].qty - f[i] \in Quantities
      <4>1. f[i] \in Nat /\ f[i] < B[i].qty
        BY <2>1 DEF IsFill, Survivors
      <4>2. B[i].qty \in Nat
        BY <1>4 DEF Order, Quantities
      <4> QED
        BY <4>1, <4>2 DEF Quantities
    <3> QED
      BY <1>4, <3>1, <3>2 DEF Order
  <2>2. CASE i \notin DOMAIN f
    BY <1>4, <2>2 DEF AfterFills
  <2> QED
    BY <2>1, <2>2
<1>6. left \in [S -> Order]
  BY <1>2, <1>5 DEF AfterFills
<1>7. \A i \in S : /\ left[i].side = Only(B, S)[i].side
                   /\ left[i].tick = Only(B, S)[i].tick
  BY <1>4, <1>5
<1> HIDE DEF left, S
<1>8. GoodBook(left, QueueOnly(A, S))
  BY <1>3, <1>6, <1>7, ResizedIsGood
<1> QED
  BY <1>1, <1>2, <1>3, <1>5, <1>8 DEF left, S

\* Shrinking an order leaves a good book.
LEMMA ShrunkIsGood ==
  ASSUME NEW B, NEW A, GoodBook(B, A), NEW id \in DOMAIN B, NEW q \in Quantities
  PROVE  GoodBook([B EXCEPT ![id].qty = q], A)
<1> DEFINE R == [B EXCEPT ![id].qty = q]
<1>1. B \in [DOMAIN B -> Order]
  BY DEF GoodBook, BookTyped
<1>2. \A i \in DOMAIN B : R[i] = IF i = id THEN [B[id] EXCEPT !.qty = q] ELSE B[i]
  BY <1>1
<1>3. [B[id] EXCEPT !.qty = q] \in Order
  BY <1>1 DEF Order
<1>4. R \in [DOMAIN B -> Order]
  BY <1>1, <1>2, <1>3
<1>5. \A i \in DOMAIN B : R[i].side = B[i].side /\ R[i].tick = B[i].tick
  BY <1>1, <1>2 DEF Order
<1> HIDE DEF R
<1>6. GoodBook(R, A)
  BY <1>4, <1>5, ResizedIsGood
<1> QED
  BY <1>6 DEF R

\* No resting order of the other side is within reach of o.
NothingInReach(B, o) ==
  \A i \in DOMAIN B : B[i].side = Opposite(o.side) => ~Reaches(o.side, o.tick, B[i].tick)

\* A fresh order that finds a slot, and nothing to trade with, joins the back
\* of its level and leaves a good book.
LEMMA JoinedIsGood ==
  ASSUME NEW B, NEW A, GoodBook(B, A), NEW id \in Ids, id \notin DOMAIN B,
         NEW o \in Order, NothingInReach(B, o), Cardinality(DOMAIN B) < PoolSize
  PROVE  GoodBook(WithOrder(B, id, o), QueueBehind(B, A, id, o))
<1> DEFINE R == WithOrder(B, id, o)
           Q == QueueBehind(B, A, id, o)
           D == DOMAIN B
<1>0. B \in [D -> Order] /\ D \subseteq Ids /\ Relates(A, D)
  BY DEF GoodBook, BookTyped
<1>1. /\ DOMAIN R = D \union {id}
      /\ R[id] = o
      /\ \A i \in D : R[i] = B[i]
  BY DEF WithOrder
<1>2. R \in [D \union {id} -> Order]
  BY <1>0 DEF WithOrder
<1>3. Relates(Q, D \union {id})
  <2>1. A \subseteq (D \union {id}) \X (D \union {id})
    BY <1>0 DEF Relates
  <2>2. \A i \in D : <<i, id>> \in (D \union {id}) \X (D \union {id})
    OBVIOUS
  <2> QED
    BY <2>1, <2>2 DEF Relates, QueueBehind
<1>4. /\ \A i, j \in D : <<i, j>> \in Q <=> <<i, j>> \in A
      /\ \A i \in D : <<i, id>> \in Q <=> B[i].side = o.side /\ B[i].tick = o.tick
      /\ \A i \in D \union {id} : <<id, i>> \notin Q
  <2>1. \A i \in D \union {id} : <<i, id>> \notin A /\ <<id, i>> \notin A
    BY <1>0 DEF Relates
  <2> QED
    BY <2>1 DEF QueueBehind
<1>5. BookTyped(R, Q)
  <2> HIDE DEF R, Q
  <2> QED
    BY <1>0, <1>1, <1>2, <1>3 DEF BookTyped
<1>6. InPool(R)
  <2>1. IsFiniteSet(D) /\ Cardinality(D) \in Nat
    BY FS_CardinalityType DEF GoodBook, InPool
  <2>2. IsFiniteSet(D \union {id}) /\ Cardinality(D \union {id}) = Cardinality(D) + 1
    BY <2>1, FS_AddElement
  <2> HIDE DEF R
  <2> QED
    BY <1>1, <2>1, <2>2, BookAssumption DEF InPool
<1>7. NotCrossed(R)
  <2>1. NotCrossed(B)
    BY DEF GoodBook
  <2>2. ASSUME NEW i \in D, B[i].side = Opposite(o.side)
        PROVE  IF o.side = "Buy" THEN o.tick < B[i].tick ELSE B[i].tick < o.tick
    BY <1>0, <2>2, BookAssumption DEF NothingInReach, Reaches, Order, Ticks
  <2>3. o.side \in Sides /\ \A i \in D : B[i].side \in Sides
    BY <1>0 DEF Order
  <2> HIDE DEF R
  <2> QED
    BY <1>1, <2>1, <2>2, <2>3 DEF NotCrossed, Opposite, Sides
<1>8. Ordered(R, Q)
  <2>1. Ordered(B, A)
    BY DEF GoodBook
  <2> HIDE DEF R, Q
  <2> QED
    BY <1>1, <1>4, <2>1 DEF Ordered, SameLevel
<1> QED
  BY <1>5, <1>6, <1>7, <1>8 DEF GoodBook

-----------------------------------------------------------------------------
(***************************************************************************)
(* The operations.                                                          *)
(***************************************************************************)

\* The book the operation leaves is good, and its verdict is one.
Fine == GoodBook(book', ahead') /\ verdict' \in Verdicts

\* An order that is let in meets the book and leaves it good: what is left of
\* it rests only when nobody in its reach does.
LEMMA MeetIsGood ==
  ASSUME NEW B, NEW A, GoodBook(B, A),
         NEW id, NEW side \in Sides, NEW tick \in Ticks, NEW qty \in Quantities, NEW tif,
         tif = "Gtc" => /\ id \in Ids \ DOMAIN B
                        /\ Cardinality(DOMAIN B) < PoolSize,
         Meet(B, A, id, side, tick, qty, tif)
  PROVE  GoodBook(book', ahead')
<1> DEFINE E == Eligible(B, side, tick)
<1>0. E \subseteq DOMAIN B /\ \A i \in DOMAIN B : B[i].qty \in Nat
  BY DEF Eligible, GoodBook, BookTyped, Order, Quantities
<1>1. PICK f \in [E -> 0 .. qty] :
        LET left  == AfterFills(B, f)
            queue == QueueOnly(A, DOMAIN left)
            order == [side |-> side, tick |-> tick, qty |-> Remainder(qty, f)]
        IN /\ Filling(B, A, side, tick, qty, f)
           /\ IF Remainder(qty, f) > 0 /\ tif = "Gtc"
                THEN /\ book' = WithOrder(left, id, order)
                     /\ ahead' = QueueBehind(left, queue, id, order)
                ELSE book' = left /\ ahead' = queue
  BY DEF Meet
<1> DEFINE left  == AfterFills(B, f)
           queue == QueueOnly(A, DOMAIN left)
           order == [side |-> side, tick |-> tick, qty |-> Remainder(qty, f)]
<1>2. IsFill(B, f)
  BY <1>0, <1>1 DEF IsFill, Filling, Quantities
<1>3. /\ GoodBook(left, queue)
      /\ DOMAIN left = Survivors(B, f)
      /\ DOMAIN left \subseteq DOMAIN B
      /\ Cardinality(DOMAIN left) <= Cardinality(DOMAIN B)
      /\ \A i \in DOMAIN left : left[i].side = B[i].side /\ left[i].tick = B[i].tick
  BY <1>2, FilledIsGood
<1>4. CASE ~(Remainder(qty, f) > 0 /\ tif = "Gtc")
  BY <1>1, <1>3, <1>4
<1>5. CASE Remainder(qty, f) > 0 /\ tif = "Gtc"
  <2>1. Remainder(qty, f) \in Quantities /\ order \in Order
    BY <1>1, <1>5 DEF Filling, Order, Quantities
  <2>2. ASSUME NEW i \in DOMAIN left, left[i].side = Opposite(side),
               Reaches(side, tick, left[i].tick)
        PROVE  FALSE
    <3>1. i \in E
      BY <1>3, <2>2 DEF Eligible
    <3>2. f[i] = B[i].qty
      BY <1>1, <1>5, <3>1 DEF Filling
    <3>3. f[i] < B[i].qty
      BY <1>3, <3>1 DEF Survivors
    <3> QED
      BY <1>0, <3>1, <3>2, <3>3
  <2>3. NothingInReach(left, order)
    BY <2>2 DEF NothingInReach
  <2>4. id \in Ids /\ id \notin DOMAIN left
    BY <1>3, <1>5
  <2>5. Cardinality(DOMAIN left) < PoolSize
    <3>1. Cardinality(DOMAIN left) \in Nat /\ Cardinality(DOMAIN B) \in Nat
      BY <1>3, FS_CardinalityType DEF GoodBook, InPool
    <3> QED
      BY <1>3, <1>5, <3>1, BookAssumption
  <2> HIDE DEF left, queue, order
  <2>6. GoodBook(WithOrder(left, id, order), QueueBehind(left, queue, id, order))
    BY <1>3, <2>1, <2>3, <2>4, <2>5, JoinedIsGood
  <2> QED
    BY <1>1, <1>5, <2>6 DEF left, queue, order
<1> QED
  BY <1>4, <1>5

\* Every verdict of the checks is one the engine knows.
LEMMA VerdictTypes ==
  /\ \A B, A, id, side, tick, qty, tif : LimitVerdict(B, A, id, side, tick, qty, tif) \in Verdicts
  /\ \A id, tick, qty : ResizeVerdict(id, tick, qty) \in Verdicts
  /\ \A id, shares : SharesVerdict(id, shares) \in Verdicts
BY DEF LimitVerdict, ResizeVerdict, SharesVerdict, Verdicts, Rejects

\* A limit order leaves the book it meets good, whether it is let in or not.
LEMMA AddLimitIsFine ==
  ASSUME NEW B, NEW A, GoodBook(B, A),
         NEW id \in AnyId, NEW side \in Sides, NEW tick \in Int, NEW qty \in Int, NEW tif,
         AddLimitTo(B, A, id, side, tick, qty, tif)
  PROVE  Fine
<1>1. verdict' \in Verdicts
  BY VerdictTypes DEF AddLimitTo
<1>2. CASE verdict' # "None"
  BY <1>1, <1>2 DEF AddLimitTo, Fine
<1>3. CASE verdict' = "None"
  <2>1. /\ qty \in Quantities /\ tick \in Ticks
        /\ id \in Ids \ DOMAIN B
        /\ tif = "Gtc" => ~(Cardinality(DOMAIN B) >= PoolSize)
    BY <1>3 DEF AddLimitTo, LimitVerdict, Quantities, AnyId
  <2>2. Cardinality(DOMAIN B) \in Nat
    BY FS_CardinalityType DEF GoodBook, InPool
  <2>3. tif = "Gtc" => Cardinality(DOMAIN B) < PoolSize
    BY <2>1, <2>2, BookAssumption
  <2>4. Meet(B, A, id, side, tick, qty, tif)
    BY <1>3 DEF AddLimitTo
  <2> QED
    BY <1>1, <2>1, <2>3, <2>4, MeetIsGood DEF Fine
<1> QED
  BY <1>2, <1>3

\* A refused command leaves the book as good as it was.
LEMMA RefuseIsFine ==
  ASSUME IInv, NEW v \in Verdicts, Refuse(v)
  PROVE  Fine
BY DEF IInv, Refuse, Fine

\* Pulling an order leaves a good book.
LEMMA PullIsFine ==
  ASSUME IInv, NEW id, Pull(id)
  PROVE  Fine
<1>1. GoodBook(Only(book, DOMAIN book \ {id}), QueueOnly(ahead, DOMAIN book \ {id}))
  BY OnlyIsGood DEF IInv
<1> QED
  BY <1>1 DEF Pull, Without, QueueWithout, Fine, Verdicts

\* Shrinking an order leaves a good book.
LEMMA ShrinkIsFine ==
  ASSUME IInv, NEW id \in Resting, NEW q \in Quantities, Shrink(id, q)
  PROVE  Fine
BY ShrunkIsGood DEF IInv, Shrink, Fine, Verdicts, Resting

\* Pulling an order and entering it afresh leaves a good book.
LEMMA ReenterIsFine ==
  ASSUME IInv, NEW old \in Resting, NEW new \in AnyId, NEW tick \in Int, NEW qty \in Int,
         Reenter(old, new, tick, qty)
  PROVE  Fine
<1>1. GoodBook(Without(book, old), QueueWithout(ahead, book, old))
  BY OnlyIsGood DEF IInv, Without, QueueWithout
<1>2. book[old].side \in Sides
  BY DEF IInv, GoodBook, BookTyped, Order, Resting
<1> QED
  BY <1>1, <1>2, AddLimitIsFine DEF Reenter

\* Every command leaves the book good.
LEMMA ApplyIsFine ==
  ASSUME IInv, NEW c \in Commands, Apply(c)
  PROVE  Fine
<1>0. /\ \A i \in Resting : book[i].qty \in Quantities /\ book[i].side \in Sides
      /\ Resting \subseteq AnyId
      /\ InTicks \subseteq Int /\ InQty \subseteq Int
  BY BookAssumption DEF IInv, GoodBook, BookTyped, Order, Resting, AnyId
<1>1. ASSUME c.type = "AddLimit", AddLimit(c.id, c.side, c.tick, c.qty, c.tif) PROVE Fine
  <2>1. c.id \in AnyId /\ c.side \in Sides /\ c.tick \in Int /\ c.qty \in Int
    BY <1>0, <1>1 DEF Commands
  <2> QED
    BY <1>1, <2>1, AddLimitIsFine DEF AddLimit, IInv
<1>2. ASSUME c.type = "AddMarket", AddMarket(c.id, c.side, c.qty) PROVE Fine
  <2>1. c.side \in Sides /\ c.qty \in Int
    BY <1>0, <1>2 DEF Commands
  <2>2. CASE Refuse("BadQty")
    BY <2>2, RefuseIsFine DEF Verdicts, Rejects
  <2>3. CASE c.qty > 0 /\ verdict' = "None"
               /\ Meet(book, ahead, c.id, c.side, FarTick(c.side), c.qty, "Ioc")
    <3>1. FarTick(c.side) \in Ticks /\ c.qty \in Quantities
      BY <2>1, <2>3, BookAssumption DEF FarTick, Ticks, Quantities
    <3>2. GoodBook(book, ahead)
      BY DEF IInv
    <3>3. ASSUME NEW side \in Sides, NEW tick \in Ticks, NEW qty \in Quantities,
                 Meet(book, ahead, c.id, side, tick, qty, "Ioc")
          PROVE  GoodBook(book', ahead')
      BY <3>2, <3>3, MeetIsGood
    <3>4. GoodBook(book', ahead')
      BY <2>1, <2>3, <3>1, <3>3
    <3> QED
      BY <2>3, <3>4 DEF Fine, Verdicts
  <2> QED
    BY <1>2, <2>2, <2>3 DEF AddMarket
<1>3. ASSUME Cancel(c.id) PROVE Fine
  BY <1>3, RefuseIsFine, PullIsFine DEF Cancel, Verdicts, Rejects
<1>4. ASSUME c.type = "Modify", Modify(c.id, c.tick, c.qty) PROVE Fine
  <2>1. c.tick \in Int /\ c.qty \in Int
    BY <1>0, <1>4 DEF Commands
  <2> DEFINE v == ResizeVerdict(c.id, c.tick, c.qty)
  <2>2. v \in Verdicts
    BY VerdictTypes
  <2>3. v = "None" => c.id \in Resting /\ c.qty \in Quantities
    BY <2>1 DEF ResizeVerdict, Quantities
  <2> HIDE DEF v
  <2>4. \/ Refuse(v)
        \/ v = "None" /\ Shrink(c.id, c.qty)
        \/ v = "None" /\ Reenter(c.id, c.id, c.tick, c.qty)
    BY <1>4 DEF Modify, v
  <2> QED
    BY <1>0, <2>1, <2>2, <2>3, <2>4, RefuseIsFine, ShrinkIsFine, ReenterIsFine
<1>5. ASSUME c.type = "Reduce", Reduce(c.id, c.qty) PROVE Fine
  <2>1. c.qty \in Int
    BY <1>0, <1>5 DEF Commands
  <2> DEFINE v == SharesVerdict(c.id, c.qty)
  <2>2. v \in Verdicts
    BY VerdictTypes
  <2>3. v = "None" => c.id \in Resting /\ c.qty > 0
    BY <2>1 DEF SharesVerdict
  <2> HIDE DEF v
  <2>4. \/ Refuse(v)
        \/ Pull(c.id)
        \/ v = "None" /\ c.qty < book[c.id].qty /\ Shrink(c.id, book[c.id].qty - c.qty)
    BY <1>5 DEF Reduce, v
  <2>5. v = "None" /\ c.qty < book[c.id].qty => book[c.id].qty - c.qty \in Quantities
    BY <1>0, <2>1, <2>3 DEF Quantities
  <2> QED
    BY <2>2, <2>3, <2>4, <2>5, RefuseIsFine, PullIsFine, ShrinkIsFine
<1>6. ASSUME c.type = "Execute", Execute(c.id, c.qty) PROVE Fine
  <2>1. c.qty \in Int
    BY <1>0, <1>6 DEF Commands
  <2> DEFINE v == SharesVerdict(c.id, c.qty)
             take == Smaller(c.qty, book[c.id].qty)
             f == [i \in {c.id} |-> take]
  <2>2. v \in Verdicts
    BY VerdictTypes
  <2>3. v = "None" => c.id \in Resting /\ c.qty > 0
    BY <2>1 DEF SharesVerdict
  <2>4. v = "None" => IsFill(book, f)
    BY <1>0, <2>1, <2>3 DEF IsFill, Smaller, Quantities, Resting
  <2>5. \/ Refuse(v)
        \/ /\ v = "None"
           /\ verdict' \in Verdicts
           /\ book' = AfterFills(book, f)
           /\ ahead' = QueueOnly(ahead, Survivors(book, f))
    BY <1>6 DEF Execute, Verdicts, Rejects
  <2> HIDE DEF v, f
  <2> QED
    BY <2>2, <2>4, <2>5, RefuseIsFine, FilledIsGood DEF Fine, IInv
<1>7. ASSUME c.type = "Replace", Replace(c.id, c.id2, c.tick, c.qty) PROVE Fine
  <2>1. c.id2 \in AnyId /\ c.tick \in Int /\ c.qty \in Int
    BY <1>0, <1>7 DEF Commands
  <2>2. \/ \E v \in Verdicts : Refuse(v)
        \/ c.id \in Resting /\ Reenter(c.id, c.id2, c.tick, c.qty)
    BY <1>7 DEF Replace, ResizeVerdict, Verdicts, Rejects
  <2> QED
    BY <2>1, <2>2, RefuseIsFine, ReenterIsFine
<1> QED
  BY <1>1, <1>2, <1>3, <1>4, <1>5, <1>6, <1>7 DEF Apply

-----------------------------------------------------------------------------
(***************************************************************************)
(* The theorems.                                                            *)
(***************************************************************************)

\* The book starts good.
LEMMA InitIInv == Init => IInv
BY EmptyIsGood DEF Init, IInv, Verdicts

\* Every step keeps the invariant.
LEMMA NextIInv == IInv /\ [Next]_vars => IInv'
<1>1. ASSUME IInv, cmd' \in Commands, Apply(cmd') PROVE IInv'
  BY <1>1, ApplyIsFine DEF Fine, IInv
<1>2. ASSUME IInv, Clear PROVE IInv'
  BY <1>2, EmptyIsGood DEF Clear, IInv, Verdicts
<1>3. ASSUME IInv, UNCHANGED vars PROVE IInv'
  BY <1>3 DEF IInv, vars
<1> QED
  BY <1>1, <1>2, <1>3 DEF Next

\* The invariant holds for ever.
THEOREM BookInvariant == Spec => []IInv
BY InitIInv, NextIInv, PTL DEF Spec

\* Every resting order is in range, of positive size and queued with others
\* that rest.
THEOREM BookTypeOK == Spec => []TypeOK
BY BookInvariant, IInvIsPromises, PTL

\* The book is never crossed or locked.
THEOREM BookUncrossed == Spec => []Uncrossed
BY BookInvariant, IInvIsPromises, PTL

\* The queue of every level is a strict total order.
THEOREM BookQueueIsOrder == Spec => []QueueIsOrder
BY BookInvariant, IInvIsPromises, PTL

\* The pool is never overrun.
THEOREM BookWithinPool == Spec => []WithinPool
BY BookInvariant, IInvIsPromises, PTL

-----------------------------------------------------------------------------
(***************************************************************************)
(* What one call may never do.                                              *)
(***************************************************************************)

\* A modify that has passed its own checks is never refused by add_limit: the
\* slot and the id it frees are there for it to take again.
LEMMA ModifyReenters ==
  ASSUME IInv, NEW id, NEW tick, NEW qty \in Int,
         ResizeVerdict(id, tick, qty) = "None", Reenter(id, id, tick, qty)
  PROVE  verdict' = "None"
<1> DEFINE less == Without(book, id)
<1>1. id \in Resting /\ qty > 0 /\ tick \in Ticks
  BY DEF ResizeVerdict
<1>2. DOMAIN less = Resting \ {id}
  BY DEF Without, Only, Resting
<1>3. id # NoOrder
  BY <1>1, BookAssumption DEF IInv, GoodBook, BookTyped, Resting
<1>4. ~(Cardinality(DOMAIN less) >= PoolSize)
  <2>1. /\ IsFiniteSet(Resting) /\ Cardinality(Resting) \in Nat
        /\ Cardinality(Resting) <= PoolSize
    BY FS_CardinalityType DEF IInv, GoodBook, InPool, Resting
  <2>2. Cardinality(Resting \ {id}) = Cardinality(Resting) - 1
    BY <1>1, <2>1, FS_RemoveElement
  <2> QED
    BY <1>2, <2>1, <2>2, BookAssumption
<1> HIDE DEF less
<1>5. LimitVerdict(less, QueueWithout(ahead, book, id), id, book[id].side, tick, qty, "Gtc") = "None"
  BY <1>1, <1>2, <1>3, <1>4 DEF LimitVerdict
<1> QED
  BY <1>5 DEF Reenter, AddLimitTo, less

\* A client's refused request changes neither the orders nor the queues.
THEOREM BookClientRejectLeavesBook == Spec => ClientRejectLeavesBook
<1> DEFINE Same == ByClient(cmd') /\ verdict' # "None" => UNCHANGED <<book, ahead>>
<1>1. ASSUME IInv, NEW c \in Commands, c = cmd', Apply(c) PROVE Same
  <2>1. CASE c.type = "AddLimit"
    BY <1>1, <2>1 DEF Apply, AddLimit, AddLimitTo
  <2>2. CASE c.type = "AddMarket"
    BY <1>1, <2>2 DEF Apply, AddMarket, Refuse
  <2>3. CASE c.type = "Cancel"
    BY <1>1, <2>3 DEF Apply, Cancel, Pull, Refuse
  <2>4. CASE c.type = "Modify"
    <3>1. c.qty \in Int
      BY <2>4, BookAssumption DEF Commands
    <3>2. Modify(c.id, c.tick, c.qty)
      BY <1>1, <2>4 DEF Apply
    <3>3. \/ \E v \in Verdicts : Refuse(v)
          \/ Shrink(c.id, c.qty)
          \/ /\ ResizeVerdict(c.id, c.tick, c.qty) = "None"
             /\ Reenter(c.id, c.id, c.tick, c.qty)
      BY <3>2, VerdictTypes DEF Modify
    <3> QED
      BY <1>1, <3>1, <3>3, ModifyReenters DEF Refuse, Shrink
  <2>5. CASE c.type \notin {"AddLimit", "AddMarket", "Cancel", "Modify"}
    BY <1>1, <2>5 DEF ByClient
  <2> QED
    BY <2>1, <2>2, <2>3, <2>4, <2>5
<1>2. ASSUME Clear PROVE Same
  BY <1>2 DEF Clear
<1>3. IInv /\ [Next]_vars => [Same]_vars
  BY <1>1, <1>2 DEF Next
<1> QED
  BY BookInvariant, <1>3, PTL DEF Spec, ClientRejectLeavesBook

\* Nobody who was served before a filled order is left in the book.
LEMMA MeetServesInOrder ==
  ASSUME NEW B, NEW A, GoodBook(B, A),
         NEW id, NEW side \in Sides, NEW tick \in Int, NEW qty \in Quantities, NEW tif,
         Meet(B, A, id, side, tick, qty, tif),
         NEW i \in DOMAIN B, NEW j \in DOMAIN B, j \in DOMAIN fills', i # id \/ tif # "Gtc",
         B[i].side = B[j].side, Before(B, A, i, j)
  PROVE  i \notin DOMAIN book' /\ B[i].side # side
<1> DEFINE E == Eligible(B, side, tick)
<1>0. /\ E \subseteq DOMAIN B
      /\ \A k \in DOMAIN B : B[k].qty \in Nat /\ B[k].tick \in Int /\ B[k].side \in Sides
  BY BookAssumption DEF Eligible, GoodBook, BookTyped, Order, Quantities, Ticks
<1>1. PICK f \in [E -> 0 .. qty] :
        LET left  == AfterFills(B, f)
            order == [side |-> side, tick |-> tick, qty |-> Remainder(qty, f)]
        IN /\ fills' = Given(f)
           /\ Filling(B, A, side, tick, qty, f)
           /\ \/ book' = left
              \/ book' = WithOrder(left, id, order) /\ tif = "Gtc"
  BY DEF Meet
<1>2. j \in E /\ f[j] > 0
  BY <1>1 DEF Given
<1>3. i \in E
  <2>1. B[i].side = Opposite(side) /\ Reaches(side, tick, B[j].tick)
    BY <1>2 DEF Eligible
  <2>2. Opposite(B[i].side) = side
    BY <2>1 DEF Opposite, Sides
  <2>3. CASE Better(side, B[i].tick, B[j].tick)
    BY <1>0, <2>1, <2>3 DEF Better, Reaches, Eligible
  <2>4. CASE <<i, j>> \in A
    BY <2>1, <2>4 DEF GoodBook, Ordered, SameLevel, Eligible
  <2> QED
    BY <2>2, <2>3, <2>4 DEF Before
<1>4. f[i] = B[i].qty
  BY <1>1, <1>2, <1>3 DEF Filling
<1>5. i \notin DOMAIN AfterFills(B, f)
  BY <1>0, <1>3, <1>4 DEF AfterFills, Survivors
<1>6. i \notin DOMAIN book'
  BY <1>1, <1>5 DEF WithOrder
<1>7. B[i].side # side
  BY <1>3 DEF Eligible, Opposite, Sides
<1> QED
  BY <1>6, <1>7

\* A client's call that trades never trades through an order with a better
\* price, or one that came earlier at the same price.
THEOREM BookNoTradeThrough == Spec => NoTradeThrough
<1> DEFINE Through(i, j) == /\ ByClient(cmd')
                            /\ book[i].side = book[j].side /\ Before(book, ahead, i, j)
           Served == \A i \in Resting, j \in DOMAIN fills' \intersect Resting :
                       Through(i, j) => i \notin DOMAIN book'
<1>1. ASSUME fills' = NoFills PROVE Served
  BY <1>1 DEF NoFills
<1>2. ASSUME IInv, NEW c \in Commands, c = cmd', Apply(c) PROVE Served
  <2> SUFFICES ASSUME NEW i \in Resting, NEW j \in DOMAIN fills' \intersect Resting,
                      Through(i, j), fills' # NoFills
               PROVE  i \notin DOMAIN book'
    BY <1>1
  <2> USE DEF Resting
  <2>0. GoodBook(book, ahead) /\ InTicks \subseteq Int /\ InQty \subseteq Int
    BY <1>2, BookAssumption DEF IInv
  <2>1. CASE c.type = "AddLimit"
    <3>1. /\ c.side \in Sides /\ c.tick \in Int /\ c.qty \in Int
          /\ AddLimitTo(book, ahead, c.id, c.side, c.tick, c.qty, c.tif)
      BY <1>2, <2>0, <2>1 DEF Commands, Apply, AddLimit
    <3>2. /\ c.qty \in Quantities /\ c.id \notin DOMAIN book
          /\ Meet(book, ahead, c.id, c.side, c.tick, c.qty, c.tif)
      BY <3>1 DEF AddLimitTo, LimitVerdict, Quantities
    <3> QED
      BY <2>0, <3>1, <3>2, MeetServesInOrder
  <2>2. CASE c.type = "AddMarket"
    <3>1. c.side \in Sides /\ c.qty \in Int /\ FarTick(c.side) \in Int
      BY <1>2, <2>0, <2>2, BookAssumption DEF Commands, FarTick
    <3>2. c.qty \in Quantities /\ Meet(book, ahead, c.id, c.side, FarTick(c.side), c.qty, "Ioc")
      BY <1>2, <2>2, <3>1 DEF Apply, AddMarket, Refuse, Quantities
    <3>3. ASSUME NEW side \in Sides, NEW tick \in Int, NEW qty \in Quantities,
                 Meet(book, ahead, c.id, side, tick, qty, "Ioc")
          PROVE  i \notin DOMAIN book'
      <4>1. "Ioc" # "Gtc"
        OBVIOUS
      <4> QED
        BY <2>0, <3>3, <4>1, MeetServesInOrder
    <3> QED
      BY <3>1, <3>2, <3>3
  <2>3. CASE c.type = "Cancel"
    BY <1>2, <2>3 DEF Apply, Cancel, Pull, Refuse
  <2>4. CASE c.type = "Modify"
    <3> DEFINE B == Without(book, c.id)
               A == QueueWithout(ahead, book, c.id)
    <3>1. c.tick \in Int /\ c.qty \in Int
      BY <2>0, <2>4 DEF Commands
    <3>2. /\ c.id \in Resting /\ c.qty \in Quantities
          /\ Reenter(c.id, c.id, c.tick, c.qty)
      BY <1>2, <2>4, <3>1 DEF Apply, Modify, Shrink, Refuse, ResizeVerdict, Quantities
    <3>3. /\ DOMAIN B = Resting \ {c.id}
          /\ \A k \in DOMAIN B : B[k] = book[k]
      BY DEF Without, Only
    <3>4. GoodBook(B, A)
      BY <2>0, OnlyIsGood DEF Without, QueueWithout
    <3>5. Meet(B, A, c.id, book[c.id].side, c.tick, c.qty, "Gtc")
      BY <3>2 DEF Reenter, AddLimitTo
    <3>6. book[c.id].side \in Sides
      BY <2>0, <3>2 DEF GoodBook, BookTyped, Order
    <3>7. j # c.id /\ (i = c.id => book[j].side = Opposite(book[c.id].side))
      <4>1. j \in Eligible(B, book[c.id].side, c.tick)
        BY <3>5 DEF Meet, Given
      <4> QED
        BY <3>3, <4>1 DEF Eligible
    <3>8. i # c.id
      BY <3>6, <3>7 DEF Opposite, Sides
    <3>9. Before(B, A, i, j)
      BY <3>3, <3>7, <3>8 DEF Before, QueueWithout, QueueOnly
    <3> HIDE DEF A, B
    <3> QED
      BY <3>1, <3>2, <3>3, <3>4, <3>5, <3>6, <3>7, <3>8, <3>9, MeetServesInOrder
  <2>5. CASE c.type \notin {"AddLimit", "AddMarket", "Cancel", "Modify"}
    BY <1>2, <2>5 DEF ByClient
  <2> QED
    BY <2>1, <2>2, <2>3, <2>4, <2>5
<1>3. ASSUME Clear PROVE Served
  BY <1>1, <1>3 DEF Clear
<1>4. IInv /\ [Next]_vars => [Served]_vars
  BY <1>2, <1>3 DEF Next
<1> QED
  BY BookInvariant, <1>4, PTL DEF Spec, NoTradeThrough

\* A taker that reaches nobody is left with all of its size.
LEMMA NobodyReached ==
  ASSUME NEW qty \in Nat, NEW f, DOMAIN f = {}
  PROVE  Remainder(qty, f) = qty
<1> DEFINE Sum(iter) ==
             iter = [s \in SUBSET {} |->
                       IF s = {} THEN 0
                       ELSE f[CHOOSE y \in s : TRUE] + iter[s \ {CHOOSE y \in s : TRUE}]]
           sum == CHOOSE iter : Sum(iter)
           zero == [s \in SUBSET {} |-> 0]
<1>1. FoldFunction(+, 0, f) = sum[{}]
  BY Zenon DEF FoldFunction, FoldFunctionOnSet, MapThenFoldSet
<1>2. Sum(zero)
  <2>1. \A s \in SUBSET {} : s = {}
    OBVIOUS
  <2> QED
    BY <2>1
<1>3. Sum(sum)
  <2> HIDE DEF Sum, zero
  <2> QED
    BY <1>2, Zenon
<1>4. FoldFunction(+, 0, f) = 0
  <2>1. {} \in SUBSET {}
    OBVIOUS
  <2> HIDE DEF sum
  <2> QED
    BY <1>1, <1>3, <2>1
<1>5. qty - 0 = qty
  OBVIOUS
<1> QED
  BY <1>4, <1>5, Zenon DEF Remainder

\* What an order that is let in does to the queues: those who stay keep their
\* places, and it stands behind everyone at its level.
LEMMA MeetKeepsQueues ==
  ASSUME NEW B, NEW A, NEW id, NEW side, NEW tick, NEW qty, NEW tif,
         Meet(B, A, id, side, tick, qty, tif)
  PROVE  /\ \A i, j \in DOMAIN book' \ {id} : <<i, j>> \in A => <<i, j>> \in ahead'
         /\ id \notin DOMAIN B =>
              \A i \in DOMAIN book' \ {id} :
                id \in DOMAIN book' /\ SameLevel(book', i, id) => <<i, id>> \in ahead'
<1> DEFINE E == Eligible(B, side, tick)
<1>1. PICK f \in [E -> 0 .. qty] :
        LET left  == AfterFills(B, f)
            queue == QueueOnly(A, DOMAIN left)
            order == [side |-> side, tick |-> tick, qty |-> Remainder(qty, f)]
        IN \/ book' = left /\ ahead' = queue
           \/ /\ book' = WithOrder(left, id, order)
              /\ ahead' = QueueBehind(left, queue, id, order)
  BY DEF Meet
<1> DEFINE left  == AfterFills(B, f)
           queue == QueueOnly(A, DOMAIN left)
           order == [side |-> side, tick |-> tick, qty |-> Remainder(qty, f)]
<1>2. \A i, j \in DOMAIN left : <<i, j>> \in A => <<i, j>> \in queue
  BY DEF QueueOnly
<1>3. DOMAIN left \subseteq DOMAIN B
  BY DEF AfterFills, Survivors
<1>4. CASE book' = left /\ ahead' = queue
  <2> HIDE DEF left, queue
  <2> QED
    BY <1>2, <1>3, <1>4
<1>5. CASE book' = WithOrder(left, id, order) /\ ahead' = QueueBehind(left, queue, id, order)
  <2>1. /\ DOMAIN book' = DOMAIN left \union {id}
        /\ book'[id] = order
        /\ \A i \in DOMAIN left \ {id} : book'[i] = left[i]
    BY <1>5 DEF WithOrder
  <2>2. /\ queue \subseteq ahead'
        /\ \A i \in DOMAIN left : left[i].side = side /\ left[i].tick = tick => <<i, id>> \in ahead'
    BY <1>5 DEF QueueBehind
  <2>3. order.side = side /\ order.tick = tick
    OBVIOUS
  <2> HIDE DEF left, queue, order
  <2> QED
    BY <1>2, <2>1, <2>2, <2>3 DEF SameLevel
<1> QED
  BY <1>1, <1>4, <1>5

\* An order that is modified and keeps its price comes back bigger than it was.
LEMMA ReenteredGrows ==
  ASSUME IInv, NEW id \in Resting, NEW tick \in Ticks, NEW qty \in Quantities,
         ~(tick = book[id].tick /\ qty <= book[id].qty),
         Reenter(id, id, tick, qty), id \in DOMAIN book', book'[id].tick = book[id].tick
  PROVE  ~(book'[id].qty <= book[id].qty)
<1> DEFINE B == Without(book, id)
           A == QueueWithout(ahead, book, id)
           side == book[id].side
           E == Eligible(B, side, tick)
<1>1. /\ DOMAIN B = Resting \ {id}
      /\ \A k \in DOMAIN B : B[k] = book[k]
  BY DEF Without, Only, Resting
<1>2. Meet(B, A, id, side, tick, qty, "Gtc")
  BY <1>1 DEF Reenter, AddLimitTo
<1>3. PICK f \in [E -> 0 .. qty] :
        LET left  == AfterFills(B, f)
            order == [side |-> side, tick |-> tick, qty |-> Remainder(qty, f)]
        IN book' = left \/ book' = WithOrder(left, id, order)
  BY <1>2 DEF Meet
<1>4. DOMAIN AfterFills(B, f) \subseteq DOMAIN B
  BY DEF AfterFills, Survivors
<1>5. book'[id] = [side |-> side, tick |-> tick, qty |-> Remainder(qty, f)]
  BY <1>1, <1>3, <1>4 DEF WithOrder
<1>6. tick = book[id].tick /\ qty > book[id].qty
  <2>1. qty \in Nat /\ book[id].qty \in Nat
    BY DEF IInv, GoodBook, BookTyped, Order, Quantities, Resting
  <2> QED
    BY <1>5, <2>1
<1>7. E = {}
  <2> SUFFICES ASSUME NEW k \in E PROVE FALSE
    OBVIOUS
  <2>1. k \in Resting /\ book[k].side = Opposite(side) /\ Reaches(side, book[id].tick, book[k].tick)
    BY <1>1, <1>6 DEF Eligible
  <2>2. book[k].tick \in Int /\ book[id].tick \in Int /\ side \in Sides
    BY <2>1, BookAssumption DEF IInv, GoodBook, BookTyped, Order, Ticks, Resting
  <2>3. NotCrossed(book)
    BY DEF IInv, GoodBook
  <2> QED
    BY <2>1, <2>2, <2>3 DEF NotCrossed, Reaches, Opposite, Sides, Resting
<1>8. Remainder(qty, f) = qty
  BY <1>7, NobodyReached DEF Quantities
<1>9. qty \in Nat /\ book[id].qty \in Nat
  BY DEF IInv, GoodBook, BookTyped, Order, Quantities, Resting
<1> QED
  BY <1>5, <1>6, <1>8, <1>9

\* No client's call takes the place in the queue of an order that keeps its
\* price and does not grow.
THEOREM BookKeepsPriority == Spec => KeepsPriority
<1> DEFINE Claims(i, j) == /\ <<i, j>> \in ahead
                           /\ ByClient(cmd')
                           /\ book'[i].tick = book[i].tick /\ book'[i].qty <= book[i].qty
                           /\ SameLevel(book', i, j)
           Kept == \A i, j \in Resting \intersect DOMAIN book' : Claims(i, j) => <<i, j>> \in ahead'
<1>1. ASSUME UNCHANGED ahead PROVE Kept
  BY <1>1
<1>2. ASSUME NEW id, ahead' = QueueWithout(ahead, book, id), DOMAIN book' = DOMAIN book \ {id}
      PROVE  Kept
  BY <1>2 DEF QueueWithout, QueueOnly, Resting
<1>3. ASSUME IInv, NEW c \in Commands, c = cmd', Apply(c) PROVE Kept
  <2> SUFFICES ASSUME NEW i \in Resting \intersect DOMAIN book',
                      NEW j \in Resting \intersect DOMAIN book',
                      Claims(i, j), ~ UNCHANGED ahead
               PROVE  <<i, j>> \in ahead'
    BY <1>1
  <2> USE DEF Resting
  <2>1. CASE c.type = "AddLimit"
    <3>1. /\ c.id \notin DOMAIN book
          /\ Meet(book, ahead, c.id, c.side, c.tick, c.qty, c.tif)
      BY <1>3, <2>1 DEF Apply, AddLimit, AddLimitTo, LimitVerdict
    <3> QED
      BY <3>1, MeetKeepsQueues
  <2>2. CASE c.type = "AddMarket"
    <3>1. PICK f : ahead' = QueueOnly(ahead, DOMAIN AfterFills(book, f))
                     /\ book' = AfterFills(book, f)
      BY <1>3, <2>2 DEF Apply, AddMarket, Refuse, Meet
    <3> QED
      BY <3>1 DEF QueueOnly
  <2>3. CASE c.type = "Cancel"
    BY <1>2, <1>3, <2>3 DEF Apply, Cancel, Pull, Refuse, Without, Only
  <2>4. CASE c.type = "Modify"
    <3> DEFINE B == Without(book, c.id)
               A == QueueWithout(ahead, book, c.id)
    <3>1. /\ c.id \in Resting /\ c.tick \in Ticks
          /\ ~(c.tick = book[c.id].tick /\ c.qty <= book[c.id].qty)
          /\ Reenter(c.id, c.id, c.tick, c.qty)
          /\ c.qty \in Quantities
      BY <1>3, <2>4, BookAssumption
         DEF Apply, Modify, Shrink, Refuse, ResizeVerdict, Commands, Quantities
    <3>2. /\ DOMAIN B = Resting \ {c.id}
          /\ i # c.id /\ j # c.id => <<i, j>> \in A
      BY DEF Without, Only, QueueWithout, QueueOnly
    <3>3. \/ ahead' = A /\ book' = B
          \/ Meet(B, A, c.id, book[c.id].side, c.tick, c.qty, "Gtc")
      BY <3>1 DEF Reenter, AddLimitTo
    <3> HIDE DEF A, B
    <3>4. CASE i = c.id
      BY <1>3, <3>1, <3>4, ReenteredGrows
    <3>5. CASE i # c.id
      BY <3>2, <3>3, <3>5, MeetKeepsQueues
    <3> QED
      BY <3>4, <3>5
  <2>5. CASE c.type \notin {"AddLimit", "AddMarket", "Cancel", "Modify"}
    BY <1>3, <2>5 DEF ByClient
  <2> QED
    BY <2>1, <2>2, <2>3, <2>4, <2>5
<1>4. ASSUME Clear PROVE Kept
  BY <1>4 DEF Clear
<1>5. IInv /\ [Next]_vars => [Kept]_vars
  BY <1>3, <1>4 DEF Next
<1> QED
  BY BookInvariant, <1>5, PTL DEF Spec, KeepsPriority
=============================================================================
