----------------------------- MODULE PriceTime -----------------------------
(***************************************************************************)
(* What the limit order book promises, with no data structure in it.       *)
(*                                                                          *)
(* A book is a partial function from ids to resting orders together with    *)
(* the relation `ahead`: <<i, j>> is in it when i stands before j in the    *)
(* queue of the level both rest at.  An incoming order trades with the      *)
(* other side in price-time priority.  That is stated as a relation between *)
(* the order and the fills it causes (Filling), not as a loop: who is       *)
(* filled, never how the makers are visited.                                *)
(*                                                                          *)
(* `cmd` is the last command, `verdict` what it returned and `fills` what    *)
(* each maker gave to it.                                                   *)
(***************************************************************************)
EXTENDS BookTypes, Functions

VARIABLES book, ahead, cmd, verdict, fills

vars == <<book, ahead, cmd, verdict, fills>>

Order == [side : Sides, tick : Ticks, qty : Quantities]

Resting == DOMAIN book

NoFills == [i \in {} |-> 0]

\* The makers that gave something, and how much.
Given(f) == [i \in {j \in DOMAIN f : f[j] > 0} |-> f[i]]

-----------------------------------------------------------------------------
(***************************************************************************)
(* Operators on a book value B and a queue relation A.                      *)
(***************************************************************************)

SameLevel(B, i, j) == B[i].side = B[j].side /\ B[i].tick = B[j].tick

\* i is served before j by a taker on the other side.
Before(B, A, i, j) ==
  \/ Better(Opposite(B[i].side), B[i].tick, B[j].tick)
  \/ <<i, j>> \in A

\* Faulty variant: a taker does not reach a maker exactly at its limit.
EligibleStrict(B, side, limit) ==
  {i \in DOMAIN B : B[i].side = Opposite(side) /\ Better(side, B[i].tick, limit)}

Eligible(B, side, limit) ==
  {i \in DOMAIN B : B[i].side = Opposite(side) /\ Reaches(side, limit, B[i].tick)}

\* What a taker of qty is left with after the fills f.
Remainder(qty, f) == qty - FoldFunction(+, 0, f)

\* Faulty variant: any maker in reach may be hit first.
FillingAnyOrder(B, A, side, limit, qty, f) ==
  LET E == Eligible(B, side, limit) IN
  /\ Remainder(qty, f) \in 0 .. qty
  /\ \A i \in E : f[i] <= B[i].qty
  /\ Remainder(qty, f) > 0 => \A i \in E : f[i] = B[i].qty

(***************************************************************************)
(* f says how much each eligible maker gives to a taker of qty: nobody is    *)
(* filled while someone before him still has size, and the taker is left    *)
(* with something only when there is no maker left.                         *)
(***************************************************************************)
Filling(B, A, side, limit, qty, f) ==
  LET E == Eligible(B, side, limit) IN
  /\ Remainder(qty, f) \in 0 .. qty
  /\ \A i \in E : f[i] <= B[i].qty
  /\ \A i, j \in E : f[j] > 0 /\ Before(B, A, i, j) => f[i] = B[i].qty
  /\ Remainder(qty, f) > 0 => \A i \in E : f[i] = B[i].qty

\* The ids of X out of the book.
Only(B, X) == [i \in X |-> B[i]]
QueueOnly(A, X) == {p \in A : p[1] \in X /\ p[2] \in X}

Without(B, id) == Only(B, DOMAIN B \ {id})
QueueWithout(A, B, id) == QueueOnly(A, DOMAIN B \ {id})

\* Faulty variant: an order filled to zero keeps resting.
SurvivorsWithEmpty(B, f) == {i \in DOMAIN B : i \in DOMAIN f => f[i] <= B[i].qty}

\* The book after the fills f: what is filled in full is gone.
Survivors(B, f) == {i \in DOMAIN B : i \in DOMAIN f => f[i] < B[i].qty}

AfterFills(B, f) ==
  [i \in Survivors(B, f) |->
     IF i \in DOMAIN f THEN [B[i] EXCEPT !.qty = @ - f[i]] ELSE B[i]]

\* A fresh order o at the back of its level.
WithOrder(B, id, o) == [i \in DOMAIN B \union {id} |-> IF i = id THEN o ELSE B[i]]

\* Faulty variants: the order joins the front of its level, or a queue that is
\* not its level's.
QueueInFront(B, A, id, o) ==
  A \union {<<id, i>> : i \in {j \in DOMAIN B : B[j].side = o.side /\ B[j].tick = o.tick}}
QueueBehindSide(B, A, id, o) ==
  A \union {<<i, id>> : i \in {j \in DOMAIN B : B[j].side = o.side}}

QueueBehind(B, A, id, o) ==
  A \union {<<i, id>> : i \in {j \in DOMAIN B : B[j].side = o.side /\ B[j].tick = o.tick}}

Fillable(B, A, side, limit, qty) ==
  \E f \in [Eligible(B, side, limit) -> 0 .. qty] :
    Filling(B, A, side, limit, qty, f) /\ Remainder(qty, f) = 0

\* Faulty variant: the pool check is off by one.
LimitVerdictOneTooMany(B, A, id, side, tick, qty, tif) ==
  IF qty <= 0 THEN "BadQty"
  ELSE IF tick \notin Ticks THEN "PriceOutOfRange"
  ELSE IF id \in DOMAIN B \union {NoOrder} THEN "DuplicateId"
  ELSE IF tif = "Gtc" /\ Cardinality(DOMAIN B) > PoolSize THEN "PoolExhausted"
  ELSE IF tif = "Fok" /\ ~Fillable(B, A, side, tick, qty) THEN "FokUnfillable"
  ELSE "None"

\* The first check an incoming limit order fails, in the order of the code.
LimitVerdict(B, A, id, side, tick, qty, tif) ==
  IF qty <= 0 THEN "BadQty"
  ELSE IF tick \notin Ticks THEN "PriceOutOfRange"
  ELSE IF id \in DOMAIN B \union {NoOrder} THEN "DuplicateId"
  ELSE IF tif = "Gtc" /\ Cardinality(DOMAIN B) >= PoolSize THEN "PoolExhausted"
  ELSE IF tif = "Fok" /\ ~Fillable(B, A, side, tick, qty) THEN "FokUnfillable"
  ELSE "None"

\* Faulty variant: the new price is left to add_limit to check.
ResizeVerdictNoRange(id, tick, qty) ==
  IF id \notin Resting THEN "UnknownId" ELSE IF qty <= 0 THEN "BadQty" ELSE "None"

\* The checks modify and replace make before they touch the order.
ResizeVerdict(id, tick, qty) ==
  IF id \notin Resting THEN "UnknownId"
  ELSE IF qty <= 0 THEN "BadQty"
  ELSE IF tick \notin Ticks THEN "PriceOutOfRange"
  ELSE "None"

\* The checks reduce and execute make.
SharesVerdict(id, shares) ==
  IF id \notin Resting THEN "UnknownId" ELSE IF shares <= 0 THEN "BadQty" ELSE "None"

-----------------------------------------------------------------------------
(***************************************************************************)
(* The operations.                                                          *)
(***************************************************************************)

\* The command is answered and nothing else happens.
Refuse(v) == verdict' = v /\ fills' = NoFills /\ UNCHANGED <<book, ahead>>

\* An accepted order meets the book B, A and what is left of it may rest.
Meet(B, A, id, side, tick, qty, tif) ==
  \E f \in [Eligible(B, side, tick) -> 0 .. qty] :
    LET rem   == Remainder(qty, f)
        left  == AfterFills(B, f)
        queue == QueueOnly(A, DOMAIN left)
        order == [side |-> side, tick |-> tick, qty |-> rem]
    IN /\ fills' = Given(f)
       /\ Filling(B, A, side, tick, qty, f)
       /\ tif = "Fok" => rem = 0
       /\ IF rem > 0 /\ tif = "Gtc"
            THEN /\ book' = WithOrder(left, id, order)
                 /\ ahead' = QueueBehind(left, queue, id, order)
            ELSE book' = left /\ ahead' = queue

\* add_limit on the book B, A (the book itself, or the book less an order
\* that a modify or a replace has just pulled).
AddLimitTo(B, A, id, side, tick, qty, tif) ==
  /\ verdict' = LimitVerdict(B, A, id, side, tick, qty, tif)
  /\ \/ verdict' = "None" /\ Meet(B, A, id, side, tick, qty, tif)
     \/ verdict' # "None" /\ book' = B /\ ahead' = A /\ fills' = NoFills

AddLimit(id, side, tick, qty, tif) == AddLimitTo(book, ahead, id, side, tick, qty, tif)

AddMarket(id, side, qty) ==
  \/ qty <= 0 /\ Refuse("BadQty")
  \/ /\ qty > 0
     /\ verdict' = "None"
     /\ Meet(book, ahead, id, side, FarTick(side), qty, "Ioc")

\* The order leaves the book unfilled.
Pull(id) ==
  /\ verdict' = "None"
  /\ book' = Without(book, id)
  /\ ahead' = QueueWithout(ahead, book, id)
  /\ fills' = NoFills

\* The order keeps its place and shrinks to qty.
Shrink(id, qty) ==
  /\ verdict' = "None"
  /\ book' = [book EXCEPT ![id].qty = qty]
  /\ fills' = NoFills
  /\ UNCHANGED ahead

Cancel(id) ==
  \/ id \notin Resting /\ Refuse("UnknownId")
  \/ id \in Resting /\ Pull(id)

\* The order leaves the book and comes back as a fresh one.
Reenter(old, new, tick, qty) ==
  AddLimitTo(Without(book, old), QueueWithout(ahead, book, old),
             new, book[old].side, tick, qty, "Gtc")

Modify(id, tick, qty) ==
  LET v == ResizeVerdict(id, tick, qty)
      inPlace == tick = book[id].tick /\ qty <= book[id].qty
  IN \/ v # "None" /\ Refuse(v)
     \/ v = "None" /\ inPlace /\ Shrink(id, qty)
     \/ v = "None" /\ ~inPlace /\ Reenter(id, id, tick, qty)

Reduce(id, shares) ==
  LET v == SharesVerdict(id, shares) IN
  \/ v # "None" /\ Refuse(v)
  \/ v = "None" /\ shares >= book[id].qty /\ Pull(id)
  \/ v = "None" /\ shares < book[id].qty /\ Shrink(id, book[id].qty - shares)

\* More shares than the order has take all of it, and the reply is BadQty.
Execute(id, shares) ==
  LET v    == SharesVerdict(id, shares)
      take == Smaller(shares, book[id].qty)
      f    == [i \in {id} |-> take]
  IN \/ v # "None" /\ Refuse(v)
     \/ /\ v = "None"
        /\ verdict' = IF take = shares THEN "None" ELSE "BadQty"
        /\ fills' = f
        /\ book' = AfterFills(book, f)
        /\ ahead' = QueueOnly(ahead, Survivors(book, f))

\* One id is retired and another takes its place at the back of its level.
\* NoOrder as the new id is refused only after the old order is gone.
Replace(orig, new, tick, qty) ==
  LET resize == ResizeVerdict(orig, tick, qty)
      v == IF resize = "None" /\ new # orig /\ new \in Resting THEN "DuplicateId" ELSE resize
  IN \/ v # "None" /\ Refuse(v)
     \/ v = "None" /\ Reenter(orig, new, tick, qty)

Clear ==
  /\ cmd' = ClearCall
  /\ verdict' = "None"
  /\ book' = [i \in {} |-> 0]
  /\ ahead' = {}
  /\ fills' = NoFills

\* MatchingEngine::apply, one disjunct per case of its switch.
Apply(c) ==
  \/ c.type = "AddLimit" /\ AddLimit(c.id, c.side, c.tick, c.qty, c.tif)
  \/ c.type = "AddMarket" /\ AddMarket(c.id, c.side, c.qty)
  \/ c.type = "Cancel" /\ Cancel(c.id)
  \/ c.type = "Modify" /\ Modify(c.id, c.tick, c.qty)
  \/ c.type = "Reduce" /\ Reduce(c.id, c.qty)
  \/ c.type = "Execute" /\ Execute(c.id, c.qty)
  \/ c.type = "Replace" /\ Replace(c.id, c.id2, c.tick, c.qty)

Init ==
  /\ book = [i \in {} |-> 0]
  /\ ahead = {}
  /\ cmd = ClearCall
  /\ verdict = "None"
  /\ fills = NoFills

Next == (cmd' \in Commands /\ Apply(cmd')) \/ Clear

Spec == Init /\ [][Next]_vars

-----------------------------------------------------------------------------
(***************************************************************************)
(* Properties.                                                              *)
(***************************************************************************)

\* Types: resting orders are in range and of positive size, the queue only
\* relates resting orders.
TypeOK ==
  /\ Resting \subseteq Ids
  /\ book \in [Resting -> Order]
  /\ ahead \subseteq Resting \X Resting
  /\ cmd \in Commands \union {ClearCall} /\ verdict \in Verdicts

\* The book is never crossed or locked: no resting bid reaches a resting ask
\* (match runs until the taker or the makers it reaches are gone, order_book.cpp).
Uncrossed ==
  \A i, j \in Resting :
    book[i].side = "Buy" /\ book[j].side = "Sell" => book[i].tick < book[j].tick

\* The queue of a level is a strict total order of the orders resting there,
\* through every fill, pull, re-entry and replacement.
QueueIsOrder ==
  /\ \A i \in Resting : <<i, i>> \notin ahead
  /\ \A i, j \in Resting : <<i, j>> \in ahead => SameLevel(book, i, j)
  /\ \A i, j \in Resting :
       i # j /\ SameLevel(book, i, j) => (<<i, j>> \in ahead <=> <<j, i>> \notin ahead)
  /\ \A i, j, k \in Resting :
       <<i, j>> \in ahead /\ <<j, k>> \in ahead => <<i, k>> \in ahead

\* The pool is never overrun: a modify or a replace pulls one order before it
\* enters another, and a resting order is only let in when a slot is free.
WithinPool == IsFiniteSet(Resting) /\ Cardinality(Resting) <= PoolSize

\* No client's call overtakes an order that stays at its price and does not
\* grow: whoever was behind it and still shares its level is still behind it.
KeepsPriority ==
  [][\A i, j \in Resting \intersect DOMAIN book' :
       /\ <<i, j>> \in ahead
       /\ ByClient(cmd')
       /\ book'[i].tick = book[i].tick /\ book'[i].qty <= book[i].qty
       /\ SameLevel(book', i, j)
       => <<i, j>> \in ahead']_vars

\* A client whose request is refused finds the book exactly as it was.
ClientRejectLeavesBook ==
  [][ByClient(cmd') /\ verdict' # "None" => UNCHANGED <<book, ahead>>]_vars

\* No trade-through: when a client's call fills maker j, every order that was
\* served before j when the call began is gone when it ends.
NoTradeThrough ==
  [][\A i \in Resting, j \in DOMAIN fills' \intersect Resting :
       /\ ByClient(cmd')
       /\ book[i].side = book[j].side /\ Before(book, ahead, i, j)
       => i \notin DOMAIN book']_vars
=============================================================================
