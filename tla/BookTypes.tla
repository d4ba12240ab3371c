----------------------------- MODULE BookTypes -----------------------------
(***************************************************************************)
(* Vocabulary shared by the abstract book (PriceTime) and the pointer-level *)
(* one (OrderBook): sides, times in force, verdicts, the price range and    *)
(* what a caller may ask for.                                               *)
(***************************************************************************)
EXTENDS Integers, FiniteSets

CONSTANTS
  Ids,        \* order ids a caller may use for a live order
  NoOrder,    \* kNoOrder, the id 0 that no live order may carry
  MinTick,    \* BookConfig::min_tick
  MaxTick,    \* BookConfig::max_tick
  PoolSize,   \* BookConfig::max_orders
  InTicks,    \* prices a caller asks for, some of them out of range
  InQty       \* quantities a caller asks for, zero among them

ASSUME BookAssumption ==
  /\ NoOrder \notin Ids
  /\ MinTick \in Int /\ MaxTick \in Int /\ MinTick <= MaxTick
  /\ PoolSize \in Nat
  /\ InTicks \subseteq Int
  /\ InQty \subseteq Int

Sides == {"Buy", "Sell"}

Opposite(side) == IF side = "Buy" THEN "Sell" ELSE "Buy"

Tifs == {"Gtc", "Ioc", "Fok"}

Rejects == {"BadQty", "PriceOutOfRange", "DuplicateId", "PoolExhausted",
            "FokUnfillable", "UnknownId"}

Verdicts == Rejects \union {"None"}

AnyId == Ids \union {NoOrder}

\* The requests a book is given: struct Command with the fields its type uses.
Commands ==
  [type : {"AddLimit"}, id : AnyId, side : Sides, tick : InTicks, qty : InQty, tif : Tifs]
    \union [type : {"AddMarket"}, id : Ids, side : Sides, qty : InQty]
    \union [type : {"Cancel"}, id : Ids]
    \union [type : {"Modify"}, id : Ids, tick : InTicks, qty : InQty]
    \union [type : {"Reduce", "Execute"}, id : Ids, qty : InQty]
    \union [type : {"Replace"}, id : Ids, id2 : AnyId, tick : InTicks, qty : InQty]

\* clear() is called on the book itself.
ClearCall == [type |-> "Clear"]

\* Reduce, Execute and Replace are what a market data feed reports that an
\* exchange did; the others are what a client asks for.
ByClient(c) == c.type \in {"AddLimit", "AddMarket", "Cancel", "Modify"}

Ticks == MinTick .. MaxTick

Quantities == Nat \ {0}

\* An order limited to `limit` may trade with a maker resting at `tick`.
Reaches(side, limit, tick) ==
  IF side = "Buy" THEN tick <= limit ELSE tick >= limit

\* For a taker on `side`, price a is strictly better than price b.
Better(side, a, b) == IF side = "Buy" THEN a < b ELSE a > b

\* The limit add_market gives a market order: the far end of the range.
FarTick(side) == IF side = "Buy" THEN MaxTick ELSE MinTick

Smaller(a, b) == IF a < b THEN a ELSE b
=============================================================================
