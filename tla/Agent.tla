------------------------------- MODULE Agent -------------------------------
(***************************************************************************)
(* The market making agent (agent.hpp) and the queue model of its fills       *)
(* (fill_model.hpp), driven by a replay as SimObserver (sim_main.cpp) and      *)
(* LiveObserver (liveshadow.cpp) drive it: every snapshot and every print,     *)
(* with the book as it stands, and a forced close at the end of a day.         *)
(*                                                                          *)
(* What the agent decides takes effect Latency later, at the first event      *)
(* after that.  The prices its formula asks for, and what its gate refuses,   *)
(* are floating point arithmetic over the past: any pair of prices, bid       *)
(* below ask, and any set of refusals.  Cash, fees and statistics are left     *)
(* out.  Times, prices and sizes are integers.                               *)
(***************************************************************************)
EXTENDS Integers, Sequences, FiniteSets, SequencesExt

CONSTANTS
  Ticks,         \* prices a level may have, all positive
  Books,         \* books a snapshot may show, a signed size for each price
  PrintSizes,    \* sizes of prints
  ModelPrices,   \* bid and ask the formula may ask for
  Refusals,      \* what the gate may refuse, sets of a side and a price
  QuoteSize,     \* quote_size
  MaxInventory,  \* max_inventory
  Latency,       \* latency_us
  Offset,        \* offset_ticks
  Requote,       \* requote_ticks
  Kappa,         \* kappa, 0 or 1
  SweepRule,     \* "Through" or "Queue"
  MaxStep,       \* bound: time between two events
  MaxPending     \* bound: decisions on their way

ASSUME AgentAssumption ==
  /\ IsFiniteSet(Ticks) /\ Ticks \subseteq Nat \ {0}
  /\ Books \subseteq [Ticks -> Int]
  /\ PrintSizes \subseteq Nat \ {0}
  /\ ModelPrices \subseteq [bid : Int, ask : Int] /\ \A p \in ModelPrices : p.bid < p.ask
  /\ QuoteSize \in Nat \ {0} /\ MaxInventory \in Nat \ {0} /\ Latency \in Nat
  /\ Offset \in Nat /\ Requote \in Nat
  /\ Kappa \in {0, 1} /\ SweepRule \in {"Through", "Queue"}
  /\ MaxStep \in Nat /\ MaxPending \in Nat

VARIABLES
  now,     \* time of the last event
  book,    \* the reconstructed book: positive sizes are bids, negative ones asks
  ag,      \* the agent
  open,    \* a day is being replayed
  event,   \* the last event the agent was told of, "none" when it was not
  since    \* history: when the inventory came to each limit it is still at

vars == <<now, book, ag, open, event, since>>

NoTick == 0    \* kInvalidTick: do not quote this side
Never == -1

Sides == {"Buy", "Sell"}

Least(a, b) == IF a < b THEN a ELSE b
Most(a, b) == IF a > b THEN a ELSE b
Abs(x) == IF x < 0 THEN -x ELSE x

-----------------------------------------------------------------------------
(***************************************************************************)
(* The book the observer is shown.                                          *)
(***************************************************************************)

Resting(b, side) == {t \in Ticks : IF side = "Buy" THEN b[t] > 0 ELSE b[t] < 0}

HasBoth(b) == Resting(b, "Buy") # {} /\ Resting(b, "Sell") # {}

BestOf(b, side) ==
  CHOOSE t \in Resting(b, side) :
    \A u \in Resting(b, side) : IF side = "Buy" THEN u <= t ELSE t <= u

\* qty_at, of whichever side rests there; 0 outside the book's prices, where NoTick is.
QtyAt(b, tick) == IF tick \in Ticks THEN Abs(b[tick]) ELSE 0

\* A print takes from the other side, best price first, up to its own price.
AfterPrint(b, aggressor, tick, qty) ==
  LET hit == {t \in Resting(b, IF aggressor = "Buy" THEN "Sell" ELSE "Buy") :
                IF aggressor = "Buy" THEN t <= tick ELSE tick <= t}
      before(t) == MapThenSumSet(LAMBDA u : Abs(b[u]),
                                 {u \in hit : IF aggressor = "Buy" THEN u < t ELSE t < u})
      left(t) == Abs(b[t]) - Least(Abs(b[t]), Most(0, qty - before(t)))
  IN [t \in Ticks |-> IF t \notin hit THEN b[t] ELSE IF b[t] > 0 THEN left(t) ELSE -left(t)]

-----------------------------------------------------------------------------
(***************************************************************************)
(* The fill model.  A quote that is not live is blank.  `paid` is a history:   *)
(* the volume that printed at or through its price since it joined, and what   *)
(* was taken off its queue for cancellations.                                *)
(***************************************************************************)

NoQuote == [live |-> FALSE, tick |-> NoTick, remaining |-> 0, queue_ahead |-> 0,
            level_at_join |-> 0, level_at_last_snapshot |-> 0, traded |-> 0, paid |-> 0]

\* Everything resting at the price when the order arrives is ahead of it.
NewQuote(tick, level_size) ==
  [live |-> TRUE, tick |-> tick, remaining |-> QuoteSize, queue_ahead |-> level_size,
   level_at_join |-> level_size, level_at_last_snapshot |-> level_size, traded |-> 0, paid |-> 0]

\* The print is on the quote's other side, and at its price or through it.
Through(q, side, tick) == IF side = "Buy" THEN tick < q.tick ELSE tick > q.tick
Touches(q, side, aggressor, tick) ==
  q.live /\ aggressor # side /\ (Through(q, side, tick) \/ tick = q.tick)

\* Faulty variant: what ate the queue also fills the order.
ApplyPrintTwice(q, side, aggressor, tick, qty) ==
  LET eat  == Least(qty, q.queue_ahead)
      fill == Least(qty, q.remaining)
  IN IF ~Touches(q, side, aggressor, tick) THEN q
     ELSE [q EXCEPT !.queue_ahead = @ - eat, !.remaining = @ - fill, !.paid = @ + qty,
                    !.traded = @ + (IF Through(q, side, tick) THEN 0 ELSE qty)]

\* apply_print: what it filled is what `remaining` lost.
ApplyPrint(q, side, aggressor, tick, qty) ==
  LET eat  == Least(qty, q.queue_ahead)
      fill == Least(qty - eat, q.remaining)
  IN IF ~Touches(q, side, aggressor, tick) THEN q
     ELSE IF Through(q, side, tick) /\ SweepRule = "Through"
       THEN [q EXCEPT !.remaining = 0, !.queue_ahead = 0]
     ELSE [q EXCEPT !.queue_ahead = @ - eat, !.remaining = @ - fill, !.paid = @ + qty,
                    !.traded = @ + (IF Through(q, side, tick) THEN 0 ELSE qty)]

\* apply_snapshot_decay: the part of the level that left without trading.
ApplySnapshotDecay(q, level_size) ==
  LET prev   == q.level_at_last_snapshot
      shrink == prev - q.traded - level_size
      off    == IF prev > 0 /\ q.queue_ahead > 0 /\ shrink > 0
                  THEN Least(q.queue_ahead, (Kappa * q.queue_ahead * shrink) \div prev) ELSE 0
  IN IF ~q.live THEN q
     ELSE [q EXCEPT !.queue_ahead = @ - off, !.paid = @ + off,
                    !.level_at_last_snapshot = level_size, !.traded = 0]

-----------------------------------------------------------------------------
(***************************************************************************)
(* The agent.                                                               *)
(***************************************************************************)

FreshAgent == [bid |-> NoQuote, ask |-> NoQuote, pending |-> <<>>, inv |-> 0,
               best_bid |-> NoTick, best_ask |-> NoTick]

\* place, with what the gate refuses at this event.
Place(q, side, tick, level_size, refused) ==
  IF tick = NoTick THEN NoQuote
  ELSE IF q.live /\ q.tick = tick THEN q
  ELSE IF <<side, tick>> \in refused THEN NoQuote
  ELSE NewQuote(tick, level_size)

\* Decisions at the front whose time has come.
Due(a, ts) == {n \in DOMAIN a.pending : \A m \in 1 .. n : a.pending[m].effective <= ts}

TakeEffect(a, d, bid_size, ask_size, refused) ==
  [a EXCEPT !.bid = Place(@, "Buy", d.bid, bid_size, refused),
            !.ask = Place(@, "Sell", d.ask, ask_size, refused)]

\* Faulty variant: one decision an event.
ActivateOne(a, ts, bid_size, ask_size, refused) ==
  IF Due(a, ts) = {} THEN a
  ELSE TakeEffect([a EXCEPT !.pending = Tail(@)], a.pending[1], bid_size, ask_size, refused)

\* The sizes are those of the best levels, whatever price is decided on.
Activate(a, ts, bid_size, ask_size, refused) ==
  LET n == Cardinality(Due(a, ts)) IN
  FoldLeft(LAMBDA x, d : TakeEffect(x, d, bid_size, ask_size, refused),
           [a EXCEPT !.pending = SubSeq(@, n + 1, Len(@))], SubSeq(a.pending, 1, n))

\* An existing quote is held when it is close enough and safe to leave resting.
Hold(q, want, safe) == IF q.live /\ safe /\ Abs(q.tick - want) <= Requote THEN q.tick ELSE want

\* Faulty variant: the limit stops the agent once it is past it.
WantBidPastLimit(a, model_bid) ==
  IF a.inv > MaxInventory THEN NoTick
  ELSE Hold(a.bid, Least(model_bid, a.best_bid - Offset), a.bid.tick < a.best_ask)

\* At the touch or behind it; nothing that adds to a position at the limit.
WantBid(a, model_bid) ==
  IF a.inv >= MaxInventory THEN NoTick
  ELSE Hold(a.bid, Least(model_bid, a.best_bid - Offset), a.bid.tick < a.best_ask)
WantAsk(a, model_ask) ==
  IF a.inv <= -MaxInventory THEN NoTick
  ELSE Hold(a.ask, Most(model_ask, a.best_ask + Offset), a.ask.tick > a.best_bid)

\* What is already wanted is not decided again.
Decide(a, ts, model) ==
  LET bid == WantBid(a, model.bid)
      ask == WantAsk(a, model.ask)
      had == IF a.pending # <<>> THEN [bid |-> Last(a.pending).bid, ask |-> Last(a.pending).ask]
             ELSE [bid |-> a.bid.tick, ask |-> a.ask.tick]
  IN IF a.best_bid = NoTick \/ had = [bid |-> bid, ask |-> ask] THEN a
     ELSE [a EXCEPT !.pending = Append(@, [effective |-> ts + Latency, bid |-> bid, ask |-> ask])]

\* The sizes at the agent's own prices are read before its decisions take effect.
OnSnapshot(a, ts, b, model, refused) ==
  LET bb     == BestOf(b, "Buy")
      ba     == BestOf(b, "Sell")
      placed == Activate(a, ts, QtyAt(b, bb), QtyAt(b, ba), refused)
  IN Decide([placed EXCEPT !.bid = ApplySnapshotDecay(@, QtyAt(b, a.bid.tick)),
                           !.ask = ApplySnapshotDecay(@, QtyAt(b, a.ask.tick)),
                           !.best_bid = bb, !.best_ask = ba],
            ts, model)

Spent(q) == IF q.live /\ q.remaining = 0 THEN NoQuote ELSE q

OnPrint(a, ts, b, aggressor, tick, qty, model, refused) ==
  LET placed == Activate(a, ts, QtyAt(b, BestOf(b, "Buy")), QtyAt(b, BestOf(b, "Sell")), refused)
      bid    == ApplyPrint(placed.bid, "Buy", aggressor, tick, qty)
      ask    == ApplyPrint(placed.ask, "Sell", aggressor, tick, qty)
      filled == (placed.bid.remaining - bid.remaining) - (placed.ask.remaining - ask.remaining)
  IN Decide([placed EXCEPT !.bid = Spent(bid), !.ask = Spent(ask), !.inv = @ + filled], ts, model)

\* A flat agent is left as it is.
Flatten(a) ==
  IF a.inv = 0 THEN a
  ELSE [a EXCEPT !.inv = 0, !.bid = NoQuote, !.ask = NoQuote, !.pending = <<>>]

-----------------------------------------------------------------------------
(***************************************************************************)
(* The replay.                                                              *)
(***************************************************************************)

\* The clock of the feed, and what the agent has become at it.
At(ts, a, kind) ==
  LET kept(full, before) == IF ~full THEN Never ELSE IF before # Never THEN before ELSE ts IN
  /\ now' = ts /\ ag' = a /\ event' = kind
  /\ since' = [Buy  |-> kept(a.inv >= MaxInventory, since.Buy),
               Sell |-> kept(a.inv <= -MaxInventory, since.Sell)]

\* The observer passes over a book with an empty side.
Snapshot(ts, b, model, refused) ==
  /\ open
  /\ book' = b
  /\ IF HasBoth(b) THEN At(ts, OnSnapshot(ag, ts, b, model, refused), "snapshot")
     ELSE At(ts, ag, "none")
  /\ UNCHANGED open

\* The observer is told before the book has changed.
TapePrint(ts, aggressor, tick, qty, model, refused) ==
  /\ open
  /\ book' = AfterPrint(book, aggressor, tick, qty)
  /\ IF HasBoth(book)
       THEN At(ts, OnPrint(ag, ts, book, aggressor, tick, qty, model, refused), "print")
     ELSE At(ts, ag, "none")
  /\ UNCHANGED open

\* Out at the touch, when the day ever showed one; the next day has a new agent.
EndDay ==
  /\ open /\ open' = FALSE
  /\ At(now, IF ag.best_bid # NoTick THEN Flatten(ag) ELSE ag, "none")
  /\ UNCHANGED book

NewDay ==
  /\ ~open /\ open' = TRUE
  /\ book' = [t \in Ticks |-> 0]
  /\ At(now, FreshAgent, "none")

Init ==
  /\ now = 0 /\ book = [t \in Ticks |-> 0] /\ ag = FreshAgent
  /\ open = TRUE /\ event = "none" /\ since = [Buy |-> Never, Sell |-> Never]

Next ==
  \/ /\ Len(ag.pending) < MaxPending
     /\ \E ts \in now .. now + MaxStep, model \in ModelPrices, refused \in Refusals :
          \/ \E b \in Books : Snapshot(ts, b, model, refused)
          \/ \E aggressor \in Sides, tick \in Ticks, qty \in PrintSizes :
               TapePrint(ts, aggressor, tick, qty, model, refused)
  \/ EndDay
  \/ NewDay

Spec == Init /\ [][Next]_vars

-----------------------------------------------------------------------------
(***************************************************************************)
(* What the agent promises.                                                 *)
(***************************************************************************)

Quote(a, side) == IF side = "Buy" THEN a.bid ELSE a.ask
Position(a, side) == IF side = "Buy" THEN a.inv ELSE -a.inv

\* The most a side could still add to the position: what rests, and what each
\* decision on its way could put in its place.
Exposure(a, side) ==
  Position(a, side) + Quote(a, side).remaining
    + QuoteSize * Cardinality({n \in DOMAIN a.pending :
                      (IF side = "Buy" THEN a.pending[n].bid ELSE a.pending[n].ask) # NoTick})

\* agent.hpp:277, "Stop adding to a position that is already at the limit": from
\* the event that reaches the limit on, what is resting and what is on its way
\* is all that can be added, through every requote, partial fill and refusal.
LimitStopsExposure ==
  [][\A side \in Sides :
       Position(ag, side) >= MaxInventory /\ Position(ag', side) >= MaxInventory =>
         Exposure(ag', side) <= Exposure(ag, side)]_vars

\* A side at its limit is out of the book at the first event a latency later,
\* however many decisions were on their way before the one that pulls it.
PullTakesEffect ==
  [][\A side \in Sides :
       event' # "none" /\ since[side] # Never /\ now' >= since[side] + Latency =>
         ~Quote(ag', side).live]_vars

\* A unit of the tape does one thing (fill_model.hpp:85): what a resting order has
\* gained, in the queue or in fills, is what printed at its price or through it and
\* what was taken off for cancellations, nothing twice.
Earned(q) ==
  q.live => /\ q.paid = (q.level_at_join - q.queue_ahead) + (QuoteSize - q.remaining)
            /\ q.queue_ahead > 0 => q.remaining = QuoteSize

FillsAreEarned == \A side \in Sides : Earned(Quote(ag, side))

\* agent.hpp:249, "Everything resting at the price when the order arrives is ahead
\* of it", and fill_model.hpp:22, additions "never reduce queue_ahead": an order
\* placed at a snapshot starts behind all of the level it joins.
FreshQuoteIsLast ==
  [][\A side \in Sides :
       LET before == Quote(ag, side)
           q      == Quote(ag', side)
       IN event' = "snapshot" /\ q.live /\ (~before.live \/ before.tick # q.tick) =>
            q.queue_ahead = q.level_at_join]_vars
=============================================================================
