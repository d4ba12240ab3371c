---------------------------- MODULE Reconstruct ----------------------------
(***************************************************************************)
(* Rebuilding an order book from its snapshots and the trades printed        *)
(* between them (reconstruct.hpp, reconstruct.cpp, loader.cpp), as operators. *)
(*                                                                          *)
(* A level is [tick, qty]; a snapshot is [time, bids, asks] with its levels  *)
(* best first; a trade is [time, tid, aggressor, tick, qty].  The            *)
(* Reconstructor is a record `r` whose book is the engine's book of module   *)
(* OrderBook, whose bids and asks are its own copy of it, and whose notes    *)
(* are what it told the event sink and the observer so far, in order.        *)
(***************************************************************************)
EXTENDS BookTypes, Sequences, SequencesExt, TLC

CONSTANTS
  WordBits,    \* bits in a word of the occupancy bitmap
  Depth,       \* kSnapDepth, the levels of a side a snapshot shows
  MaxWindow,   \* max_window_ms_, the longest time between two snapshots
  IdBase       \* 2^32, above every tick

Engine == INSTANCE OrderBook WITH bk <- 0, cmd <- 0, out <- 0, shadow <- 0

-----------------------------------------------------------------------------
(***************************************************************************)
(* Loading a day: whatever order its lines were written in.                  *)
(***************************************************************************)

\* A stable sort by time.
InTimeOrder(lines) ==
  LET before(i, j) == lines[i].time < lines[j].time \/ (lines[i].time = lines[j].time /\ i < j)
      order == SortSeq([i \in DOMAIN lines |-> i], before)
  IN [k \in DOMAIN lines |-> lines[order[k]]]

LoadSnapshots(lines) == InTimeOrder(lines)

\* The first line of each trade id counts.
LoadTrades(lines) ==
  LET fresh == {i \in DOMAIN lines : \A j \in 1 .. i - 1 : lines[j].tid # lines[i].tid}
      order == SetToSortSeq(fresh, <)
  IN InTimeOrder([k \in DOMAIN order |-> lines[order[k]]])

-----------------------------------------------------------------------------
(***************************************************************************)
(* The engine as the reconstruction drives it.                              *)
(***************************************************************************)

LevelId(side, tick) == (IF side = "Buy" THEN 1 ELSE 2) * IdBase + tick

\* MatchingEngine::apply.
Apply(b, c) ==
  CASE c.type = "AddLimit" ->
         Engine!AddLimitTo(Engine!Step(b, <<>>), c.id, c.side, c.tick, c.qty, c.tif)
    [] c.type = "Cancel"   -> Engine!CancelIn(b, c.id)
    [] c.type = "Modify"   -> Engine!ModifyIn(b, c.id, c.tick, c.qty)
    [] c.type = "Reduce"   -> Engine!ReduceIn(b, c.id, c.qty)
    [] c.type = "Execute"  -> Engine!ExecuteIn(b, c.id, c.qty)
    [] c.type = "Replace"  -> Engine!ReplaceIn(b, c.id, c.id2, c.tick, c.qty)

Add(side, lv) ==
  [type |-> "AddLimit", id |-> LevelId(side, lv.tick), side |-> side, tick |-> lv.tick,
   qty |-> lv.qty, tif |-> "Gtc"]
Drop(side, lv) == [type |-> "Cancel", id |-> LevelId(side, lv.tick)]
Resize(side, lv) ==
  [type |-> "Modify", id |-> LevelId(side, lv.tick), tick |-> lv.tick, qty |-> lv.qty]

\* The book moves on; the sink hears of the events of the call one by one.
Told(r, ts, done) ==
  [r EXCEPT !.book = done.b,
            !.notes = @ \o [k \in DOMAIN done.events |->
                              [kind |-> "event", ts |-> ts, event |-> done.events[k]]]]

\* A command at time ts.
Submit(r, ts, c) == Told(r, ts, Apply(r.book, c))

SubmitAll(r, ts, commands) == FoldLeft(LAMBDA q, c : Submit(q, ts, c), r, commands)

-----------------------------------------------------------------------------
(***************************************************************************)
(* The Reconstructor.                                                       *)
(***************************************************************************)

FreshReconstructor ==
  [book |-> Engine!FreshBook, bids |-> <<>>, asks |-> <<>>, started |-> FALSE, open |-> 0,
   taker_seq |-> 0, notes |-> <<>>,
   windows |-> 0, skipped |-> 0, mismatch |-> 0, unexpected |-> 0, no_liquidity |-> 0]

Own(r, side) == IF side = "Buy" THEN r.bids ELSE r.asks
Shown(s, side) == IF side = "Buy" THEN s.bids ELSE s.asks
BothSides == <<"Buy", "Sell">>

Seed(r, s) ==
  LET adds(side) == [k \in DOMAIN Shown(s, side) |-> Add(side, Shown(s, side)[k])] IN
  SubmitAll([r EXCEPT !.notes = Append(@, [kind |-> "reseed", ts |-> s.time]),
                      !.book = Engine!FreshBook, !.bids = s.bids, !.asks = s.asks],
            s.time, adds("Buy") \o adds("Sell"))

\* What a print leaves of the levels it can reach, best first.
Consume(levels, aggressor, limit, qty) ==
  FoldLeft(LAMBDA a, lv :
             LET take == IF Reaches(aggressor, limit, lv.tick) THEN Smaller(a.left, lv.qty) ELSE 0
             IN [left |-> a.left - take,
                 levels |-> IF take = lv.qty THEN a.levels
                            ELSE Append(a.levels, [lv EXCEPT !.qty = @ - take])],
           [left |-> qty, levels |-> <<>>], levels)

\* The observer is told first; the engine gets the print as an immediate order.
ApplyTrade(r, t) ==
  LET rest == Consume(Own(r, Opposite(t.aggressor)), t.aggressor, t.tick, t.qty)
      told == [r EXCEPT !.notes = Append(@, [kind |-> "print", ts |-> t.time, trade |-> t]),
                        !.bids = IF t.aggressor = "Sell" THEN rest.levels ELSE @,
                        !.asks = IF t.aggressor = "Buy" THEN rest.levels ELSE @,
                        !.no_liquidity = @ + (IF rest.left = t.qty THEN 1 ELSE 0),
                        !.taker_seq = @ + 1]
  IN Submit(told, t.time,
            [type |-> "AddLimit", id |-> told.taker_seq, side |-> t.aggressor, tick |-> t.tick,
             qty |-> t.qty, tif |-> "Ioc"])

HasLevel(levels, tick) == \E k \in DOMAIN levels : levels[k].tick = tick
LevelAt(levels, tick) == SelectSeq(levels, LAMBDA lv : lv.tick = tick)[1]

\* Everything that removes or shrinks liquidity, in the order of the own copy.
Removals(r, target, side) ==
  LET shown == Shown(target, side) IN
  FlattenSeq([k \in DOMAIN Own(r, side) |->
    LET c == Own(r, side)[k] IN
    IF ~HasLevel(shown, c.tick) THEN <<Drop(side, c)>>
    ELSE IF LevelAt(shown, c.tick).qty < c.qty THEN <<Resize(side, LevelAt(shown, c.tick))>>
    ELSE <<>>])

\* Everything that grows or adds it, in the order of the snapshot.
Growths(r, target, side) ==
  LET own == Own(r, side) IN
  FlattenSeq([k \in DOMAIN Shown(target, side) |->
    LET t == Shown(target, side)[k] IN
    IF ~HasLevel(own, t.tick) THEN <<Add(side, t)>>
    ELSE IF t.qty > LevelAt(own, t.tick).qty THEN <<Resize(side, t)>>
    ELSE <<>>])

\* Faulty variant: one side is finished before the other is begun.
ReconcileSideBySide(r, target) ==
  FlattenSeq([k \in 1 .. 2 |-> Removals(r, target, BothSides[k]) \o Growths(r, target, BothSides[k])])

ReconcileCommands(r, target) ==
  FlattenSeq([k \in 1 .. 2 |-> Removals(r, target, BothSides[k])])
    \o FlattenSeq([k \in 1 .. 2 |-> Growths(r, target, BothSides[k])])

Reconcile(r, target) ==
  [SubmitAll(r, target.time, ReconcileCommands(r, target))
     EXCEPT !.bids = target.bids, !.asks = target.asks]

\* Ranks at which a book and a snapshot differ, missing levels included.
Mismatch(b, s) ==
  FoldLeft(LAMBDA n, side :
             LET got == Engine!TopLevels(b, side, Depth)
                 want == Shown(s, side)
                 both == DOMAIN got \intersect DOMAIN want
             IN n + Cardinality((DOMAIN got \union DOMAIN want) \ both)
                  + Cardinality({k \in both : got[k].tick # want[k].tick \/ got[k].qty # want[k].qty}),
           0, BothSides)

Trades(notes) ==
  Cardinality({k \in DOMAIN notes : notes[k].kind = "event" /\ notes[k].event.kind = "trade"})

Opened(r, s) ==
  [r EXCEPT !.started = TRUE, !.open = s.time,
            !.notes = Append(@, [kind |-> "snapshot", ts |-> s.time, snapshot |-> s])]

IsGap(from, to) == to - from > MaxWindow

\* A window that ended as `end` is counted, with what it got wrong.
Counted(r, end, s) ==
  [end EXCEPT !.windows = @ + 1,
              !.mismatch = @ + Mismatch(end.book, s),
              !.unexpected = @ + Trades(end.notes) - Trades(r.notes)]

\* The first snapshot and one after a hole reseed; the others are reconciled to.
PushSnapshot(r, s) ==
  IF ~r.started THEN Opened(Seed(r, s), s)
  ELSE IF IsGap(r.open, s.time) THEN Opened([Seed(r, s) EXCEPT !.skipped = @ + 1], s)
  ELSE Opened(Counted(r, Reconcile(r, s), s), s)

PushTrade(r, t) == IF r.started THEN ApplyTrade(r, t) ELSE r

-----------------------------------------------------------------------------
(***************************************************************************)
(* run(), one call of push_snapshot or push_trade at a time: next_snap and   *)
(* next_trade are the positions the loop has reached in the loaded day.      *)
(***************************************************************************)

\* The trade the loop takes next, before it pushes the next snapshot.
TradeDue(day) ==
  /\ day.next_snap <= Len(day.snaps) /\ day.next_trade <= Len(day.trades)
  /\ day.trades[day.next_trade].time <= day.snaps[day.next_snap].time

\* Prints before the first snapshot and prints inside a hole are dropped.
TradeIsDropped(day) ==
  \/ day.next_snap = 1
  \/ IsGap(day.snaps[day.next_snap - 1].time, day.snaps[day.next_snap].time)
=============================================================================
