------------------------------ MODULE TapeStudy ------------------------------
(***************************************************************************)
(* The tools that study a recorded market, as operators: the samples for the  *)
(* queue model (features.hpp, dataset.hpp, mlgen.cpp), the markouts of each    *)
(* wallet (wallets.cpp) and of the average maker (sim_main.cpp).              *)
(*                                                                          *)
(* Prices of a mid are twice the mid.  A feature is what goes into its formula  *)
(* (log1p, tanh and the like), for formulas over several the parts of it.     *)
(***************************************************************************)
EXTENDS Reconstruct

CONSTANTS
  BucketEdges,     \* kBucketEdges
  HorizonBinary,   \* --horizon
  Stride,          \* --stride
  MinMids,         \* mids a sample needs before it, 8 in the code
  MidsKept,        \* 64 in the code
  WalletHorizons,  \* 5 s, 30 s and 300 s
  TapeHorizons,    \* those and 1 s and 60 s
  Bps,             \* 10000 in the code; here a multiple of twice every tick
  DayLength        \* milliseconds in a day

-----------------------------------------------------------------------------
(***************************************************************************)
(* TimeEwma.  A decayed sum is kept by the age of what was added to it: every   *)
(* half life decays the same ages.                                           *)
(***************************************************************************)

Aged(sum, dt) == [age \in {a + dt : a \in DOMAIN sum} |-> sum[age - dt]]

Plus(sum, age, v) ==
  [a \in DOMAIN sum \union {age} |->
     (IF a \in DOMAIN sum THEN sum[a] ELSE 0) + (IF a = age THEN v ELSE 0)]

FreshEwma == [sum |-> <<>>, ts |-> 0, have |-> FALSE]

ValueAt(e, ts) == IF e.have /\ ts > e.ts THEN Aged(e.sum, ts - e.ts) ELSE e.sum

AddAt(e, ts, v) == [sum |-> Plus(ValueAt(e, ts), 0, v), ts |-> ts, have |-> TRUE]

-----------------------------------------------------------------------------
(***************************************************************************)
(* MarketState.                                                             *)
(***************************************************************************)

NoSnapshot == [time |-> -1, bids |-> <<>>, asks |-> <<>>]

FreshState ==
  [vol |-> [side \in Sides |-> FreshEwma], ofi |-> FreshEwma, arrivals |-> FreshEwma,
   snap |-> NoSnapshot, moves |-> <<>>, mids |-> <<>>]

TwoSided(s) == s.bids # <<>> /\ s.asks # <<>>

MidOf(s) == s.bids[1].tick + s.asks[1].tick

Sign(side) == IF side = "Buy" THEN 1 ELSE -1

\* var_ decays one move at a time: moves are what it was made of.
OnSnapshot(st, s) ==
  IF ~TwoSided(s) THEN st
  ELSE LET mids == Append(st.mids, MidOf(s)) IN
       [st EXCEPT !.snap = s,
                  !.moves = IF st.mids = <<>> THEN @ ELSE Append(@, MidOf(s) - Last(st.mids)),
                  !.mids = IF Len(mids) > MidsKept THEN Tail(mids) ELSE mids]

OnPrint(st, t) ==
  [st EXCEPT !.vol[t.aggressor] = AddAt(@, t.time, t.qty),
             !.ofi = AddAt(@, t.time, Sign(t.aggressor) * t.qty),
             !.arrivals = AddAt(@, t.time, 1)]

StateReady(st) == st.snap # NoSnapshot /\ st.moves # <<>> /\ Len(st.mids) >= MinMids

MidDrift(st, back) ==
  IF Len(st.mids) <= back THEN 0 ELSE Last(st.mids) - st.mids[Len(st.mids) - back]

\* base_features, of a level on a side and a queue of q in front.
BaseFeatures(st, side, offset, lv, q, ts) ==
  LET same == Shown(st.snap, side)
      opp  == Shown(st.snap, Opposite(side))
      top(levels, n) == FoldLeft(LAMBDA sum, l : sum + l.qty, 0,
                                 SubSeq(levels, 1, Smaller(n, Len(levels))))
      ofi == ValueAt(st.ofi, ts)
  IN [level |-> lv.qty, offset |-> offset, q |-> q, side |-> side,
      spread |-> st.snap.asks[1].tick - st.snap.bids[1].tick,
      top1 |-> <<top(same, 1), top(opp, 1)>>, top5 |-> <<top(same, 5), top(opp, 5)>>,
      away |-> (2 * lv.tick - Last(st.mids)) * Sign(side),
      consuming |-> ValueAt(st.vol[Opposite(side)], ts),
      alongside |-> ValueAt(st.vol[side], ts),
      ofi |-> [age \in DOMAIN ofi |-> ofi[age] * Sign(side)],
      arrivals |-> ValueAt(st.arrivals, ts),
      moves |-> st.moves, drift |-> MidDrift(st, 1) * Sign(side), trend |-> MidDrift(st, 6) * Sign(side),
      tod |-> ts % DayLength]

-----------------------------------------------------------------------------
(***************************************************************************)
(* mlgen.                                                                   *)
(***************************************************************************)

Censored == 255

BucketOf(dt) ==
  LET fits == {i \in DOMAIN BucketEdges : dt <= BucketEdges[i]} IN
  IF fits = {} THEN Censored ELSE Min(fits) - 1

Horizon == Last(BucketEdges)

\* Quarters of the level that a sample has in front of it.
Fractions == <<1, 2, 4>>

Through(side, t, tick) == IF side = "Buy" THEN t.tick < tick ELSE t.tick > tick

Unreached == -1

\* The tape after a snapshot, up to the horizon or a print through the level: what
\* traded at the level and when each fraction of it had.
Scan(trades, s, side, lv) ==
  LET read(r, t) ==
        LET dt == t.time - s.time
            all == r.consumed + t.qty
        IN IF r.done \/ dt > Horizon THEN [r EXCEPT !.done = TRUE]
           ELSE IF t.aggressor = side THEN r
           ELSE IF Through(side, t, lv.tick) THEN [r EXCEPT !.done = TRUE, !.swept_at = dt]
           ELSE IF t.tick # lv.tick THEN r
           ELSE [r EXCEPT !.consumed = all,
                          !.binary = IF dt <= HorizonBinary THEN all ELSE @,
                          !.reach = [f \in DOMAIN Fractions |->
                             IF @[f] = Unreached /\ 4 * all >= Fractions[f] * lv.qty THEN dt ELSE @[f]]]
  IN FoldLeft(read, [done |-> FALSE, consumed |-> 0, binary |-> 0, swept_at |-> Unreached,
                     reach |-> [f \in DOMAIN Fractions |-> Unreached]], trades)

\* The row of a fraction; what was not reached before a sweep is reached by it.
RowOf(st, s, side, offset, lv, scan, f) ==
  LET swept   == scan.swept_at # Unreached
      reached == IF scan.reach[f] = Unreached THEN scan.swept_at ELSE scan.reach[f]
  IN [ts |-> s.time, side |-> side, offset |-> offset, fraction |-> Fractions[f], tick |-> lv.tick,
      clear_bucket |-> IF reached = Unreached THEN Censored ELSE BucketOf(reached),
      consumed |-> IF swept THEN 4 * lv.qty ELSE scan.consumed,
      label |-> IF \/ swept /\ scan.swept_at <= HorizonBinary
                   \/ 4 * scan.binary >= Fractions[f] * lv.qty
                  THEN 1 ELSE 0,
      base |-> BaseFeatures(st, side, offset, lv, Fractions[f] * lv.qty, s.time)]

\* Both sides, the touch and the level behind it, every fraction.
RowsAt(st, s, later) ==
  FlattenSeq([n \in 1 .. 4 |->
    LET side   == BothSides[1 + ((n - 1) \div 2)]
        offset == (n - 1) % 2
        lv     == Shown(s, side)[offset + 1]
        scan   == Scan(later, s, side, lv)
    IN IF lv.qty <= 0 THEN <<>>
       ELSE [f \in DOMAIN Fractions |-> RowOf(st, s, side, offset, lv, scan, f)]])

NoSampling == [day |-> 0, snaps |-> <<>>, trades |-> <<>>, ti |-> 1, si |-> 1,
               state |-> FreshState, rows |-> <<>>]

\* A day with fewer than two snapshots is left out; rows go on from day to day.
SampleDay(ml, day) ==
  LET snaps == LoadSnapshots(day.book) IN
  IF Len(snaps) < 2 THEN [ml EXCEPT !.day = @ + 1]
  ELSE [NoSampling EXCEPT !.day = ml.day + 1, !.snaps = snaps, !.trades = LoadTrades(day.trades),
                          !.rows = ml.rows]

\* Faulty variant: a print at the very time of the snapshot counts as after it.
FedBefore(ml, s) == {k \in ml.ti .. Len(ml.trades) : ml.trades[k].time < s.time}

\* The trades fed into the state before a snapshot's sample.
Fed(ml, s) == {k \in ml.ti .. Len(ml.trades) : ml.trades[k].time <= s.time}

\* One turn of the loop over a day's snapshots.  A sample needs the whole horizon
\* after it; the first that has not ends the day.
SampleNext(ml) ==
  LET s     == ml.snaps[ml.si]
      ti    == ml.ti + Cardinality(Fed(ml, s))
      state == OnSnapshot(FoldLeft(OnPrint, ml.state, SubSeq(ml.trades, ml.ti, ti - 1)), s)
      next  == [ml EXCEPT !.ti = ti, !.si = @ + 1, !.state = state]
  IN IF \/ ~StateReady(state) \/ (ml.si - 1) % Stride # 0
        \/ Len(s.bids) < 2 \/ Len(s.asks) < 2
       THEN next
     ELSE IF s.time + Horizon > Last(ml.snaps).time THEN [next EXCEPT !.si = Len(ml.snaps) + 1]
     ELSE LET rows == RowsAt(state, s, SubSeq(ml.trades, ti, Len(ml.trades))) IN
          [next EXCEPT !.rows = @ \o [k \in DOMAIN rows |-> rows[k] @@ [day |-> ml.day]]]

-----------------------------------------------------------------------------
(***************************************************************************)
(* Markouts: where the mid was some time after a print, against its price.   *)
(***************************************************************************)

MidSeries(snaps) == SelectSeq(snaps, TwoSided)

\* The first mid at time or later, 0 when the day ends before.
MidAt(mids, time) ==
  LET later == {k \in DOMAIN mids : mids[k].time >= time} IN
  IF later = {} THEN 0 ELSE MidOf(mids[Min(later)])

\* At each horizon, or none at all when one of them is past the end of the day.
Markouts(mids, t, horizons, sign) ==
  LET mid(h) == MidAt(mids, t.time + horizons[h]) IN
  IF \E h \in DOMAIN horizons : mid(h) = 0 THEN <<>>
  ELSE [h \in DOMAIN horizons |-> sign * (((mid(h) - 2 * t.tick) * Bps) \div (2 * t.tick))]

NewAgg == [prints |-> 0, qty |-> 0, scored |-> 0, scored_qty |-> 0, w_mo |-> <<0, 0, 0>>,
           buy_scored |-> 0, buy_qty |-> 0, buy_w_mo30 |-> 0]

Scored(agg, t, mo, sign) ==
  LET buys == IF t.aggressor = "Buy" THEN 1 ELSE 0 IN
  [agg EXCEPT !.scored = @ + 1, !.scored_qty = @ + t.qty,
              !.w_mo = [h \in 1 .. 3 |-> @[h] + sign * mo[h] * t.qty],
              !.buy_scored = @ + buys, !.buy_qty = @ + buys * t.qty,
              !.buy_w_mo30 = @ + buys * sign * mo[2] * t.qty]

\* Faulty variant: the maker's side is that of a print the aggressor bought.
TallyBought(agg, t, mo, sign) ==
  LET counted == [agg EXCEPT !.prints = @ + 1, !.qty = @ + t.qty] IN
  IF mo = <<>> THEN counted
  ELSE Scored(counted, t, mo, IF t.aggressor = "Buy" THEN sign ELSE 1)

\* A print in the account of one of its two wallets; sign is -1 in the maker's.
Tally(agg, t, mo, sign) ==
  LET counted == [agg EXCEPT !.prints = @ + 1, !.qty = @ + t.qty] IN
  IF mo = <<>> THEN counted ELSE Scored(counted, t, mo, sign)

InAccount(aggs, w, t, mo, sign) ==
  (w :> Tally(IF w \in DOMAIN aggs THEN aggs[w] ELSE NewAgg, t, mo, sign)) @@ aggs

\* The rows a day adds: what each wallet did as aggressor and as maker, of those
\* with a print that was scored.  The lines are read as they are in the file.
WalletRows(day) ==
  LET snaps == LoadSnapshots(day.book)
      mids  == MidSeries(snaps)
      read(a, t) ==
        LET mo == Markouts(mids, t, WalletHorizons, Sign(t.aggressor))
            taker == IF t.aggressor = "Buy" THEN t.buyer ELSE t.seller
            maker == IF t.aggressor = "Buy" THEN t.seller ELSE t.buyer
        IN [aggressor |-> InAccount(a.aggressor, taker, t, mo, 1),
            maker     |-> InAccount(a.maker, maker, t, mo, -1)]
      all == FoldLeft(read, [aggressor |-> <<>>, maker |-> <<>>], day.trades)
      scored(aggs) == Restrict(aggs, {w \in DOMAIN aggs : aggs[w].scored > 0})
  IN IF Len(snaps) < 2 \/ Len(mids) < 2 THEN [aggressor |-> <<>>, maker |-> <<>>]
     ELSE [aggressor |-> scored(all.aggressor), maker |-> scored(all.maker)]

\* tape_markout: every print is a fill of whoever was resting.
TapeMarkout(days) ==
  LET one(a, mids, t) ==
        LET v == Markouts(mids, t, TapeHorizons, -Sign(t.aggressor)) IN
        IF v = <<>> THEN a
        ELSE [n |-> a.n + 1, w_total |-> a.w_total + t.qty,
              wsum |-> [h \in DOMAIN v |-> a.wsum[h] + v[h] * t.qty]]
      of(a, day) ==
        LET snaps == LoadSnapshots(day.book) IN
        IF Len(snaps) < 2 THEN a
        ELSE FoldLeft(LAMBDA b, t : one(b, MidSeries(snaps), t), a, LoadTrades(day.trades))
  IN FoldLeft(of, [n |-> 0, w_total |-> 0, wsum |-> [h \in DOMAIN TapeHorizons |-> 0]], days)
=============================================================================
