---------------------------- MODULE MC_Pipeline ----------------------------
(***************************************************************************)
(* Three prices, sizes of one and two shares.  Days of two snapshots from    *)
(* every pair of a few books with every print between them; days with a      *)
(* hole, an early print, lines out of order and a trade reported twice, days  *)
(* of one snapshot, two days in a row and two symbols in hand-picked         *)
(* markets, which the journal is kept of and every crash tried on.           *)
(***************************************************************************)
EXTENDS Pipeline

MCTicks == 1 .. 3

\* Positive sizes are bids, negative ones asks.
Side(q) == IF q > 0 THEN "Buy" ELSE "Sell"
Size(q) == IF q > 0 THEN q ELSE -q

Snapshot(time, q) ==
  LET at(side) == {t \in MCTicks : q[t] # 0 /\ Side(q[t]) = side}
      levels(order) == [k \in DOMAIN order |-> [tick |-> order[k], qty |-> Size(q[order[k]])]]
  IN [time |-> time, bids |-> levels(SetToSortSeq(at("Buy"), >)),
                     asks |-> levels(SetToSortSeq(at("Sell"), <))]

\* No bid stands above an ask.
Books(sizes) ==
  {q \in [MCTicks -> {0} \union sizes \union {-s : s \in sizes}] :
     \A i, j \in MCTicks : i < j => ~(q[i] < 0 /\ q[j] > 0)}

Trade(time, tid, aggressor, tick, qty) ==
  [time |-> time, tid |-> tid, aggressor |-> aggressor, tick |-> tick, qty |-> qty]

OneDay(lines, trades) == <<[book |-> lines, trades |-> trades]>>

Checked(days) == [symbols |-> 1, readers |-> {"check"}, days |-> days]

Pairs ==
  {Checked(OneDay(<<Snapshot(8, p), Snapshot(11, q)>>, tape)) :
     p \in {<<2, 4, -4>>, <<4, -2, -4>>}, q \in Books({2}) \union Books({4}),
     tape \in {<<>>} \union {<<Trade(11, 1, side, tick, qty)>> :
                               side \in Sides, tick \in MCTicks, qty \in {2, 8}}}

\* A hole of five, a print inside it, one before the day and one after it, two
\* lines the wrong way round and a trade written twice.
Holes ==
  {Checked(OneDay(<<Snapshot(8, p), Snapshot(16, r), Snapshot(11, q), Snapshot(19, p)>>,
                  <<Trade(7, 1, "Buy", 3, 2), Trade(10, 2, "Sell", 1, 6), Trade(10, 2, "Sell", 1, 6),
                    Trade(18, 4, "Buy", 3, 2), Trade(13, 3, "Buy", 3, 8), Trade(20, 5, "Sell", 1, 2)>>)) :
     p \in {<<2, 4, -4>>, <<4, -2, -4>>}, q \in Books({4}),
     r \in {<<2, 2, -2>>, <<0, 2, -2>>, <<-2, 0, 0>>}}

TwoDays ==
  <<[book |-> <<Snapshot(8, <<2, 4, -4>>), Snapshot(11, <<4, 0, -2>>)>>,
     trades |-> <<Trade(9, 1, "Sell", 1, 6)>>],
    [book |-> <<Snapshot(18, <<2, 4, -4>>)>>, trades |-> <<>>],
    [book |-> <<Snapshot(28, <<4, -2, 0>>), Snapshot(31, <<2, 2, -2>>)>>,
     trades |-> <<Trade(31, 1, "Buy", 2, 2)>>]>>

\* A day to study: two levels on each side except where an ask is short or the
\* bids are gone, three prints before the samples and two others, one of them any
\* print at all; the lines of a tape are in no order.
Shot(time, bid, asks) ==
  [time |-> time,
   bids |-> IF bid = 0 THEN <<>>
            ELSE <<[tick |-> bid, qty |-> 4], [tick |-> bid - 1, qty |-> 8]>>,
   asks |-> SubSeq(<<[tick |-> bid + 1, qty |-> 4], [tick |-> bid + 2, qty |-> 8]>>, 1, asks)]

Between(t, buyer, seller) == [buyer |-> buyer, seller |-> seller] @@ t

StudyDay(first, second) ==
  [book |-> <<Shot(10, 2, 2), Shot(13, 0, 1), Shot(12, 2, 1), Shot(14, 2, 2), Shot(16, 2, 1),
              Shot(17, 2, 2), Shot(18, 3, 2), Shot(19, 2, 2), Shot(22, 2, 2),
              Shot(23, 2, 2)>>,
   trades |-> <<Between(second, "w", "v"), Between(Trade(11, 1, "Sell", 2, 2), "u", "v"),
                Between(first, "v", "u"), Between(Trade(12, 2, "Buy", 3, 4), "v", "w")>>]

Firsts == {Trade(15, 3, "Sell", 2, 1), Trade(16, 3, "Buy", 3, 4), Trade(14, 3, "Sell", 2, 2)}

Studies ==
  {[symbols |-> 1, readers |-> {"study"}, days |-> <<StudyDay(first, Trade(time, 4, side, tick, qty))>>] :
     first \in Firsts, time \in {14, 15, 17, 19}, side \in Sides, tick \in 1 .. 4,
     qty \in {2, 8}}
    \union
  {[symbols |-> 1, readers |-> {"study"},
    days |-> <<StudyDay(first, Trade(14, tid, "Sell", 2, 2)),
               [book |-> <<Shot(28, 2, 2)>>, trades |-> <<>>],
               StudyDay(first, Trade(15, 4, "Buy", 3, 1))>>] :
     first \in Firsts, tid \in {3, 4}}

MCEdges == <<1, 2, 4>>
MCTapeHorizons == <<1, 2, 3, 4, 5>>
MCWalletHorizons == <<2, 3, 5>>

MCMarkets ==
  Pairs \union Holes \union Studies
    \union {[symbols |-> n, readers |-> r, days |-> TwoDays] :
              n \in {1}, r \in {{"check", "journal"}}}
    \union {[symbols |-> 2, readers |-> {"journal"}, days |-> OneDay(d.book, d.trades)] :
              d \in {TwoDays[1], TwoDays[3]}}

MCIds == 1 .. 900
=============================================================================
