----------------------------- MODULE MC_Agent ------------------------------
(***************************************************************************)
(* Three prices; a book with its touch at the lower two, one with its touch   *)
(* at the upper two and one with an empty side; a quote of two against prints  *)
(* of one and three, so that a quote is filled in part and a print clears a    *)
(* level and the quote behind it; a limit of one quote; and a latency of one,  *)
(* in which several events may fall, so that three decisions can be on their   *)
(* way at once.                                                             *)
(***************************************************************************)
EXTENDS Agent

MCTicks == 1 .. 3
MCBooks == {<<1, 1, -1>>, <<1, -1, -1>>, <<1, 0, 0>>}
MCModelPrices == {[bid |-> 1, ask |-> 3], [bid |-> 2, ask |-> 3]}
MCRefusals == {{}, {<<"Buy", 1>>}}

\* Only differences of times matter, and the kind of an event only as it happens.
View ==
  <<book, open, [ag EXCEPT !.pending = [n \in DOMAIN @ |-> [@[n] EXCEPT !.effective = Most(0, @ - now)]]],
    [side \in Sides |-> IF since[side] = Never THEN Never ELSE Least(now - since[side], Latency)]>>
=============================================================================
