--------------------------- MODULE MC_PriceTime ----------------------------
(***************************************************************************)
(* Four ids on three prices with room for three orders: bids and asks can   *)
(* rest together, a taker can sweep two levels, three orders can queue at   *)
(* one price and the pool can run out while an id is still free.            *)
(***************************************************************************)
EXTENDS PriceTime, TLC

MCInTicks == 1 .. 4      \* 4 is out of range
MCInQty   == {0, 1, 3}  \* 0 is refused; 2 is what 1 out of 3 leaves

Symmetry == Permutations(Ids)

\* Nothing reads the last command, its verdict or its fills: they only report, and action
\* properties are checked on every step.  States that differ in them are one.
View == <<book, ahead>>
=============================================================================
