--------------------------- MODULE MC_OrderBook ----------------------------
(***************************************************************************)
(* Three slots, four ids, three prices over two bitmap words of two bits,   *)
(* the second of them half used.                                            *)
(***************************************************************************)
EXTENDS OrderBook, TLC

MCInTicks == 1 .. 4
MCInQty   == {0, 1, 3}  \* 0 is refused; 2 is what 1 out of 3 leaves

Symmetry == Permutations(Ids)

\* Nothing reads the last command, its verdict or its fills: they only report, and action
\* properties are checked on every step.  States that differ in them are one.
View == <<bk, shadow.book, shadow.ahead>>
=============================================================================
