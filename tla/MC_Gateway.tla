----------------------------- MODULE MC_Gateway -----------------------------
(***************************************************************************)
(* Three orders numbered, so that one may rest, one be hit and one replace   *)
(* another; three tokens, so that a token is still free when two are in use. *)
(* Wire prices 1 (below the first tick), 2 and 3 (the first tick, one of     *)
(* them odd), 4 (the second) and 6 (past the last).  Two slots in the pool,  *)
(* so that a third order is refused by the book.                            *)
(***************************************************************************)
EXTENDS Gateway, TLC

MCIds == 1 .. MaxId
MCTicks == 0 .. 3
MCPrices == {1, 2, 3, 4, 6}
MCSizes == 0 .. 2
Symmetry == Permutations(Tokens)
=============================================================================
