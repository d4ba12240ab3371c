------------------------------ MODULE MC_IdMap ------------------------------
(***************************************************************************)
(* Five ids in a table of four buckets that doubles when the third id goes   *)
(* in.  The hash values put ids in one bucket (0), in the last bucket of     *)
(* either table, so that runs wrap round the end (3, 7), and next to each    *)
(* other (4 joins 0 before the table grows and leaves it after).  Ids and    *)
(* slots are only compared, and nothing but safety is checked, so both may   *)
(* be permuted.                                                             *)
(***************************************************************************)
EXTENDS IdMap, TLC

MCHashes == {0, 3, 4, 7}
Symmetry == Permutations(Ids) \union Permutations(Slots)
=============================================================================
