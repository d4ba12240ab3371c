------------------------------ MODULE MC_Shards ------------------------------
(***************************************************************************)
(* Three symbols on two shards, so that two of them share a shard; five      *)
(* commands against rings of two, so that a ring is full, is drained and     *)
(* fills again.                                                             *)
(***************************************************************************)
EXTENDS Shards

MCLocates == 1 .. 3
=============================================================================
