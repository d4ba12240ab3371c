---------------------------- MODULE MC_SpscRing ----------------------------
(***************************************************************************)
(* Four slots, three of them usable, and batches of up to two: the ring     *)
(* fills, empties, wraps, and a batch is accepted in part.  Two messages    *)
(* are enough to tell a slot read too early or too late.                    *)
(***************************************************************************)
EXTENDS SpscRing
=============================================================================
