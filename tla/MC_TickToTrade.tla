--------------------------- MODULE MC_TickToTrade ---------------------------
(***************************************************************************)
(* Each transport in turn.  The feed keeps two orders in the book, so that from *)
(* packet 2 on each packet carries a delete as well, and links have two places. *)
(***************************************************************************)
EXTENDS TickToTrade

AllTransports == {"Udp", "Unix", "Ring"}

\* Five packets for a link that may do anything, seven for one that only fills up.
PacketsSent == [t \in AllTransports |-> IF t = "Udp" THEN 5 ELSE 7]
=============================================================================
