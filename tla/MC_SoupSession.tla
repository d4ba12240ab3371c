--------------------------- MODULE MC_SoupSession ---------------------------
(***************************************************************************)
(* Two connections, two messages, two packets of the client on the wire: a  *)
(* client is cut off with orders unread by the server and replies unread by  *)
(* itself, comes back, and may ask for what comes next (0) or for what does  *)
(* not exist (5).  An order publishes up to two messages; a recv may return  *)
(* a login with an order behind it, or an order with junk behind it.         *)
(***************************************************************************)
EXTENDS SoupSession

MCAsks == {0, 5}
=============================================================================
