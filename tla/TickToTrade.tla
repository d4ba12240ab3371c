---------------------------- MODULE TickToTrade ----------------------------
(***************************************************************************)
(* The tick to trade measurement (ticktotrade.cpp): a feed thread that sends  *)
(* one packet of the wire at a time and waits a while for the order it         *)
(* provoked, an engine thread that decodes, applies and answers, and a link    *)
(* each way, of one of the tool's transports.  Reads never block; whether a     *)
(* send does, and what may happen on the way, depends on the transport.         *)
(*                                                                          *)
(* The feed never crosses its own prices, so the book is the set of its        *)
(* orders.  Time stamps are left out but for t0, which is the request's own.    *)
(***************************************************************************)
EXTENDS MoldFeed, FiniteSets

CONSTANTS
  Transports,  \* those the tool is run over
  Live,        \* kLive: half of the orders the feed keeps in the book
  Warmup,      \* round trips before the ones that are measured
  Room,        \* messages a link holds
  MaxSeq       \* bound: packets the feed sends, by transport

ASSUME TickToTradeAssumption ==
  /\ Transports \subseteq {"Udp", "Unix", "Ring"} /\ MaxSeq \in [Transports -> Nat]
  /\ Live \in Nat \ {0} /\ Warmup \in Nat /\ Room \in Nat \ {0}

VARIABLES
  transport, \* how messages travel; UDP with connected sockets is UDP
  feed,      \* the feed thread: where it is, its sequence number, its two counts
  md,        \* market data link
  ord,       \* order link
  stop,      \* what tells the engine to end
  engine,    \* the engine thread: where it is, the packet whose order it sends
  dec,       \* its decoder
  live,      \* its book: an order is its reference and its side
  heard,     \* history: the packets decoded, the first of them, the highest
  counted    \* history: the packets a round trip was counted for

toolVars == <<transport, feed, md, ord, stop, engine, dec, live, heard, counted>>

-----------------------------------------------------------------------------
(***************************************************************************)
(* Links.                                                                   *)
(***************************************************************************)

\* What sending m may leave on a link.  A full socket or ring drops it, but an AF_UNIX
\* socket has its sender wait.  A datagram may get lost or arrive twice.
Sent(q, m) ==
  IF Len(q) >= Room THEN IF transport = "Unix" THEN {} ELSE {q}
  ELSE {Append(q, m)}
         \union (IF transport = "Udp" THEN {q} ELSE {})
         \union (IF transport = "Udp" /\ Len(q) + 2 <= Room THEN {q \o <<m, m>>} ELSE {})

\* What a read may take, by its place: a datagram may overtake those before it.
Readable(q) == IF transport = "Udp" THEN DOMAIN q ELSE {n \in DOMAIN q : n = 1}

-----------------------------------------------------------------------------
(***************************************************************************)
(* The feed.                                                                *)
(***************************************************************************)

Locate == 1

Directory == Packet(0, 1, <<[type |-> "z", locate |-> Locate]>>)

SideOf(seq) == IF seq % 2 = 0 THEN "Buy" ELSE "Sell"

\* Numbered by the packet, although the delete makes it a packet of two messages.
BuildPacket(seq) ==
  LET del == [type |-> "D", locate |-> Locate, ts |-> seq, ref |-> seq - 2 * Live + 1]
      add == [type |-> "A", locate |-> Locate, ts |-> seq, ref |-> seq + 1,
              side |-> SideOf(seq), shares |-> 1,
              price |-> TickToWire(IF SideOf(seq) = "Buy" THEN 1 ELSE 3)]
      msgs == IF seq >= 2 * Live THEN <<del, add>> ELSE <<add>>
  IN Packet(seq, Len(msgs), msgs)

SendDirectory ==
  /\ feed.at = "directory"
  /\ md' \in Sent(md, [seq |-> 0, mold |-> Directory])
  /\ feed' = [feed EXCEPT !.at = "loop"]
  /\ UNCHANGED <<transport, ord, stop, engine, dec, live, heard, counted>>

\* Another time round: the warm-up is not over, or the seconds are not.
GoRound ==
  /\ feed.at = "loop" /\ feed.seq <= MaxSeq[transport]
  /\ feed' = [feed EXCEPT !.at = "send"]
  /\ UNCHANGED <<transport, md, ord, stop, engine, dec, live, heard, counted>>

SendPacket ==
  /\ feed.at = "send"
  /\ md' \in Sent(md, [seq |-> feed.seq, mold |-> BuildPacket(feed.seq)])
  /\ feed' = [feed EXCEPT !.at = "wait", !.sent = @ + (IF feed.seq > Warmup THEN 1 ELSE 0)]
  /\ UNCHANGED <<transport, ord, stop, engine, dec, live, heard, counted>>

\* On to the next packet, whether or not this one was answered.
ToNext(f) == [f EXCEPT !.at = "loop", !.seq = @ + 1]

\* Faulty variant: whatever is waiting is taken for the answer.
AnswersAny(om, seq) == TRUE

Answers(om, seq) == om.seq = seq

\* A spin that finds nothing to read.
ReadNothing ==
  /\ feed.at = "wait" /\ ord = <<>>
  /\ feed' = [feed EXCEPT !.at = "idle"]
  /\ UNCHANGED <<transport, md, ord, stop, engine, dec, live, heard, counted>>

\* A spin that reads something: the answer, or one that came too late.
ReadReply ==
  /\ feed.at \in {"wait", "idle"}
  /\ \E n \in Readable(ord) :
       /\ ord' = RemoveAt(ord, n)
       /\ IF Answers(ord[n], feed.seq)
            THEN LET measured == {s \in {feed.seq} : s > Warmup} IN
                 /\ feed' = [ToNext(feed) EXCEPT !.got = @ + Cardinality(measured)]
                 /\ counted' = counted \union measured
          ELSE UNCHANGED <<feed, counted>>
  /\ UNCHANGED <<transport, md, stop, engine, dec, live, heard>>

\* Faulty variant: the wait is timed, and may be over with replies unread.
TimedOut == feed.at \in {"wait", "idle"}

\* It spins more often than there are messages under way (50,000 times, and 4096 fit
\* a ring), so at least one spin has found nothing.
SpunOut == feed.at = "idle"

GiveUp ==
  /\ SpunOut
  /\ feed' = ToNext(feed)
  /\ UNCHANGED <<transport, md, ord, stop, engine, dec, live, heard, counted>>

\* The seconds are over.
Stop ==
  /\ feed.at = "loop" /\ feed.seq > Warmup
  /\ stop' = TRUE /\ feed' = [feed EXCEPT !.at = "join"]
  /\ UNCHANGED <<transport, md, ord, engine, dec, live, heard, counted>>

Join ==
  /\ feed.at = "join" /\ engine.at = "done"
  /\ feed' = [feed EXCEPT !.at = "report"]
  /\ UNCHANGED <<transport, md, ord, stop, engine, dec, live, heard, counted>>

-----------------------------------------------------------------------------
(***************************************************************************)
(* The engine.                                                              *)
(***************************************************************************)

\* A reference that rests is not added again, one that does not is not deleted.
ApplyToBook(orders, cmd) ==
  IF cmd.type = "Cancel" THEN {o \in orders : o.ref # cmd.id}
  ELSE IF \E o \in orders : o.ref = cmd.id THEN orders
  ELSE orders \union {[ref |-> cmd.id, side |-> cmd.side]}

\* There is a best bid and a best ask.
Acts(orders) == \A side \in {"Buy", "Sell"} : \E o \in orders : o.side = side

\* What has been heard once packet s has.
Heard(h, s) ==
  [packets |-> h.packets \union {s},
   first   |-> IF h.packets = {} THEN s ELSE h.first,
   last    |-> IF s > h.last THEN s ELSE h.last]

\* One pass of its loop, up to the order it decides to send.  The feed thread writes
\* nothing after `stop`, so the relaxed store is taken to happen when it is seen.
EngineReads ==
  /\ engine.at = "loop" /\ ~stop
  /\ \E n \in Readable(md) :
       LET p == md[n] IN
       /\ md' = RemoveAt(md, n)
       /\ dec' = DecodePacket(Emptied(dec), p.mold)
       /\ live' = FoldLeft(LAMBDA orders, r : ApplyToBook(orders, r.cmd), live, dec'.out)
       /\ engine' = IF Acts(live') THEN [at |-> "send", seq |-> p.seq] ELSE engine
       /\ heard' = Heard(heard, p.seq)
  /\ UNCHANGED <<transport, feed, ord, stop, counted>>

\* It does not look at what the send returns.
EngineSends ==
  /\ engine.at = "send"
  /\ ord' \in Sent(ord, [seq |-> engine.seq])
  /\ engine' = [at |-> "loop", seq |-> 0]
  /\ UNCHANGED <<transport, feed, md, stop, dec, live, heard, counted>>

\* A read never blocks, so it comes round to the flag whatever the link holds.
EngineEnds ==
  /\ engine.at = "loop" /\ stop
  /\ engine' = [engine EXCEPT !.at = "done"]
  /\ UNCHANGED <<transport, feed, md, ord, stop, dec, live, heard, counted>>

-----------------------------------------------------------------------------
ToolInit ==
  /\ transport \in Transports
  /\ feed = [at |-> "directory", seq |-> 1, sent |-> 0, got |-> 0]
  /\ md = <<>> /\ ord = <<>> /\ stop = FALSE
  /\ engine = [at |-> "loop", seq |-> 0] /\ dec = FreshDecoder /\ live = {}
  /\ heard = [packets |-> {}, first |-> 0, last |-> -1]
  /\ counted = {}

Feed == \/ SendDirectory \/ GoRound \/ SendPacket \/ ReadNothing \/ ReadReply \/ GiveUp
        \/ Stop \/ Join
Engine == EngineReads \/ EngineSends \/ EngineEnds
ToolNext == Feed \/ Engine

\* Each thread runs unless it waits for room; an engine with nothing left to read
\* still looks at the flag.
ToolSpec ==
  /\ ToolInit /\ [][ToolNext]_toolVars
  /\ WF_toolVars(Feed)
  /\ WF_toolVars(EngineReads) /\ WF_toolVars(EngineSends) /\ WF_toolVars(EngineEnds)

-----------------------------------------------------------------------------
(***************************************************************************)
(* What the measurement promises.                                            *)
(***************************************************************************)

\* ticktotrade.cpp:379, "Match the reply to the request that caused it": a round
\* trip that is counted is of a packet the engine decoded, and no packet is counted
\* twice, however late the answers to earlier ones come.
RoundTripsAreReal == counted \subseteq heard.packets /\ feed.got = Cardinality(counted)

\* The packets between the first and the highest that were never decoded.
Unheard == (heard.first .. heard.last) \ heard.packets

\* decoder.cpp:146, with the numbers of ticktotrade.cpp:320: each packet that is lost
\* counts as a message missed, whatever is lost, repeated or overtaken on the way, as
\* long as no other packet has its number: up to packet 2 * Live, and after that when
\* the one before, whose second message has that number, is lost too.
LossesShow ==
  Cardinality({s \in Unheard : s <= 2 * Live \/ s - 1 \in Unheard}) <= dec.gap_messages

\* ticktotrade.cpp:361-408: the feed thread gets to its report; the engine ends, even
\* with nothing to read.  Over AF_UNIX the feed gets out of its loops: although it sends
\* on whether or not it was answered, it is never blocked on the link to the engine while
\* the engine is blocked on the link back.  The join is another matter: the engine may
\* be blocked then, with nobody to read.
ThreadsGetThrough == <>(feed.at = IF transport = "Unix" THEN "join" ELSE "report")
=============================================================================
