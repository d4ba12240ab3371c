----------------------------- MODULE SoupSession -----------------------------
(***************************************************************************)
(* A SoupBinTCP session that outlives its connections: the store, the       *)
(* server's half of a connection, the client's half and the wire between    *)
(* them (session.hpp, and the accept loop of ouchgw.cpp that drives it).    *)
(*                                                                          *)
(* The server serves one connection at a time.  Bytes a client sent before  *)
(* it went away are still read, so orders of a dead connection are still    *)
(* executed and what they publish is sent to nobody.  toServer holds every  *)
(* connection's bytes in the order they are accepted, a Fin where a client   *)
(* left.  An element of a wire is one packet; a packet torn by the end of a  *)
(* connection is a lost one, because both halves drop their partial bytes.  *)
(***************************************************************************)
EXTENDS Integers, Sequences, SequencesExt

CONSTANTS
  Messages,      \* payloads of the sequenced stream
  Asks,          \* sequence numbers a client may ask for besides the right one
  MaxMessages,   \* bound on the store
  MaxConnects,   \* bound on the connections a client opens
  MaxInFlight    \* bound on the packets a client has on the wire

ASSUME SessionAssumption ==
  /\ Asks \subseteq Nat
  /\ MaxMessages \in Nat /\ MaxConnects \in Nat /\ MaxInFlight \in Nat

VARIABLES
  store,                            \* SequencedStore: msgs_
  pc, inbox, keep, out,             \* server loop: step, bytes received, keep, reply
  loggedIn, cursor,                 \* ServerSession
  toServer, toClient, up, closed,   \* the wire; `closed`: the server has hung up
  next, connects, delivered,        \* ClientSession: next_, and on_message's calls
  resuming                          \* every login asked for resume_from()

server == <<pc, inbox, keep, out, loggedIn, cursor>>
network == <<toServer, toClient, up, closed>>
client == <<next, connects, delivered, resuming>>
vars == <<store, server, network, client>>

Fin == [type |-> "Fin"]

Login(req, valid) == [type |-> "Login", req |-> req, valid |-> valid]
Requests == [type : {"Login"}, req : Nat, valid : BOOLEAN]
              \union [type : {"Order", "Quiet", "Logout", "Junk"}]

Accepted(seq) == [type |-> "Accepted", seq |-> seq]
Data(m) == [type |-> "Data", msg |-> m]
Replies == [type : {"Accepted"}, seq : Nat] \union [type : {"Data"}, msg : Messages]
             \union [type : {"Rejected", "EndOfSession"}]

\* store_->next()
NextSeq == Len(store) + 1

\* The packets of the connection the server is serving, and what follows them.
HasFin == \E k \in DOMAIN toServer : toServer[k] = Fin
FirstFin == SelectInSeq(toServer, LAMBDA p : p = Fin)
Readable == IF HasFin THEN FirstFin - 1 ELSE Len(toServer)

\* The server serves the connection the client is on.
Live == up /\ ~closed /\ ~HasFin

Init ==
  /\ store = <<>>
  /\ pc = "recv" /\ inbox = <<>> /\ keep = TRUE /\ out = <<>>
  /\ loggedIn = FALSE /\ cursor = 1
  /\ toServer = <<>> /\ toClient = <<>> /\ up = FALSE /\ closed = FALSE
  /\ next = 1 /\ connects = 0 /\ delivered = <<>> /\ resuming = TRUE

-----------------------------------------------------------------------------
(***************************************************************************)
(* The client.                                                              *)
(***************************************************************************)

\* Faulty variant: a client resumes from the last message it has.
ResumeFromLast == IF next > 1 THEN next - 1 ELSE next

\* resume_from(): the next sequence number not yet seen.
ResumeFrom == next

\* connect_now: a new connection, and a login on it.  `valid` is whether it
\* names this session and is well formed.
Connect(req, valid) ==
  /\ ~up /\ connects < MaxConnects
  /\ up' = TRUE /\ closed' = FALSE
  /\ toServer' = Append(toServer, Login(req, valid))
  /\ toClient' = <<>>
  /\ connects' = connects + 1
  /\ resuming' = (resuming /\ (valid => req = ResumeFrom))
  /\ UNCHANGED <<store, server, next, delivered>>

Send(type) ==
  /\ up /\ Len(toServer) < MaxInFlight
  /\ toServer' = IF closed THEN toServer ELSE Append(toServer, [type |-> type])
  /\ UNCHANGED <<store, server, toClient, up, closed, client>>

\* The client closes, or the connection breaks with only the first k packets
\* of the wire through.  What was on its way to the client is gone.
Disconnect(k) ==
  /\ up
  /\ up' = FALSE
  /\ toServer' = IF closed THEN toServer ELSE Append(SubSeq(toServer, 1, k), Fin)
  /\ IF closed THEN k = 0 ELSE \A i \in k + 1 .. Len(toServer) : toServer[i] # Fin
  /\ toClient' = <<>>
  /\ UNCHANGED <<store, server, closed, client>>

\* ClientSession::consume, one packet.
ClientRead ==
  /\ toClient # <<>>
  /\ LET p == Head(toClient) IN
     /\ next' = CASE p.type = "Accepted" -> p.seq
                  [] p.type = "Data" -> next + 1
                  [] OTHER -> next
     /\ delivered' = IF p.type = "Data" THEN Append(delivered, [seq |-> next, msg |-> p.msg])
                                        ELSE delivered
  /\ toClient' = Tail(toClient)
  /\ UNCHANGED <<store, server, toServer, up, closed, connects, resuming>>

-----------------------------------------------------------------------------
(***************************************************************************)
(* The server.                                                              *)
(***************************************************************************)

\* recv: some of what this connection has sent.
Recv(n) ==
  /\ pc = "recv"
  /\ inbox' = SubSeq(toServer, 1, n)
  /\ toServer' = SubSeq(toServer, n + 1, Len(toServer))
  /\ pc' = "handle"
  /\ UNCHANGED <<store, keep, out, loggedIn, cursor, toClient, up, closed, client>>

\* on_disconnect: the store is untouched.
ForgetConnection == loggedIn' = FALSE /\ cursor' = 1

\* recv returns 0: the client has gone.
RecvEnd ==
  /\ pc = "recv" /\ Readable = 0 /\ HasFin
  /\ toServer' = Tail(toServer)
  /\ ForgetConnection
  /\ UNCHANGED <<store, pc, inbox, keep, out, toClient, up, closed, client>>

\* What pump sends of a store s from c on.
Owed(s, c) == [i \in 1 .. Len(s) - c + 1 |-> Data(s[c + i - 1])]
AfterPump(c) == IF c < NextSeq THEN NextSeq ELSE c

\* Where a login starts: 0 is whatever comes next, and past the end is the end.
StartAt(req) ==
  LET wanted == IF req = 0 THEN NextSeq ELSE req
  IN IF wanted > NextSeq THEN NextSeq ELSE wanted

HandleLogin(p) ==
  /\ p.type = "Login"
  /\ \/ ~p.valid /\ keep' = FALSE
        /\ out' = Append(out, [type |-> "Rejected"])
        /\ UNCHANGED <<loggedIn, cursor>>
     \/ p.valid /\ keep' = TRUE
        /\ loggedIn' = TRUE
        /\ out' = (out \o <<Accepted(StartAt(p.req))>>) \o Owed(store, StartAt(p.req))
        /\ cursor' = AfterPump(StartAt(p.req))
  /\ UNCHANGED store

\* on_order: the order is executed, and what the engine says of it is stored.
HandleOrder(p, s) ==
  /\ p.type = "Order"
  /\ keep' = loggedIn
  /\ store' = IF loggedIn THEN store \o s ELSE store
  /\ UNCHANGED <<out, loggedIn, cursor>>

HandleOther(p) ==
  /\ p.type \in {"Quiet", "Logout", "Junk"}
  /\ keep' = (p.type = "Quiet")
  /\ loggedIn' = (loggedIn /\ p.type # "Logout")
  /\ UNCHANGED <<store, out, cursor>>

\* What one order makes the engine publish.
Published == {s \in SeqOf(Messages, 2) : Len(store) + Len(s) <= MaxMessages}

Handle ==
  /\ pc = "handle" /\ inbox # <<>>
  /\ LET p == Head(inbox) IN
     \/ HandleLogin(p)
     \/ \E s \in Published : HandleOrder(p, s)
     \/ HandleOther(p)
  /\ inbox' = IF keep' THEN Tail(inbox) ELSE <<>>
  /\ UNCHANGED <<pc, network, client>>

\* Faulty variants: what was sent is not counted as sent, or a client is only
\* sent what was stored before it logged in.
PumpForgets ==
  /\ out' = IF loggedIn THEN out \o Owed(store, cursor) ELSE out
  /\ UNCHANGED cursor
PumpAtLoginOnly == UNCHANGED <<out, cursor>>

\* pump: everything the client is owed.
Pump ==
  /\ out' = IF loggedIn THEN out \o Owed(store, cursor) ELSE out
  /\ cursor' = IF loggedIn THEN AfterPump(cursor) ELSE cursor

\* Everything received is handled, or the connection is to be torn down.
PumpAll ==
  /\ pc = "handle" /\ inbox = <<>>
  /\ Pump
  /\ pc' = "reply"
  /\ UNCHANGED <<store, inbox, keep, loggedIn, network, client>>

\* send, to a client that may have gone.
Transmit == toClient' = IF Live THEN toClient \o out ELSE toClient

Reply ==
  /\ pc = "reply" /\ keep
  /\ Transmit
  /\ pc' = "recv" /\ out' = <<>>
  /\ UNCHANGED <<store, inbox, keep, loggedIn, cursor, toServer, up, closed, client>>

\* The server hangs up after its last words.
Close ==
  /\ pc = "reply" /\ ~keep
  /\ Transmit
  /\ closed' = (closed \/ Live)
  /\ toServer' = IF HasFin THEN SubSeq(toServer, FirstFin + 1, Len(toServer)) ELSE <<>>
  /\ ForgetConnection
  /\ pc' = "recv" /\ out' = <<>> /\ keep' = TRUE
  /\ UNCHANGED <<store, inbox, up, client>>

\* end_session on a connection that is being served.
EndSession ==
  /\ pc = "recv" /\ loggedIn
  /\ toClient' = IF Live THEN Append(toClient, [type |-> "EndOfSession"]) ELSE toClient
  /\ loggedIn' = FALSE
  /\ UNCHANGED <<store, pc, inbox, keep, out, cursor, toServer, up, closed, client>>

-----------------------------------------------------------------------------
Client ==
  \/ \E req \in {ResumeFrom} \union Asks, valid \in BOOLEAN : Connect(req, valid)
  \/ \E type \in {"Order", "Quiet", "Logout", "Junk"} : Send(type)
  \/ \E k \in 0 .. Len(toServer) : Disconnect(k)
  \/ ClientRead

Serve ==
  \/ \E n \in 1 .. Readable : Recv(n)
  \/ RecvEnd \/ Handle \/ PumpAll \/ Reply \/ Close

Next == Client \/ Serve \/ EndSession

Spec == Init /\ [][Next]_vars

\* The server thread runs its loop, the client polls its socket (ouchgw.cpp).
FairSpec == Spec /\ WF_vars(Serve) /\ WF_vars(ClientRead)

-----------------------------------------------------------------------------
(***************************************************************************)
(* Properties.                                                              *)
(***************************************************************************)

\* Sequence numbers are not on the wire: both halves count.  Whatever a client
\* asks for and wherever the connections break, the number its half gives to a
\* message is the one the message has in the store.
NumbersAgree ==
  \A k \in DOMAIN delivered :
    /\ delivered[k].seq \in DOMAIN store
    /\ delivered[k].msg = store[delivered[k].seq]

\* A client that always resumes where it stopped is made whole: every message
\* once, in order, none missing (session.hpp:11-13, resume_from).
ExactlyOnce ==
  resuming => \A k \in DOMAIN delivered : delivered[k].seq = k

\* A client that stays connected ends up with everything that was stored,
\* what the orders of its dead connections caused included.
CatchesUp == <>[](Live /\ loggedIn) => <>[](next = NextSeq)
=============================================================================
