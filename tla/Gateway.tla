------------------------------ MODULE Gateway ------------------------------
(***************************************************************************)
(* The order entry gateway of ouchgw.cpp: clients name orders with tokens of *)
(* their own, the gateway numbers them, keeps the two maps between tokens    *)
(* and numbers, calls the book, and publishes what became of each request.   *)
(*                                                                          *)
(* The book calls back on_trade from inside a call; the server thread runs   *)
(* each handler to its end, callbacks included, so a handler is one action.  *)
(* The book is the abstract one (PriceTime), which OrderBook implements.     *)
(*                                                                          *)
(* `names` holds the maps, `sent` what the last handler published, `view`    *)
(* what a client makes of everything published so far.  Messages that do    *)
(* not decode change nothing and are answered by nothing.                    *)
(***************************************************************************)
EXTENDS BookTypes, OuchWire, Functions

CONSTANTS
  Tokens,      \* client chosen names
  Prices,      \* prices on the wire, some not a whole number of ticks
  Sizes,       \* shares on the wire, 0 among them
  PriceUnit,   \* wire prices in a tick, 1000 in the code
  MaxId        \* bound on the orders numbered

ASSUME GatewayAssumption ==
  /\ MaxId \in Nat /\ Ids = 1 .. MaxId /\ NoOrder = 0
  /\ PriceUnit \in Nat \ {0} /\ Prices \subseteq Nat /\ Sizes \subseteq Nat
  /\ {p \div PriceUnit : p \in Prices} \subseteq InTicks /\ Sizes \subseteq InQty

VARIABLES
  book, ahead, cmd, verdict, fills,   \* the engine
  names,      \* token_to_id_ and id_to_token_
  nextId,     \* next_id_
  sent,       \* what the last handler appended to the store
  view,       \* history: a client's account of its live orders, by token
  orphans     \* history: orders whose replacement the engine refused

engine == <<book, ahead, cmd, verdict, fills>>
vars == <<engine, names, nextId, sent, view, orphans>>

Book == INSTANCE PriceTime

NoNames == [id |-> <<>>, token |-> <<>>]

-----------------------------------------------------------------------------
(***************************************************************************)
(* Names and messages.                                                      *)
(***************************************************************************)

Known(t) == t \in DOMAIN names.id

Extend(f, x, y) == [z \in DOMAIN f \union {x} |-> IF z = x THEN y ELSE f[z]]

Remember(n, id, t) == [id |-> Extend(n.id, t, id), token |-> Extend(n.token, id, t)]

Forget(n, ids) ==
  LET gone == ids \intersect DOMAIN n.token
  IN [id    |-> Restrict(n.id, DOMAIN n.id \ {n.token[i] : i \in gone}),
      token |-> Restrict(n.token, DOMAIN n.token \ gone)]

Accepted(t, left, live) == [type |-> "Accepted", token |-> t, shares |-> left, live |-> live]
Replaced(t, old, left, live) ==
  [type |-> "Replaced", token |-> t, old |-> old, shares |-> left, live |-> live]
Executed(t, qty) == [type |-> "Executed", token |-> t, shares |-> qty]
Canceled(t, qty) == [type |-> "Canceled", token |-> t, shares |-> qty]
Rejected(t, why) == [type |-> "Rejected", token |-> t, why |-> why]

\* wire_price_to_tick: an odd price is cut down to the tick below it.
ToTick(price) == price \div PriceUnit

\* order_qty and is_live, after the call.
LeftOf(id) == IF id \in DOMAIN book' THEN book'[id].qty ELSE 0
LiveNow(id) == id \in DOMAIN book'

-----------------------------------------------------------------------------
(***************************************************************************)
(* on_trade, for every fill of the call, in the order they happen.          *)
(***************************************************************************)

\* The makers filled that have a name, in the order they are reached.
Told(n) ==
  CHOOSE makers \in SetToSeqs(DOMAIN fills' \intersect DOMAIN n.token) :
    \A j, k \in DOMAIN makers : j < k => Book!Before(book, ahead, makers[j], makers[k])

Executions(n) ==
  LET makers == Told(n)
  IN [k \in DOMAIN makers |-> Executed(n.token[makers[k]], fills'[makers[k]])]

\* Faulty variant: a maker filled in full keeps its name.
AfterTradesKept(n) == n

\* What is filled in full is forgotten.
AfterTrades(n) == Forget(n, {i \in DOMAIN fills' : fills'[i] = book[i].qty})

-----------------------------------------------------------------------------
(***************************************************************************)
(* A client that only reads what is published.                              *)
(***************************************************************************)

Drop(v, t) == Restrict(v, DOMAIN v \ {t})

Less(v, t, qty) ==
  IF t \notin DOMAIN v THEN v
  ELSE IF v[t] <= qty THEN Drop(v, t) ELSE [v EXCEPT ![t] = @ - qty]

Hear(v, m) ==
  CASE m.type = "Accepted" -> IF m.live THEN Extend(v, m.token, m.shares) ELSE v
    [] m.type = "Replaced" -> IF m.live THEN Extend(Drop(v, m.old), m.token, m.shares)
                                        ELSE Drop(v, m.old)
    [] m.type \in {"Executed", "Canceled"} -> Less(v, m.token, m.shares)
    [] m.type = "Rejected" -> v

Publish(messages) == sent' = messages /\ view' = FoldLeft(Hear, view, messages)

-----------------------------------------------------------------------------
(***************************************************************************)
(* The handlers.                                                            *)
(***************************************************************************)

Reject(t, why) ==
  /\ Publish(<<Rejected(t, why)>>)
  /\ UNCHANGED <<engine, names, nextId, orphans>>

\* The first check an EnterOrder fails.
EnterVerdict(t, shares, price, symbol) ==
  IF Known(t) THEN "DuplicateToken"
  ELSE IF shares = 0 THEN "BadQuantity"
  ELSE IF ToTick(price) <= 0 THEN "BadPrice"
  ELSE IF ~symbol THEN "UnknownSymbol"
  ELSE "None"

\* Faulty variant: the answer repeats the size that was asked for.
AnswerAsked(id, t, shares) == Accepted(t, shares, LiveNow(id))

\* The answer says what is left of the order.
Answer(id, t, shares) == Accepted(t, LeftOf(id), LiveNow(id))

\* The order is named before the book is called, and forgotten again when it is
\* refused or does not rest.
Enter(t, side, shares, price, symbol, tif) ==
  LET why == EnterVerdict(t, shares, price, symbol)
      id  == nextId + 1
      n   == Remember(names, id, t)
      ok  == verdict' = "None"
  IN \/ why # "None" /\ Reject(t, why)
     \/ /\ why = "None" /\ nextId < MaxId
        /\ nextId' = id
        /\ cmd' = [type |-> "AddLimit", id |-> id, side |-> side, tick |-> ToTick(price),
                   qty |-> shares, tif |-> tif]
        /\ Book!AddLimit(id, side, ToTick(price), shares, tif)
        /\ names' = IF ok /\ LiveNow(id) THEN AfterTrades(n) ELSE Forget(AfterTrades(n), {id})
        /\ Publish(IF ok THEN Append(Executions(n), Answer(id, t, shares))
                         ELSE <<Rejected(t, "BadPrice")>>)
        /\ UNCHANGED orphans

\* The whole order goes, whatever number of shares the message names.
Cancel(t) ==
  LET id == names.id[t] IN
  \/ ~Known(t) /\ Reject(t, "UnknownToken")
  \/ /\ Known(t)
     /\ cmd' = [type |-> "Cancel", id |-> id]
     /\ Book!Cancel(id)
     /\ IF verdict' = "None"
          THEN names' = Forget(names, {id}) /\ Publish(<<Canceled(t, book[id].qty)>>)
          ELSE names' = names /\ Publish(<<Rejected(t, "UnknownToken")>>)
     /\ UNCHANGED <<nextId, orphans>>

\* The old name is given up, and the new one taken, before the book is called.
Renamed(old, new, t) == Remember(Forget(names, {old}), new, t)

Replace(old, t, shares, price) ==
  LET oldId == names.id[old]
      id    == nextId + 1
      n     == Renamed(oldId, id, t)
      ok    == verdict' = "None"
  IN \/ ~Known(old) /\ Reject(t, "UnknownToken")
     \/ Known(old) /\ Known(t) /\ Reject(t, "DuplicateToken")
     \/ /\ Known(old) /\ ~Known(t) /\ nextId < MaxId
        /\ nextId' = id
        /\ cmd' = [type |-> "Replace", id |-> oldId, id2 |-> id, tick |-> ToTick(price),
                   qty |-> shares]
        /\ Book!Replace(oldId, id, ToTick(price), shares)
        /\ names' = IF ok /\ LiveNow(id) THEN AfterTrades(n) ELSE Forget(AfterTrades(n), {id})
        /\ Publish(IF ok THEN Append(Executions(n), Replaced(t, old, LeftOf(id), LiveNow(id)))
                         ELSE <<Rejected(t, "BadPrice")>>)
        /\ orphans' = IF ok THEN orphans ELSE orphans \union {oldId}

Init ==
  /\ Book!Init
  /\ names = NoNames /\ nextId = 0
  /\ sent = <<>> /\ view = <<>> /\ orphans = {}

\* on_order
Next ==
  \/ \E t \in Tokens, side \in Sides, shares \in Sizes, price \in Prices, symbol \in BOOLEAN,
        tif \in {"Gtc", "Ioc"} : Enter(t, side, shares, price, symbol, tif)
  \/ \E t \in Tokens : Cancel(t)
  \/ \E old, t \in Tokens, shares \in Sizes, price \in Prices : Replace(old, t, shares, price)

Spec == Init /\ [][Next]_vars

-----------------------------------------------------------------------------
(***************************************************************************)
(* What the handlers put on the wire: the fields above under the names they    *)
(* have there, the others with numbers of their own.                          *)
(***************************************************************************)

StandIns ==
  [timestamp_ns |-> 7001, side |-> Char("S"), symbol |-> 7002, price |-> 7003,
   order_reference |-> 7004, match_number |-> 7005]

Letter == [Accepted |-> "A", Executed |-> "E", Canceled |-> "C", Rejected |-> "J", Replaced |-> "R"]

State(live) == Char(IF live THEN "L" ELSE "D")

Reason == [UnknownSymbol |-> "S", BadPrice |-> "P", BadQuantity |-> "Q", DuplicateToken |-> "D",
           UnknownToken |-> "T"]

OnWire(m) ==
  StandIns @@
  CASE m.type = "Accepted" -> [token |-> m.token, shares |-> m.shares, state |-> State(m.live)]
    [] m.type = "Replaced" -> [new_token |-> m.token, previous_token |-> m.old,
                               shares |-> m.shares, state |-> State(m.live)]
    [] m.type = "Executed" -> [token |-> m.token, shares |-> m.shares]
    [] m.type = "Canceled" -> [token |-> m.token, shares |-> m.shares, reason |-> Char("U")]
    [] m.type = "Rejected" -> [token |-> m.token, reason |-> Char(Reason[m.why])]

\* pump: the answer to a login and what it is owed, in packets.
Pumped(session, seq, messages) ==
  FrameLoginAccepted(session, seq) \o
  FlattenSeq([k \in DOMAIN messages |->
                Frame("S", Encode(Letter[messages[k].type], OnWire(messages[k])))])

-----------------------------------------------------------------------------
(***************************************************************************)
(* Properties.                                                              *)
(***************************************************************************)

\* Between handlers the maps are each other's inverse, and the names are those
\* of the orders that rest: none outlives its order, whether it was filled by
\* another client's order, canceled, replaced or never rested, and no order
\* rests without one, unless its replacement was refused.
NamesAreLive ==
  /\ DOMAIN names.token = {names.id[t] : t \in DOMAIN names.id}
  /\ \A t \in DOMAIN names.id : names.token[names.id[t]] = t
  /\ DOMAIN names.token = DOMAIN book \ orphans

\* A client that follows the published messages knows which of its orders rest
\* and how much is left of each, once orders with a refused replacement are
\* set aside.
ClientKnows ==
  /\ \A t \in DOMAIN names.id : t \in DOMAIN view /\ view[t] = book[names.id[t]].qty
  /\ orphans = {} => DOMAIN view = DOMAIN names.id

\* The positions in a stream before, inside and after the header of each of its
\* packets, and before its last byte.
Cuts(stream, packets) ==
  LET ends == {FoldLeft(LAMBDA n, p : n + 3 + Len(p.payload), 0, SubSeq(packets, 1, k)) :
               k \in 0 .. Len(packets)}
  IN {c \in {e + d : e \in ends, d \in -1 .. 2} : c \in 0 .. Len(stream)}

\* However TCP cuts the bytes of a session in two, the packets that come out of
\* them are those that went in.
Reassembled(stream, packets) ==
  \A c \in Cuts(stream, packets) :
    LET first  == Consumed(<<>>, SubSeq(stream, 1, c))
        second == Consumed(first.rest, SubSeq(stream, c + 1, Len(stream)))
    IN first.packets \o second.packets = packets /\ second.rest = <<>>

\* A message decodes to the fields it was encoded from.
Survives(letter, m) ==
  LET buf == Encode(letter, m) IN
  /\ LoadBe(buf, 0, 1) = Char(letter)
  /\ Decode(letter, buf) = [f \in {l[1] : l \in Range(EncodeLayout[letter])} |-> m[f]]

\* What the gateway publishes, and what it is asked, is read at the other end as
\* it was written: every field of every message, the sequence number of a login,
\* and the packets one by one, wherever the stream was cut.
MessagesSurviveTheWire ==
  LET seq    == nextId + 98
      stream == Pumped(7006, seq, sent)
      read   == Consumed(<<>>, stream).packets
  IN /\ Len(read) = 1 + Len(sent)
     /\ read[1].type = Char("A")
     /\ DecodeLoginAccepted(read[1].payload) = [session |-> 7006, sequence |-> seq]
     /\ \A k \in DOMAIN sent :
          /\ read[k + 1].type = Char("S")
          /\ read[k + 1].payload = Encode(Letter[sent[k].type], OnWire(sent[k]))
          /\ Survives(Letter[sent[k].type], OnWire(sent[k]))
     /\ Reassembled(stream, read)
     /\ sent = <<>> =>
          /\ DecodeLoginRequest(SubSeq(FrameLoginRequest(7007, 7008, 7006, seq), 4, 49)) =
               [username |-> 7007, password |-> 7008, session |-> 7006, requested_sequence |-> seq]
          /\ \A t, old \in Tokens, shares \in Sizes, price \in Prices :
               LET m == StandIns @@ [token |-> t, shares |-> shares, price |-> price,
                                     tif |-> Char("I"), existing_token |-> old, new_token |-> t]
               IN Survives("O", m) /\ Survives("X", m) /\ Survives("U", m)

(***************************************************************************)
(* A sentence about the gateway that its code does not keep.                *)
(***************************************************************************)

\* "An order is named by a token the client chose [...] which is exactly what
\* lets a client that lost its connection still know what to ask about"
\* (docs/wire.md:125).  replace gives the old name up before it asks the book,
\* and a refusal leaves the old order resting with no name.
RestingOrdersHaveNames == DOMAIN book = DOMAIN names.token
=============================================================================
