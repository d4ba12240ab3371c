------------------------------ MODULE MoldFeed ------------------------------
(***************************************************************************)
(* The market data wire: PacketWriter (encoder.hpp), Decoder (decoder.hpp,   *)
(* decoder.cpp) and the journal of packets (journal.hpp), as operators.      *)
(*                                                                          *)
(* An ITCH message is a record with its `type` and the fields that type      *)
(* carries; a MoldUDP64 packet is a record of the sequence number of its     *)
(* first message, its message count and its messages, of which there are     *)
(* fewer than the count when the packet was cut short.                       *)
(***************************************************************************)
EXTENDS Integers, Sequences, SequencesExt

CONSTANTS
  Mtu,         \* messages a packet holds, a number of bytes in the code
  PriceScale,  \* wire prices in one tick, 10^(4 - price_decimals)
  SizeScale    \* engine quantities in one wire share, kQtyScale / kWireSizeScale

ASSUME FeedAssumption ==
  Mtu \in Nat \ {0} /\ PriceScale \in Nat \ {0} /\ SizeScale \in Nat \ {0}

\* A message count of 0xFFFF says that the session is over.
EndOfSession == -1

\* Prices and sizes on the wire: what is not a multiple of a share is cut off.
TickToWire(tick) == tick * PriceScale
WireToTick(price) == price \div PriceScale
QtyToWire(qty) == qty \div SizeScale
WireToQty(shares) == shares * SizeScale

-----------------------------------------------------------------------------
(***************************************************************************)
(* PacketWriter.  A writer has the packet it is filling, the number of that  *)
(* packet's first message, and the file it writes to.                        *)
(***************************************************************************)

Packet(seq, count, msgs) == [seq |-> seq, count |-> count, msgs |-> msgs]

FreshWriter == [open |-> <<>>, next_seq |-> 1, file |-> <<>>]

Flush(w) ==
  IF w.open = <<>> THEN w
  ELSE [open     |-> <<>>,
        next_seq |-> w.next_seq + Len(w.open),
        file     |-> Append(w.file, Packet(w.next_seq, Len(w.open), w.open))]

Write(w, m) == [(IF Len(w.open) = Mtu THEN Flush(w) ELSE w) EXCEPT !.open = Append(@, m)]

WriteEndOfSession(w) ==
  LET f == Flush(w) IN
  [f EXCEPT !.file = Append(@, Packet(f.next_seq, EndOfSession, <<>>))]

-----------------------------------------------------------------------------
(***************************************************************************)
(* Decoder.  It has the symbols it was told of, the number of the message it *)
(* expects next, whether it expects any, and its counters.  Decoding appends *)
(* to `out` the commands, each with its symbol, and to `marks` the positions *)
(* in `out` at which a trading session began.                                *)
(***************************************************************************)

FreshDecoder ==
  [specs |-> {}, expected |-> 0, have_seq |-> FALSE,
   sequence_gaps |-> 0, gap_messages |-> 0, out_of_order |-> 0, truncated |-> 0,
   unknown_symbol |-> 0, end_of_session |-> 0,
   out |-> <<>>, marks |-> <<>>]

\* The one command an order message stands for.
CommandOf(m) ==
  CASE m.type = "A" -> [type |-> "AddLimit", ts |-> m.ts, id |-> m.ref, side |-> m.side,
                        tick |-> WireToTick(m.price), qty |-> WireToQty(m.shares), tif |-> "Gtc"]
    [] m.type = "E" -> [type |-> "Execute", ts |-> m.ts, id |-> m.ref, qty |-> WireToQty(m.shares)]
    [] m.type = "X" -> [type |-> "Reduce", ts |-> m.ts, id |-> m.ref, qty |-> WireToQty(m.shares)]
    [] m.type = "D" -> [type |-> "Cancel", ts |-> m.ts, id |-> m.ref]
    [] m.type = "U" -> [type |-> "Replace", ts |-> m.ts, id |-> m.ref, id2 |-> m.new_ref,
                        tick |-> WireToTick(m.price), qty |-> WireToQty(m.shares)]

DecodeMessage(d, m) ==
  CASE m.type = "z" -> [d EXCEPT !.specs = @ \union {m.locate}]
    [] m.type = "S" ->
         IF m.code = "StartOfSystemHours" THEN [d EXCEPT !.marks = Append(@, Len(d.out))] ELSE d
    [] OTHER ->
         IF m.locate \notin d.specs THEN [d EXCEPT !.unknown_symbol = @ + 1]
         ELSE [d EXCEPT !.out = Append(@, [locate |-> m.locate, cmd |-> CommandOf(m)])]

\* Faulty variant: a late packet is not told from a gap.
SequenceCheckOneSided(d, seq) ==
  IF d.have_seq /\ seq # d.expected
    THEN [d EXCEPT !.sequence_gaps = @ + 1,
                   !.gap_messages = @ + (IF seq > d.expected THEN 0 ELSE d.expected - seq)]
    ELSE d

\* A packet that does not start where the last one ended.
SequenceCheck(d, seq) ==
  IF d.have_seq /\ seq > d.expected
    THEN [d EXCEPT !.sequence_gaps = @ + 1, !.gap_messages = @ + (seq - d.expected)]
  ELSE IF d.have_seq /\ seq < d.expected THEN [d EXCEPT !.out_of_order = @ + 1]
  ELSE d

\* The number after the last message that could be read.
NextExpected(p) == p.seq + Len(p.msgs)

\* Late, repeated or cut, a packet is decoded as far as it goes.
DecodePacket(d, p) ==
  IF p.count = EndOfSession THEN [d EXCEPT !.end_of_session = @ + 1]
  ELSE LET cut == IF Len(p.msgs) < p.count THEN 1 ELSE 0
           s   == SequenceCheck(d, p.seq)
           r   == FoldLeft(DecodeMessage, s, p.msgs)
       IN [s EXCEPT !.specs = r.specs, !.out = r.out, !.marks = r.marks,
                    !.unknown_symbol = r.unknown_symbol, !.truncated = @ + cut,
                    !.expected = NextExpected(p), !.have_seq = TRUE]

\* A caller that decodes packet by packet empties both vectors first.
Emptied(d) == [d EXCEPT !.out = <<>>, !.marks = <<>>]

-----------------------------------------------------------------------------
(***************************************************************************)
(* The journal: every packet, framed, in the order it was read.  The file is *)
(* a sequence of cells, the least that a crash can leave: the two halves of  *)
(* a record's header, then the packet's own header and its messages.  A      *)
(* position is the number of cells before it.                                *)
(***************************************************************************)

PacketCells(p) ==
  <<[seq |-> p.seq, count |-> p.count]>> \o [k \in DOMAIN p.msgs |-> [msg |-> p.msgs[k]]]

JournalAppend(j, p) == j \o <<[half |-> 1], [len |-> Len(p.msgs) + 1]>> \o PacketCells(p)

\* Faulty variant: the payload is taken to be whole when the header is.
JournalEndsWithHeader(j, off) == off + 3 > Len(j)

\* No whole record starts at off.
JournalEnds(j, off) == off + 2 > Len(j) \/ off + 2 + j[off + 2].len > Len(j)

\* The packet in the record that starts at off, as far as the file goes.
JournalPacket(j, off) ==
  LET cells == SubSeq(j, off + 3, Min({off + 2 + j[off + 2].len, Len(j)})) IN
  Packet(cells[1].seq, cells[1].count, [k \in 1 .. Len(cells) - 1 |-> cells[k + 1].msg])

\* JournalReader::next, called until it returns false.
JournalPackets(j) ==
  LET from[off \in 0 .. Len(j) + 2] ==
        IF JournalEnds(j, off) THEN <<>>
        ELSE <<JournalPacket(j, off)>> \o from[Min({off + 2 + j[off + 2].len, Len(j)})]
  IN from[0]
=============================================================================
