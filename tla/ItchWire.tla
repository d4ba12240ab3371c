------------------------------ MODULE ItchWire ------------------------------
(***************************************************************************)
(* The layouts of the market data messages (itch.hpp) and the two decoders    *)
(* of one message that read them (itch_fixed.hpp): one with a table of         *)
(* offsets and masks for every type, one with a case for each.                 *)
(*                                                                          *)
(* A message on the wire is its bytes, in a buffer of 48 with Slack behind it,  *)
(* and its length.                                                          *)
(***************************************************************************)
EXTENDS MoldFeed, Bytes

BufferLen == 48
Slack == 8
HeaderLen == 11

MessageLength(type) ==
  CASE type = Char("S") -> 12
    [] type = Char("A") -> 36
    [] type = Char("F") -> 40
    [] type = Char("E") -> 31
    [] type = Char("C") -> 36
    [] type = Char("X") -> 23
    [] type = Char("D") -> 19
    [] type = Char("U") -> 35
    [] type = Char("P") -> 44
    [] type = Char("z") -> 21
    [] OTHER -> 0

MessageTypes == {Char(c) : c \in {"S", "A", "F", "E", "C", "X", "D", "U", "P", "z", "Q"}}

-----------------------------------------------------------------------------
(***************************************************************************)
(* Encoding, one operator a function of itch.hpp.                            *)
(***************************************************************************)

EncodeHeader(type, locate, tracking, ts) ==
  Put(Blank(BufferLen + Slack),
      <<<<0, 1, Char(type)>>, <<1, 2, locate>>, <<3, 2, tracking>>, <<5, 6, ts>>>>)

Message(len, bytes) == [len |-> len, bytes |-> bytes]

EncodeAdd(locate, tracking, ts, ref, side, shares, symbol, price) ==
  Message(36, Put(EncodeHeader("A", locate, tracking, ts),
    <<<<11, 8, ref>>, <<19, 1, side>>, <<20, 4, shares>>, <<24, 8, symbol>>, <<32, 4, price>>>>))

EncodeExecuted(locate, tracking, ts, ref, shares, match) ==
  Message(31, Put(EncodeHeader("E", locate, tracking, ts),
    <<<<11, 8, ref>>, <<19, 4, shares>>, <<23, 8, match>>>>))

EncodeCancel(locate, tracking, ts, ref, shares) ==
  Message(23, Put(EncodeHeader("X", locate, tracking, ts), <<<<11, 8, ref>>, <<19, 4, shares>>>>))

EncodeDelete(locate, tracking, ts, ref) ==
  Message(19, Put(EncodeHeader("D", locate, tracking, ts), <<<<11, 8, ref>>>>))

EncodeReplace(locate, tracking, ts, ref, new_ref, shares, price) ==
  Message(35, Put(EncodeHeader("U", locate, tracking, ts),
    <<<<11, 8, ref>>, <<19, 8, new_ref>>, <<27, 4, shares>>, <<31, 4, price>>>>))

EncodeSymbolDirectory(locate, ts, symbol, price_decimals, size_decimals) ==
  Message(21, Put(EncodeHeader("z", locate, 0, ts),
    <<<<11, 8, symbol>>, <<19, 1, price_decimals>>, <<20, 1, size_decimals>>>>))

-----------------------------------------------------------------------------
(***************************************************************************)
(* Decoding, likewise.                                                      *)
(***************************************************************************)

DecodeHeader(b) ==
  [type |-> LoadBe(b, 0, 1), stock_locate |-> LoadBe(b, 1, 2), tracking_number |-> LoadBe(b, 3, 2),
   timestamp |-> LoadBe(b, 5, 6)]

DecodeAdd(b) ==
  [order_ref |-> LoadBe(b, 11, 8), side |-> LoadBe(b, 19, 1), shares |-> LoadBe(b, 20, 4),
   symbol |-> LoadBe(b, 24, 8), price |-> LoadBe(b, 32, 4)]

DecodeExecuted(b) ==
  [order_ref |-> LoadBe(b, 11, 8), shares |-> LoadBe(b, 19, 4), match_number |-> LoadBe(b, 23, 8)]

DecodeCancel(b) == [order_ref |-> LoadBe(b, 11, 8), shares |-> LoadBe(b, 19, 4)]

DecodeDelete(b) == [order_ref |-> LoadBe(b, 11, 8)]

DecodeReplace(b) ==
  [original_ref |-> LoadBe(b, 11, 8), new_ref |-> LoadBe(b, 19, 8), shares |-> LoadBe(b, 27, 4),
   price |-> LoadBe(b, 31, 4)]

DecodeSymbolDirectory(b) ==
  [symbol |-> LoadBe(b, 11, 8), price_decimals |-> LoadBe(b, 19, 1),
   size_decimals |-> LoadBe(b, 20, 1)]

SideOfChar(c) == IF c = Char("B") THEN "Buy" ELSE "Sell"

Unread == [type |-> "none"]

\* The message that Decoder::decode_message reads in len bytes: one of module
\* MoldFeed, or none when the length is not the type's.
Read(b, len) ==
  LET h  == DecodeHeader(b)
      of(type, ref, rest) ==
        rest @@ [type |-> type, locate |-> h.stock_locate, ts |-> h.timestamp, ref |-> ref]
  IN IF len < HeaderLen \/ len # MessageLength(h.type) THEN Unread
     ELSE CASE h.type \in {Char("A"), Char("F")} ->
                 LET a == DecodeAdd(b) IN
                 of("A", a.order_ref,
                    [side |-> SideOfChar(a.side), shares |-> a.shares, price |-> a.price])
            [] h.type \in {Char("E"), Char("C")} ->
                 LET e == DecodeExecuted(b) IN of("E", e.order_ref, [shares |-> e.shares])
            [] h.type = Char("X") ->
                 LET x == DecodeCancel(b) IN of("X", x.order_ref, [shares |-> x.shares])
            [] h.type = Char("D") -> of("D", DecodeDelete(b).order_ref, <<>>)
            [] h.type = Char("U") ->
                 LET r == DecodeReplace(b) IN
                 of("U", r.original_ref,
                    [new_ref |-> r.new_ref, shares |-> r.shares, price |-> r.price])
            [] h.type = Char("z") -> [type |-> "z", locate |-> h.stock_locate]
            [] OTHER -> Unread

-----------------------------------------------------------------------------
(***************************************************************************)
(* decode_switch and decode_fixed: a command with every field, or none.       *)
(***************************************************************************)

NoCommand == [emits |-> 0]

Command(type, ts, id, id2, qty, tick, side) ==
  [emits |-> 1, type |-> type, ts |-> ts, id |-> id, id2 |-> id2, qty |-> qty, tick |-> tick,
   side |-> side]

DecodeSwitch(b, len) ==
  LET type  == LoadBe(b, 0, 1)
      ts    == LoadBe(b, 5, 6)
      id    == LoadBe(b, 11, 8)
      id2   == LoadBe(b, 19, 8)
      qty(at)  == WireToQty(LoadBe(b, at, 4))
      tick(at) == WireToTick(LoadBe(b, at, 4))
  IN IF MessageLength(type) = 0 \/ len # MessageLength(type) THEN NoCommand
     ELSE CASE type \in {Char("A"), Char("F")} ->
                 Command("AddLimit", ts, id, 0, qty(20), tick(32), SideOfChar(LoadBe(b, 19, 1)))
            [] type \in {Char("E"), Char("C")} -> Command("Execute", ts, id, 0, qty(19), 0, "Buy")
            [] type = Char("X") -> Command("Reduce", ts, id, 0, qty(19), 0, "Buy")
            [] type = Char("D") -> Command("Cancel", ts, id, 0, 0, 0, "Buy")
            [] type = Char("U") -> Command("Replace", ts, id, id2, qty(27), tick(31), "Buy")
            [] OTHER -> NoCommand

Desc(len, id2_off, qty_off, price_off, side_off, id2, qty, price, side, emits, cmd) ==
  [len |-> len, id_off |-> 11, id2_off |-> id2_off, qty_off |-> qty_off, price_off |-> price_off,
   side_off |-> side_off, id2_mask |-> id2, qty_mask |-> qty, price_mask |-> price,
   side_mask |-> side, emits |-> emits, cmd |-> cmd]

\* make_desc.  A mask is all of its bits or none.
MakeDesc(type) ==
  CASE type = Char("A") -> Desc(36, 0, 20, 32, 19, FALSE, TRUE, TRUE, TRUE, 1, "AddLimit")
    [] type = Char("F") -> Desc(40, 0, 20, 32, 19, FALSE, TRUE, TRUE, TRUE, 1, "AddLimit")
    [] type = Char("E") -> Desc(31, 0, 19, 0, 0, FALSE, TRUE, FALSE, FALSE, 1, "Execute")
    [] type = Char("C") -> Desc(36, 0, 19, 0, 0, FALSE, TRUE, FALSE, FALSE, 1, "Execute")
    [] type = Char("X") -> Desc(23, 0, 19, 0, 0, FALSE, TRUE, FALSE, FALSE, 1, "Reduce")
    [] type = Char("D") -> Desc(19, 0, 0, 0, 0, FALSE, FALSE, FALSE, FALSE, 1, "Cancel")
    [] type = Char("U") -> Desc(35, 19, 27, 31, 0, TRUE, TRUE, TRUE, FALSE, 1, "Replace")
    [] type = Char("P") -> Desc(44, 0, 20, 32, 19, FALSE, FALSE, FALSE, FALSE, 0, "Nop")
    [] OTHER -> Desc(0, 0, 0, 0, 0, FALSE, FALSE, FALSE, FALSE, 0, "Nop")

Masked(v, mask) == IF mask THEN v ELSE 0

\* Faulty variant: a side that is absent is masked to zero like a number.
MaskedSideZero(c, mask) == Masked(c, mask)

\* A side that is absent reads 'B'.
MaskedSide(c, mask) == IF mask THEN c ELSE Char("B")

DecodeFixed(b, len) ==
  LET d     == MakeDesc(LoadBe(b, 0, 1))
      price == Masked(LoadBe(b, d.price_off, 4), d.price_mask)
  IN IF d.len = 0 \/ len # d.len \/ d.emits = 0 THEN NoCommand
     ELSE Command(d.cmd, LoadBe(b, 5, 6), LoadBe(b, d.id_off, 8),
                  Masked(LoadBe(b, d.id2_off, 8), d.id2_mask),
                  WireToQty(Masked(LoadBe(b, d.qty_off, 4), d.qty_mask)),
                  IF price = 0 THEN 0 ELSE WireToTick(price),
                  SideOfChar(MaskedSide(LoadBe(b, d.side_off, 1), d.side_mask)))

\* Where the last byte ends that decode_fixed loads.
LastLoad(type) ==
  LET d == MakeDesc(type) IN
  Max({11, d.id_off + 8, d.id2_off + 8, d.qty_off + 4, d.price_off + 4, d.side_off + 1})
=============================================================================
