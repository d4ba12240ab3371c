------------------------------ MODULE OuchWire ------------------------------
(***************************************************************************)
(* The bytes between an order entry client and its gateway: the layouts of    *)
(* the messages (ouch.hpp), the packets they travel in (soup.hpp), and the     *)
(* cutting of a stream into packets however it arrives (session.hpp).         *)
(*                                                                          *)
(* A layout gives each field its offset and its width, in the order they are    *)
(* written or by name when they are read.  What encodes a message and what     *)
(* decodes it are functions of their own in the code, and layouts of their own *)
(* here.  A text is a value; its padding is in its store.                      *)
(***************************************************************************)
EXTENDS Bytes

TokenLen == 14
SymbolLen == 8

\* The sums of kEnterOrderLen, kAcceptedLen and the others, by the type of the
\* message: O, X and U to the exchange, the rest from it.
OuchLen ==
  [O |-> 1 + TokenLen + 1 + 4 + SymbolLen + 4 + 1,
   X |-> 1 + TokenLen + 4,
   U |-> 1 + TokenLen + TokenLen + 4 + 4,
   A |-> 1 + 8 + TokenLen + 1 + 4 + SymbolLen + 4 + 8 + 1,
   E |-> 1 + 8 + TokenLen + 4 + 4 + 8,
   C |-> 1 + 8 + TokenLen + 4 + 1,
   J |-> 1 + 8 + TokenLen + 1,
   R |-> 1 + 8 + TokenLen + TokenLen + 4 + 4 + 8 + 1]

\* encode_enter and the other encoders.
EncodeLayout ==
  [O |-> <<<<"token", 1, 14>>, <<"side", 15, 1>>, <<"shares", 16, 4>>, <<"symbol", 20, 8>>,
          <<"price", 28, 4>>, <<"tif", 32, 1>>>>,
   X |-> <<<<"token", 1, 14>>, <<"shares", 15, 4>>>>,
   U |-> <<<<"existing_token", 1, 14>>, <<"new_token", 15, 14>>, <<"shares", 29, 4>>,
          <<"price", 33, 4>>>>,
   A |-> <<<<"timestamp_ns", 1, 8>>, <<"token", 9, 14>>, <<"side", 23, 1>>, <<"shares", 24, 4>>,
          <<"symbol", 28, 8>>, <<"price", 36, 4>>, <<"order_reference", 40, 8>>,
          <<"state", 48, 1>>>>,
   E |-> <<<<"timestamp_ns", 1, 8>>, <<"token", 9, 14>>, <<"shares", 23, 4>>, <<"price", 27, 4>>,
          <<"match_number", 31, 8>>>>,
   C |-> <<<<"timestamp_ns", 1, 8>>, <<"token", 9, 14>>, <<"shares", 23, 4>>,
          <<"reason", 27, 1>>>>,
   J |-> <<<<"timestamp_ns", 1, 8>>, <<"token", 9, 14>>, <<"reason", 23, 1>>>>,
   R |-> <<<<"timestamp_ns", 1, 8>>, <<"new_token", 9, 14>>, <<"previous_token", 23, 14>>,
          <<"shares", 37, 4>>, <<"price", 41, 4>>, <<"order_reference", 45, 8>>,
          <<"state", 53, 1>>>>]

\* decode_enter and the other decoders.
DecodeLayout ==
  [O |-> [token |-> <<1, 14>>, side |-> <<15, 1>>, shares |-> <<16, 4>>, symbol |-> <<20, 8>>,
          price |-> <<28, 4>>, tif |-> <<32, 1>>],
   X |-> [token |-> <<1, 14>>, shares |-> <<15, 4>>],
   U |-> [existing_token |-> <<1, 14>>, new_token |-> <<15, 14>>, shares |-> <<29, 4>>,
          price |-> <<33, 4>>],
   A |-> [timestamp_ns |-> <<1, 8>>, token |-> <<9, 14>>, side |-> <<23, 1>>, shares |-> <<24, 4>>,
          symbol |-> <<28, 8>>, price |-> <<36, 4>>, order_reference |-> <<40, 8>>,
          state |-> <<48, 1>>],
   E |-> [timestamp_ns |-> <<1, 8>>, token |-> <<9, 14>>, shares |-> <<23, 4>>, price |-> <<27, 4>>,
          match_number |-> <<31, 8>>],
   C |-> [timestamp_ns |-> <<1, 8>>, token |-> <<9, 14>>, shares |-> <<23, 4>>,
          reason |-> <<27, 1>>],
   J |-> [timestamp_ns |-> <<1, 8>>, token |-> <<9, 14>>, reason |-> <<23, 1>>],
   R |-> [timestamp_ns |-> <<1, 8>>, new_token |-> <<9, 14>>, previous_token |-> <<23, 14>>,
          shares |-> <<37, 4>>, price |-> <<41, 4>>, order_reference |-> <<45, 8>>,
          state |-> <<53, 1>>]]

Encode(type, m) ==
  Put(Blank(OuchLen[type]),
      <<<<0, 1, Char(type)>>>>
        \o [k \in DOMAIN EncodeLayout[type] |->
             LET f == EncodeLayout[type][k] IN <<f[2], f[3], m[f[1]]>>])

Undecoded == <<>>

\* Any other length and the message is not read at all.
Decode(type, buf) ==
  IF Len(buf) # OuchLen[type] THEN Undecoded
  ELSE [f \in DOMAIN DecodeLayout[type] |->
          LoadBe(buf, DecodeLayout[type][f][1], DecodeLayout[type][f][2])]

-----------------------------------------------------------------------------
(***************************************************************************)
(* Numbers in a login are ASCII, to the right and padded with spaces.        *)
(***************************************************************************)

\* dst[at .. at + n - 1], the digits that fit from the first.
PutNumeric(buf, at, n, v) ==
  LET width == CHOOSE w \in 1 .. 9 : v < 10 ^ w /\ (w = 1 \/ v >= 10 ^ (w - 1))
      len   == IF width > n THEN n ELSE width
      char(i) == IF i < n - len THEN Space
                 ELSE Zero + ((v \div 10 ^ (width - 1 - (i - (n - len)))) % 10)
  IN Put(buf, [k \in 1 .. n |-> <<at + k - 1, 1, char(k - 1)>>])

\* Spaces are passed over wherever they are; anything else that is no digit ends it.
GetNumeric(buf, at, n) ==
  LET read(r, i) ==
        LET c == LoadBe(buf, at + i - 1, 1) IN
        IF r.done \/ c = Space THEN r
        ELSE IF c \notin Zero .. Zero + 9 THEN [r EXCEPT !.done = TRUE]
        ELSE [r EXCEPT !.v = @ * 10 + (c - Zero)]
  IN FoldLeft(read, [v |-> 0, done |-> FALSE], [i \in 1 .. n |-> i]).v

-----------------------------------------------------------------------------
(***************************************************************************)
(* Packets.                                                                 *)
(***************************************************************************)

UsernameLen == 6
PasswordLen == 10
SoupSessionLen == 10
SeqTextLen == 20

Frame(type, payload) ==
  Put(Blank(3), <<<<0, 2, 1 + Len(payload)>>, <<2, 1, Char(type)>>>>) \o payload

FrameLoginRequest(user, pass, session, seq) ==
  LET at   == UsernameLen + PasswordLen + SoupSessionLen
      text == <<<<0, UsernameLen, user>>, <<UsernameLen, PasswordLen, pass>>,
                <<UsernameLen + PasswordLen, SoupSessionLen, session>>>>
  IN Frame("L", PutNumeric(Put(Blank(at + SeqTextLen), text), at, SeqTextLen, seq))

DecodeLoginRequest(buf) ==
  LET at == UsernameLen + PasswordLen + SoupSessionLen IN
  IF Len(buf) # at + SeqTextLen THEN Undecoded
  ELSE [username |-> LoadBe(buf, 0, UsernameLen),
        password |-> LoadBe(buf, UsernameLen, PasswordLen),
        session  |-> LoadBe(buf, UsernameLen + PasswordLen, SoupSessionLen),
        requested_sequence |-> GetNumeric(buf, at, SeqTextLen)]

FrameLoginAccepted(session, seq) ==
  Frame("A", PutNumeric(Put(Blank(SoupSessionLen + SeqTextLen), <<<<0, SoupSessionLen, session>>>>),
                        SoupSessionLen, SeqTextLen, seq))

DecodeLoginAccepted(buf) ==
  IF Len(buf) # SoupSessionLen + SeqTextLen THEN Undecoded
  ELSE [session  |-> LoadBe(buf, 0, SoupSessionLen),
        sequence |-> GetNumeric(buf, SoupSessionLen, SeqTextLen)]

NoPacket == [consumed |-> 0]

\* Faulty variant: the two bytes of the length itself are not waited for.
ParseEarly(buf, off) ==
  LET total == LoadBe(buf, off, 2) IN
  IF Len(buf) - off < 2 \/ total = 0 \/ total \notin 0 .. Len(buf) - off THEN NoPacket
  ELSE [consumed |-> 2 + total, type |-> LoadBe(buf, off + 2, 1),
        payload |-> SubSeq(buf \o Blank(2), off + 4, off + 2 + total)]

\* The packet at off, once all of it is there.
Parse(buf, off) ==
  LET total == LoadBe(buf, off, 2) IN
  IF Len(buf) - off < 2 \/ total = 0 \/ total \notin 0 .. Len(buf) - off - 2 THEN NoPacket
  ELSE [consumed |-> 2 + total, type |-> LoadBe(buf, off + 2, 1),
        payload |-> SubSeq(buf, off + 4, off + 2 + total)]

\* consume: the packets that bytes complete, after what was left of the last, and
\* what is left this time.
Consumed(partial, bytes) ==
  LET buf == partial \o bytes
      run[off \in Nat] ==
        LET pk == Parse(buf, off) IN
        IF pk.consumed = 0
          THEN [packets |-> <<>>, rest |-> SubSeq(buf, off + 1, Len(buf))]
          ELSE LET later == run[off + pk.consumed] IN
               [later EXCEPT !.packets = <<[type |-> pk.type, payload |-> pk.payload]>> \o @]
  IN run[0]
=============================================================================
