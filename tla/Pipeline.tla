------------------------------ MODULE Pipeline ------------------------------
(***************************************************************************)
(* The way of a market day through the tools: itchgen reconstructs it and    *)
(* writes what its engine did as a feed; itchfeed --check reads the feed     *)
(* into a book of its own and holds it against the exchange's snapshots;     *)
(* itchfeed --journal applies it to a book per symbol and records every      *)
(* packet; after a crash, itchfeed --from-journal replays what was recorded.  *)
(*                                                                          *)
(* The tools run one after another and share files only.  A step of itchgen  *)
(* is one iteration of the reconstruction's loop, or what main does between   *)
(* days; a step of a reader is one packet.  A market may also be studied, by   *)
(* mlgen a snapshot at a time and by the two tools that mark its prints.      *)
(***************************************************************************)
EXTENDS TapeStudy, ItchWire

CONSTANTS
  Markets,     \* the recorded markets: the raw lines of each day, how many symbols
               \* to write them under, and the tools to run: itchgen's readers, "study"
  RefBase      \* 2^56, above every reference of one symbol

\* The check has one book and no symbol: it is for feeds of one.
ASSUME PipelineAssumption ==
  \A m \in Markets : "check" \in m.readers => m.symbols = 1

VARIABLES
  market,      \* the recording on disk
  gen,         \* itchgen: where main is, the day it runs, Reconstructor, emitter
  writer,      \* its PacketWriter, with the file
  chk,         \* itchfeed --check
  app,         \* itchfeed --journal
  rpl,         \* itchfeed --from-journal
  study        \* mlgen, wallets and ltxsim --tape-markout

vars == <<market, gen, writer, chk, app, rpl, study>>

\* The session starts at midnight of the day its first snapshot falls in.
Epoch(snaps) == (snaps[1].time \div DayLength) * DayLength

Without(f, x) == [y \in DOMAIN f \ {x} |-> f[y]]

NoneYet == [x \in {} |-> 0]

-----------------------------------------------------------------------------
(***************************************************************************)
(* ItchEmitter, the sink and observer of the reconstruction.  A message is   *)
(* pushed with no locate; live_ is what the wire believes is resting.         *)
(***************************************************************************)

FreshEmitter == [live |-> NoneYet, pending |-> NoneYet, next_ref |-> 0, last_ts |-> 0,
                 pushed |-> <<>>]

Push(em, m) == [em EXCEPT !.pushed = Append(@, m)]

DeleteMessage(ts, ref) == [type |-> "D", locate |-> 0, ts |-> ts, ref |-> ref]

RetireAll(em, ts) ==
  LET refs == SetToSeq({em.live[id].ref : id \in DOMAIN em.live}) IN
  [em EXCEPT !.pushed = @ \o [k \in DOMAIN refs |-> DeleteMessage(ts, refs[k])],
             !.live = NoneYet, !.pending = NoneYet]

\* Faulty variant: the teardown carries the time of the last event before it.
OnReseedLate(em, ts) == [RetireAll(em, em.last_ts) EXCEPT !.last_ts = ts]

\* Every order still on the wire is deleted, at the time of the new snapshot.
OnReseed(em, ts) == [RetireAll(em, ts) EXCEPT !.last_ts = ts]

\* The accept that ends a reprice goes out as one replace, any other as an add.
OnAccept(em, ts, e) ==
  LET ref == em.next_ref + 1
      m   == IF e.id \in DOMAIN em.pending
               THEN [type |-> "U", locate |-> 0, ts |-> ts, ref |-> em.pending[e.id], new_ref |-> ref,
                     shares |-> QtyToWire(e.qty), price |-> TickToWire(e.tick)]
               ELSE [type |-> "A", locate |-> 0, ts |-> ts, ref |-> ref, side |-> e.side,
                     shares |-> QtyToWire(e.qty), price |-> TickToWire(e.tick)]
  IN [Push(em, m) EXCEPT
        !.last_ts = ts, !.next_ref = ref, !.pending = Without(@, e.id),
        !.live = (e.id :> [ref |-> ref, qty |-> e.qty, tick |-> e.tick, side |-> e.side]) @@ @]

OnCancel(em, ts, e) ==
  LET o    == em.live[e.id]
      told == [em EXCEPT !.last_ts = ts]
  IN IF e.reason \in {"Ioc", "Fok"} \/ e.id \notin DOMAIN em.live THEN told
     ELSE IF e.reason = "Replace" /\ e.qty < o.qty
       THEN [Push(told, [type |-> "X", locate |-> 0, ts |-> ts, ref |-> o.ref,
                         shares |-> QtyToWire(e.qty)]) EXCEPT !.live[e.id].qty = @ - e.qty]
     ELSE IF e.reason = "Replace"
       THEN [told EXCEPT !.pending = (e.id :> o.ref) @@ @, !.live = Without(@, e.id)]
     ELSE [Push(told, DeleteMessage(ts, o.ref)) EXCEPT !.live = Without(@, e.id)]

Executed(em, ts, e) ==
  Push([em EXCEPT !.last_ts = ts],
       [type |-> "E", locate |-> 0, ts |-> ts, ref |-> em.live[e.id].ref,
        shares |-> QtyToWire(e.qty)])

\* Faulty variant: a filled order stays on the emitter's list.
OnTradeKeepingFilled(em, ts, e) ==
  IF e.id \notin DOMAIN em.live THEN [em EXCEPT !.last_ts = ts]
  ELSE [Executed(em, ts, e) EXCEPT !.live[e.id].qty = e.left]

OnTrade(em, ts, e) ==
  IF e.id \notin DOMAIN em.live THEN [em EXCEPT !.last_ts = ts]
  ELSE IF e.left = 0 THEN [Executed(em, ts, e) EXCEPT !.live = Without(@, e.id)]
  ELSE [Executed(em, ts, e) EXCEPT !.live[e.id].qty = e.left]

Hear(em, n) ==
  CASE n.kind = "reseed" -> OnReseed(em, n.ts)
    [] n.kind = "event" /\ n.event.kind = "accept" -> OnAccept(em, n.ts, n.event)
    [] n.kind = "event" /\ n.event.kind = "cancel" -> OnCancel(em, n.ts, n.event)
    [] n.kind = "event" /\ n.event.kind = "trade"  -> OnTrade(em, n.ts, n.event)
    [] OTHER -> em

\* A message under a symbol: its locate, the session's clock, its own references.
ForSymbol(m, locate, epoch) ==
  LET tag == locate * RefBase IN
  IF m.type = "U"
    THEN [m EXCEPT !.locate = locate, !.ts = @ - epoch, !.ref = @ + tag, !.new_ref = @ + tag]
    ELSE [m EXCEPT !.locate = locate, !.ts = @ - epoch, !.ref = @ + tag]

-----------------------------------------------------------------------------
(***************************************************************************)
(* The bytes of those messages.  The emitter encodes a message once, with no  *)
(* locate and a placeholder for the symbol; what is written for a symbol is a  *)
(* copy with the bytes that differ stored over.                              *)
(***************************************************************************)

Placeholder == 999

CharOf(side) == IF side = "Buy" THEN Char("B") ELSE Char("S")

\* A message as it is pushed: its bytes, and its time again beside them.
Encoded(m) ==
  [ts |-> m.ts] @@
  CASE m.type = "A" -> EncodeAdd(0, 0, m.ts, m.ref, CharOf(m.side), m.shares, Placeholder, m.price)
    [] m.type = "X" -> EncodeCancel(0, 0, m.ts, m.ref, m.shares)
    [] m.type = "U" -> EncodeReplace(0, 0, m.ts, m.ref, m.new_ref, m.shares, m.price)
    [] m.type = "E" -> EncodeExecuted(0, 0, m.ts, m.ref, m.shares, 0)
    [] m.type = "D" -> EncodeDelete(0, 0, m.ts, m.ref)

\* The text of symbol k.
SymbolText(k) == Placeholder + k

DirectoryMessage(locate) == EncodeSymbolDirectory(locate, 0, SymbolText(locate), 1, 4)

\* write_for_symbol.  The clock starts with the session, from the time beside the
\* bytes, not from the 48 bits of it among them; references are kept apart by
\* their top byte.
Patched(wire, locate, epoch) ==
  LET type == LoadBe(wire.bytes, 0, 1)
      tagged(at) == <<at, 8, LoadBe(wire.bytes, at, 8) + locate * RefBase>>
      stores == <<<<1, 2, locate>>, <<5, 6, wire.ts - epoch>>>>
                  \o (CASE type \in {Char("A"), Char("F")} ->
                             <<tagged(11), <<24, 8, SymbolText(locate)>>>>
                        [] type = Char("U") -> <<tagged(11), tagged(19)>>
                        [] OTHER -> <<tagged(11)>>)
  IN [wire EXCEPT !.bytes = Put(@, stores)]

-----------------------------------------------------------------------------
(***************************************************************************)
(* itchgen.                                                                 *)
(***************************************************************************)

WriteAll(w, messages) == FoldLeft(Write, w, messages)

SystemEvent(code) == [type |-> "S", code |-> code]

\* The symbol directory first, so that a reader knows the scales.
WriteDirectory ==
  /\ gen.at = "directory" /\ "study" \notin market.readers
  /\ writer' = WriteAll(writer,
                 [k \in 1 .. market.symbols |-> [type |-> "z", locate |-> k]]
                   \o <<SystemEvent("StartOfMessages")>>)
  /\ gen' = [gen EXCEPT !.at = "day"]
  /\ UNCHANGED <<market, study, chk, app, rpl>>

\* A day with fewer than two snapshots is left out, session mark and all.
StartDay ==
  /\ gen.at = "day" /\ gen.day < Len(market.days)
  /\ LET lines == market.days[gen.day + 1]
         snaps == LoadSnapshots(lines.book)
     IN IF Len(snaps) < 2
          THEN gen' = [gen EXCEPT !.day = @ + 1] /\ UNCHANGED writer
          ELSE /\ writer' = Write(writer, SystemEvent("StartOfSystemHours"))
               /\ gen' = [at |-> "run", day |-> gen.day + 1, snaps |-> snaps,
                          trades |-> LoadTrades(lines.trades), next_snap |-> 1, next_trade |-> 1,
                          rec |-> FreshReconstructor, em |-> FreshEmitter]
  /\ UNCHANGED <<market, study, chk, app, rpl>>

\* The reconstruction goes on to r, and the emitter hears what it had to say.
Emitting(r) ==
  [gen EXCEPT !.rec = [r EXCEPT !.notes = <<>>], !.em = FoldLeft(Hear, @, r.notes)]

RunTrade ==
  /\ gen.at = "run" /\ TradeDue(gen)
  /\ gen' = [(IF TradeIsDropped(gen) THEN gen
              ELSE Emitting(PushTrade(gen.rec, gen.trades[gen.next_trade])))
               EXCEPT !.next_trade = @ + 1]
  /\ UNCHANGED <<market, study, writer, chk, app, rpl>>

RunSnapshot ==
  /\ gen.at = "run" /\ ~TradeDue(gen) /\ gen.next_snap <= Len(gen.snaps)
  /\ gen' = [Emitting(PushSnapshot(gen.rec, gen.snaps[gen.next_snap])) EXCEPT !.next_snap = @ + 1]
  /\ UNCHANGED <<market, study, writer, chk, app, rpl>>

\* The messages of the day, each under every symbol in turn.
WriteDay ==
  /\ gen.at = "run" /\ gen.next_snap > Len(gen.snaps)
  /\ IF gen.rec.mismatch # 0 THEN gen' = [gen EXCEPT !.at = "refused"] /\ UNCHANGED writer
     ELSE /\ gen' = [gen EXCEPT !.at = "day"]
          /\ writer' = WriteAll(writer,
               FlattenSeq([k \in DOMAIN gen.em.pushed |->
                 [s \in 1 .. market.symbols |->
                    ForSymbol(gen.em.pushed[k], s, Epoch(gen.snaps))]]))
  /\ UNCHANGED <<market, study, chk, app, rpl>>

EndFeed ==
  /\ gen.at = "day" /\ gen.day = Len(market.days)
  /\ gen' = [gen EXCEPT !.at = "done"]
  /\ writer' = WriteEndOfSession(Write(writer, SystemEvent("EndOfMessages")))
  /\ UNCHANGED <<market, study, chk, app, rpl>>

-----------------------------------------------------------------------------
(***************************************************************************)
(* itchfeed --check.  It reads one symbol; its --days are the days the file  *)
(* covers.  si is the snapshot it compares next, bad what it found wrong.     *)
(***************************************************************************)

Covered == SelectSeq(market.days, LAMBDA d : Len(d.book) >= 2)

\* The snapshots from si on that `due` tells of, against the book as it stands.
CompareDue(c, due) ==
  [c EXCEPT !.si = @ + Cardinality(due), !.windows = @ + Cardinality(due),
            !.bad = @ + MapThenSumSet(LAMBDA k : Mismatch(c.book, c.snaps[k]), due)]

Remaining(c) == c.si .. Len(c.snaps)

\* A session mark: finish the day before, clear the book, load the next day.
CheckNewDay(c) ==
  LET d == CompareDue(c, Remaining(c)) IN
  IF c.day >= Len(Covered) THEN [d EXCEPT !.day = @ + 1]
  ELSE [d EXCEPT !.day = @ + 1, !.si = 1, !.book = Engine!FreshBook,
                 !.snaps = LoadSnapshots(Covered[c.day + 1].book)]

\* A command is applied after the comparisons that fall before its time.
CheckCommand(c, m) ==
  LET d == CompareDue(c, {k \in Remaining(c) : c.snaps[k].time - Epoch(c.snaps) < m.cmd.ts}) IN
  IF c.day \notin 1 .. Len(Covered) THEN c ELSE [d EXCEPT !.book = Apply(@, m.cmd).b]

CheckPacket ==
  /\ gen.at = "done" /\ "check" \in market.readers /\ chk.off < Len(writer.file)
  /\ LET dec   == DecodePacket(Emptied(chk.dec), writer.file[chk.off + 1])
         days(c, j) == FoldLeft(LAMBDA x, k : IF dec.marks[k] = j THEN CheckNewDay(x) ELSE x,
                                c, [k \in DOMAIN dec.marks |-> k])
         read(c, j) == CheckCommand(days(c, j - 1), dec.out[j])
         all   == FoldLeft(read, [chk EXCEPT !.off = @ + 1, !.dec = dec],
                           [j \in DOMAIN dec.out |-> j])
         end   == days(all, Len(dec.out))
     IN chk' = IF chk.off + 1 = Len(writer.file) /\ end.day \in 1 .. Len(Covered)
                 THEN CompareDue(end, Remaining(end)) ELSE end
  /\ UNCHANGED <<market, study, gen, writer, app, rpl>>

-----------------------------------------------------------------------------
(***************************************************************************)
(* itchfeed --journal and --from-journal: a book per symbol.  `trail` is a    *)
(* history of the books after each packet.                                   *)
(***************************************************************************)

\* MultiBook::ensure: a symbol's engine and its EventHasher, made when first named.
Ensure(books, locate) ==
  IF locate \in DOMAIN books THEN books
  ELSE (locate :> [engine |-> Engine!FreshBook, hash |-> <<>>]) @@ books

\* EventHasher.  A hash is kept as what was mixed into it, event by event.
Mixed(hash, ts, events) == hash \o [k \in DOMAIN events |-> <<ts, events[k]>>]

\* Every command of a packet, to the book of its symbol.
ApplyRouted(books, routed) ==
  FoldLeft(LAMBDA bs, m :
             LET at   == Ensure(bs, m.locate)
                 done == Apply(at[m.locate].engine, m.cmd)
             IN [at EXCEPT ![m.locate] = [engine |-> done.b,
                                          hash   |-> Mixed(@.hash, m.cmd.ts, done.events)]],
           books, routed)

CheckIsOver == gen.at = "done" /\ ("check" \in market.readers => chk.off = Len(writer.file))

\* The packet is in the journal before it is decoded.
ApplyPacket ==
  /\ CheckIsOver /\ "journal" \in market.readers /\ app.at = "running" /\ app.off < Len(writer.file)
  /\ LET p     == writer.file[app.off + 1]
         dec   == DecodePacket(Emptied(app.dec), p)
         books == ApplyRouted(app.books, dec.out)
     IN app' = [app EXCEPT !.off = @ + 1, !.journal = JournalAppend(@, p), !.dec = dec,
                           !.books = books, !.trail = Append(@, books)]
  /\ UNCHANGED <<market, study, gen, writer, chk, rpl>>

FinishFeed ==
  /\ app.at = "running" /\ app.off = Len(writer.file) /\ gen.at = "done"
  /\ app' = [app EXCEPT !.at = "stopped"]
  /\ UNCHANGED <<market, study, gen, writer, chk, rpl>>

\* The process dies.  Of what it wrote, some prefix is in the file.
Crash ==
  /\ app.at = "running" /\ app.off > 0
  /\ \E kept \in 0 .. Len(app.journal) :
       app' = [app EXCEPT !.at = "stopped", !.journal = SubSeq(@, 1, kept)]
  /\ UNCHANGED <<market, study, gen, writer, chk, rpl>>

ReplayJournal ==
  /\ app.at = "stopped" /\ ~rpl.done
  /\ LET read(s, p) == LET dec == DecodePacket(Emptied(s.dec), p) IN
                       [s EXCEPT !.dec = dec, !.books = ApplyRouted(@, dec.out)]
     IN rpl' = [FoldLeft(read, rpl, JournalPackets(app.journal)) EXCEPT !.done = TRUE]
  /\ UNCHANGED <<market, study, gen, writer, chk, app>>

-----------------------------------------------------------------------------
(***************************************************************************)
(* mlgen, wallets and ltxsim --tape-markout.                                 *)
(***************************************************************************)

FreshStudy == [at |-> "samples", ml |-> NoSampling, wallets |-> <<>>, tape |-> <<>>]

Studying(at) ==
  /\ "study" \in market.readers /\ study.at = at
  /\ UNCHANGED <<market, gen, writer, chk, app, rpl>>

StartSampling ==
  /\ Studying("samples")
  /\ study.ml.si > Len(study.ml.snaps) /\ study.ml.day < Len(market.days)
  /\ study' = [study EXCEPT !.ml = SampleDay(@, market.days[@.day + 1])]

SampleSnapshot ==
  /\ Studying("samples")
  /\ study.ml.si <= Len(study.ml.snaps)
  /\ study' = [study EXCEPT !.ml = SampleNext(@)]

ScoreWallets ==
  /\ Studying("samples")
  /\ study.ml.si > Len(study.ml.snaps) /\ study.ml.day = Len(market.days)
  /\ study' = [study EXCEPT !.at = "wallets",
                            !.wallets = [d \in DOMAIN market.days |-> WalletRows(market.days[d])]]

MarkTape ==
  /\ Studying("wallets")
  /\ study' = [study EXCEPT !.at = "done", !.tape = TapeMarkout(market.days)]

-----------------------------------------------------------------------------
Init ==
  /\ market \in Markets
  /\ gen = [at |-> "directory", day |-> 0, snaps |-> <<>>, trades |-> <<>>,
            next_snap |-> 1, next_trade |-> 1, rec |-> FreshReconstructor, em |-> FreshEmitter]
  /\ writer = FreshWriter
  /\ chk = [off |-> 0, dec |-> FreshDecoder, book |-> Engine!FreshBook, day |-> 0,
            snaps |-> <<>>, si |-> 1, bad |-> 0, windows |-> 0]
  /\ app = [at |-> "running", off |-> 0, dec |-> FreshDecoder, books |-> NoneYet,
            journal |-> <<>>, trail |-> <<>>]
  /\ rpl = [done |-> FALSE, dec |-> FreshDecoder, books |-> NoneYet]
  /\ study = FreshStudy

Next ==
  \/ WriteDirectory \/ StartDay \/ RunTrade \/ RunSnapshot \/ WriteDay \/ EndFeed
  \/ CheckPacket
  \/ ApplyPacket \/ FinishFeed \/ Crash \/ ReplayJournal
  \/ StartSampling \/ SampleSnapshot \/ ScoreWallets \/ MarkTape

Spec == Init /\ [][Next]_vars

-----------------------------------------------------------------------------
(***************************************************************************)
(* What the pipeline promises.                                              *)
(***************************************************************************)

\* reconstruct.cpp:111-113 and replay_main.cpp:257: adjusting the book to a
\* snapshot leaves exactly the snapshot, and trades nothing on the way, whatever
\* the tape did to the book since the last one.
ReconIsExact == gen.rec.mismatch = 0 /\ gen.rec.unexpected = 0

\* Three copies of one book, kept from three different sources, never part: the
\* engine's, the reconstruction's own (from snapshots and prints) and the
\* emitter's (from events), which never asks the engine.  No reprice is half told.
CopiesAgree ==
  gen.at = "run" =>
    LET b    == gen.rec.book
        live == gen.em.live
    IN /\ gen.em.pending = NoneYet
       /\ Engine!BookOf(b) = [id \in DOMAIN live |->
            [side |-> live[id].side, tick |-> live[id].tick, qty |-> live[id].qty]]
       /\ \A side \in Sides :
            LET top == Engine!TopLevels(b, side, Depth) IN
            Own(gen.rec, side) = [k \in DOMAIN top |-> [tick |-> top[k].tick, qty |-> top[k].qty]]

\* docs/wire.md:10-12: a book rebuilt from the feed is the exchange's at every
\* snapshot: no level differs, each snapshot is compared, no message is missing.
CheckFindsNothing ==
  /\ chk.bad = 0
  /\ chk.dec.sequence_gaps = 0 /\ chk.dec.out_of_order = 0 /\ chk.dec.unknown_symbol = 0
  /\ gen.at = "done" /\ "check" \in market.readers /\ chk.off = Len(writer.file) =>
       chk.windows = FoldLeft(LAMBDA n, d : n + Len(d.book), 0, Covered)

\* A command as the decoders give it: a field it does not have holds nothing.
Whole(c) ==
  LET all == c @@ [emits |-> 1, id2 |-> 0, qty |-> 0, tick |-> 0, side |-> "Buy"]
  IN Restrict(all, DOMAIN all \ {"tif"})

FirstOfItsType(messages, k) == \A j \in 1 .. k - 1 : messages[j].type # messages[k].type

\* The bytes written for a symbol read as the message that was meant for it.  On
\* them, and on the first of each type under any other type and with any length a
\* type has, the two decoders of a message do the same, "the output is identical to the
\* branching decoder rather than merely similar" (itch_fixed.hpp:20); no load of the
\* one with the table leaves the message.
DecodersAgree ==
  /\ gen.at = "directory" => \A s \in 1 .. market.symbols :
       LET z == DirectoryMessage(s) IN
       /\ Read(z.bytes, z.len) = [type |-> "z", locate |-> s]
       /\ DecodeSymbolDirectory(z.bytes).symbol = SymbolText(s)
       /\ DecodeFixed(z.bytes, z.len) = DecodeSwitch(z.bytes, z.len)
  /\ gen.at = "run" /\ gen.next_snap > Len(gen.snaps) =>
       \A k \in DOMAIN gen.em.pushed, s \in 1 .. market.symbols :
         LET epoch == Epoch(gen.snaps)
             told  == ForSymbol(gen.em.pushed[k], s, epoch)
             wire  == Patched(Encoded(gen.em.pushed[k]), s, epoch)
         IN /\ Read(wire.bytes, wire.len) = told
            /\ DecodeFixed(wire.bytes, wire.len) = Whole(CommandOf(told))
            /\ \A type \in (IF FirstOfItsType(gen.em.pushed, k) THEN MessageTypes ELSE {}) :
                 LET bytes == StoreBe(wire.bytes, 0, 1, type) IN
                 /\ LastLoad(type) <= Max({HeaderLen + 8, MessageLength(type)})
                 /\ \A len \in {wire.len, MessageLength(type)} :
                      DecodeFixed(bytes, len) = DecodeSwitch(bytes, len)

\* Cells the first n packets of the feed take up in a journal.
JournalSize(n) == FoldLeft(LAMBDA c, p : c + 3 + Len(p.msgs), 0, SubSeq(writer.file, 1, n))

\* journal.hpp:80-81: whatever a crash left of the journal, its replay ends in the
\* books the process had after some packet, the last that is whole in the file, and
\* the engines said the same things on the way (event_hash.hpp:10-14).
ReplayIsAPrefix ==
  rpl.done =>
    LET whole == Max({n \in 0 .. Len(app.trail) : JournalSize(n) <= Len(app.journal)}) IN
    rpl.books = IF whole = 0 THEN NoneYet ELSE app.trail[whole]

\* What a recorded day says of a row: the prints at or before its snapshot, and
\* those after it that consume its side.
Printed(day) == {i \in DOMAIN day.trades : \A j \in 1 .. i - 1 : day.trades[j].tid # day.trades[i].tid}

\* Traded, by how long before ts.
ByAge(day, prints, ts, amount(_)) ==
  [age \in {ts - day.trades[i].time : i \in prints} |->
     MapThenSumSet(LAMBDA i : amount(day.trades[i]),
                   {i \in prints : day.trades[i].time = ts - age})]

MidAsOf(day, time) ==
  LET seen == {s \in Range(day.book) : TwoSided(s) /\ s.time <= time} IN
  MidOf(CHOOSE s \in seen : \A x \in seen : x.time <= s.time)

ClearedWithin(day, r, horizon) ==
  LET against == {i \in Printed(day) : /\ day.trades[i].time \in r.ts + 1 .. r.ts + horizon
                                       /\ day.trades[i].aggressor # r.side}
      at == {i \in against : day.trades[i].tick = r.tick}
  IN \/ \E i \in against : Reaches(day.trades[i].aggressor, day.trades[i].tick, r.tick)
                             /\ i \notin at
     \/ MapThenSumSet(LAMBDA i : day.trades[i].qty, at) >= r.base.q \div 4

\* The lines of a day that are owed samples.
Owed(day) ==
  LET times == {s.time : s \in Range(day.book)}
      sides == {s.time : s \in {x \in Range(day.book) : TwoSided(x)}}
  IN {s \in Range(day.book) :
        /\ Len(s.bids) >= 2 /\ Len(s.asks) >= 2
        /\ Cardinality({x \in times : x < s.time}) % Stride = 0
        /\ Cardinality({x \in sides : x <= s.time}) >= MinMids
        /\ s.time + Horizon <= Max(times)}

\* "nothing here is allowed to see anything later than that moment" (features.hpp:6-7):
\* the features of a row are made of the prints at or before its snapshot, each once
\* at its age, and its labels of those after it alone, whatever order the lines of
\* the day were in and however often one was written.  No sample is missing.
RowsAreTrue ==
  /\ \A k \in DOMAIN study.ml.rows :
       LET r     == study.ml.rows[k]
           day   == market.days[r.day]
           past  == {i \in Printed(day) : day.trades[i].time <= r.ts}
           size(t) == t.qty
           flow(t) == Sign(t.aggressor) * Sign(r.side) * t.qty
           reached == {b \in DOMAIN BucketEdges : ClearedWithin(day, r, BucketEdges[b])}
       IN /\ r.label = 1 <=> ClearedWithin(day, r, HorizonBinary)
          /\ r.clear_bucket = IF reached = {} THEN Censored ELSE Min(reached) - 1
          /\ r.base.drift = Sign(r.side) * (MidAsOf(day, r.ts) - MidAsOf(day, r.ts - 1))
          /\ r.base.ofi = ByAge(day, past, r.ts, flow)
          /\ r.base.alongside =
               ByAge(day, {i \in past : day.trades[i].aggressor = r.side}, r.ts, size)
          /\ r.base.consuming =
               ByAge(day, {i \in past : day.trades[i].aggressor # r.side}, r.ts, size)
  /\ study.at = "done" =>
       Len(study.ml.rows) =
         MapThenSumSet(LAMBDA d : IF Len(market.days[d].book) < 2 THEN 0
                                  ELSE 12 * Cardinality(Owed(market.days[d])), DOMAIN market.days)

\* Two tools that never meet measure the same thing: over a market with no print
\* written twice, what the makers among the wallets made at a horizon is what the
\* tape says the average maker made, and the aggressors lost it.
MarkoutsAgree ==
  study.at = "done" /\ (\A d \in DOMAIN market.days :
                          /\ Cardinality(Printed(market.days[d])) = Len(market.days[d].trades)
                          /\ Len(MidSeries(market.days[d].book)) # 1) =>
    LET total(role, of(_)) ==
          MapThenSumSet(LAMBDA d : LET aggs == study.wallets[d][role] IN
                                   MapThenSumSet(LAMBDA w : of(aggs[w]), DOMAIN aggs),
                        DOMAIN market.days)
    IN \A h \in 1 .. 3 :
         LET k == CHOOSE k \in DOMAIN TapeHorizons : TapeHorizons[k] = WalletHorizons[h]
             mo(agg) == agg.w_mo[h]
             scored(agg) == agg.scored
         IN /\ total("maker", mo) = study.tape.wsum[k]
            /\ total("aggressor", mo) = -study.tape.wsum[k]
            /\ total("maker", scored) = study.tape.n
=============================================================================
