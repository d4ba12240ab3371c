# Verification of latencytax

latencytax is a C++ limit order book with the exchange plumbing around it: an
ITCH feed that is encoded, decoded and applied to one book per symbol on several
shards, an OUCH gateway behind a resumable SoupBinTCP session, and a replay,
simulation and learning stack that measures what latency costs. This directory holds TLA+
modules translated from that source, the TLC configurations that check them on
small instances, and TLAPS proofs of what matters most for every value of the
constants. `PROJECT.json` maps each definition to the lines it stands for.

Run from this directory: `tlc -config MC_X.cfg MC_X.tla` checks a module,
`tlapm XProofs.tla` checks its proofs.

## 1. Inventory

| Component (source) | State | Operations | What makes it correct | Hard because |
|---|---|---|---|---|
| Limit order book (`engine/order_book.*`, `engine.hpp`, `types.hpp`) | level array, occupancy bitmap, slot pool and free list, intrusive queues, cached best prices, id index | add limit (Gtc, Ioc, Fok), add market, cancel, modify, reduce, execute, replace, clear; the read queries; events | price-time priority; never crossed; a refused request leaves the book alone; structure, caches, events and queries agree | long call sequences; slots reused; scans over words; partly done operations |
| Order id index (`engine/id_map.hpp`) | open-addressing table | insert, find, erase with backward shift, grow, clear | a partial function; probes end | holes in a run that wraps; growth while inserting |
| SPSC ring (`engine/spsc_ring.hpp`) | buffer, `head_`, `tail_`, a cached copy of each | push, push_bulk, pop, pop_bulk | a bounded FIFO; no slot read while written | two threads, loads that lag, one slot kept empty |
| Router and shards (`wire/sequencer.hpp`, `engine/multi_book.hpp`, `itchfeed.cpp`) | by shard: ring, books, `stop_` | push, the shard loop, drain and join | a symbol's commands in feed order for any number of shards; nothing left behind; everything joins | the stop races the last commands |
| SoupBinTCP session (`wire/session.hpp`, `soup.hpp`, loops of `ouchgw.cpp`) | store; server cursor and login; client's next number; bytes in flight | login, order, pump, logout, end session, disconnect, reconnect | each stored message arrives exactly once; both sides number it alike | sequence numbers are not sent; cut anywhere, unread orders live on |
| OUCH gateway (`ouchgw.cpp`, `wire/ouch.hpp`) | token to id and id to token maps, next id | enter, cancel, replace, the engine's `on_trade` | the maps mirror the book; the messages tell clients the truth | called back in the middle of its own handlers |
| ITCH over MoldUDP64 (`wire/decoder.*`, `encoder.hpp`, `itch.hpp`, `itch_fixed.hpp`, `byteorder.hpp`) | open packet and next sequence; expected sequence, gap and late counts, session | encode, decode a message in two ways, cut into packets, read a packet | what was lost is known; both decoders agree | packets lost, repeated, late; offsets by type, masked loads |
| Feed generator and handler (`itchgen.cpp`, `itchfeed.cpp`) | emitter's list of resting orders, session clock; a book per symbol | generate, patch, apply, check against snapshots | the feed rebuilds the book it was made from | three copies of one book; holes in the data; several symbols and days |
| Journal (`wire/journal.hpp`) | append-only file | append, replay | a cut file replays a prefix | a crash in the middle of a record |
| Reconstruction (`replay/reconstruct.*`, `loader.*`, `replay_main.cpp`) | engine, synthetic orders, own levels | seed, apply trade, reconcile, reseed | the book is each snapshot and never trades with itself | trades and snapshots disagree; lines out of order, twice, or missing |
| Agent and fill model (`sim/agent.hpp`, `fill_model.hpp`) | quotes and decisions in flight, queue estimate, inventory | activate, print, snapshot, decide, flatten, reset | inventory limit; no unit of the tape fills twice; a pull takes effect | latency: everything is decided on old state |
| Tick to trade (`ticktotrade.cpp`) | two threads, two links, stop flag | send, wait, give up, stop; receive, decode, apply, answer | a round trip is counted for its own answer; losses show in the decoder's count; both threads come to an end | late answers, lossy transports, transports that block |
| Studies of a day (`ml/features.hpp`, `ml/dataset.hpp`, `mlgen.cpp`, `wallets.cpp`, `--tape-markout` of `sim_main.cpp`) | decaying sums, tape cursor, mids | sample, label, mark out | a row's past and future are on the right sides of its snapshot; two tools measure the same | look-ahead; the end of a day |
| Live shadow (`liveshadow.cpp`) | reconstruction and agent on a live feed, an HTTP page under one mutex | - | as the agent | - |
| Training and kernels (`ml/{kernels,logistic,mlp,model}.hpp`, `mltrain.cpp`) | weights | train, infer | numerical | floating point |
| Utilities, benchmarks, fuzzers, scripts, tests | - | - | - | - |

How they interact. A decoded packet becomes commands (`Routed`), routed by the
symbol index in the message header to a shard's ring; the shard applies them to
that symbol's `MatchingEngine`, which is an `OrderBook`, which finds orders
through an `IdMap`. In the other direction a client's packet goes through
`ServerSession` to `Gateway`, which calls the book; the book calls back
`on_trade`; what the gateway appends to the `SequencedStore` is sent by `pump`,
now or on a later connection. Threads: feed thread and shards share only the
rings and `stop_`; the gateway's server thread owns session, gateway and book;
`ticktotrade` has a feed and an engine thread that share two links and `stop`.
The offline tools share files: `itchgen` drives `Reconstructor` over a recorded
day, its emitter hears engine events and writes packets; `itchfeed` reads them,
journals them, and holds the book they build against the recorded snapshots;
`mlgen`, `wallets` and `ltxsim` read the same recorded days.

## 2. Modules

| Module | Models | Stands on |
|---|---|---|
| `BookTypes` | sides, order types, commands, verdicts | |
| `PriceTime` | **abstract**: what a book promises its callers | `BookTypes` |
| `OrderBook` | the book as the code keeps it | implements `PriceTime` |
| `SlotMap` | **abstract**: a partial function from ids to slots | |
| `IdMap` | the hash table | implements `SlotMap` |
| `Fifo` | **abstract**: a bounded queue between two threads | |
| `SpscRing` | the ring, one memory access a step | implements `Fifo` |
| `Shards` | feed thread, shard loops, stop and join | uses the ring as a queue |
| `SoupSession` | store, both halves of a session, the wire | |
| `Bytes` | big-endian loads and stores into a buffer | |
| `OuchWire` | OUCH layouts, SoupBinTCP framing and parsing | `Bytes` |
| `Gateway` | the OUCH handlers, and their messages as bytes | `PriceTime` as the book (INSTANCE), `OuchWire` |
| `MoldFeed` | packet writer, packet decoder, journal (operators) | |
| `ItchWire` | ITCH layouts and the two decoders of a message (operators) | `MoldFeed`, `Bytes` |
| `TickToTrade` | feed and engine thread, links that drop or block | `MoldFeed` |
| `Reconstruct` | loader and `Reconstructor` (operators) | `OrderBook` as the engine (INSTANCE) |
| `TapeStudy` | features, labels, mark-outs (operators) | `Reconstruct` |
| `Pipeline` | itchgen, itchfeed and the studies over a recorded market | `TapeStudy`, `ItchWire` |
| `Agent` | market maker and fill model under a replay | |
| `PriceTimeProofs`, `OrderBookProofs`, `BookPromiseProofs`, `IdMapProofs`, `RoutingProofs` (ring and shards), `SoupSessionProofs`, `GatewayProofs`, `ParticipantProofs` (agent, tick to trade) | theorems | |

`MC_*` modules give a module its small constants; properties live in the
module they are about. Operators under a comment "Faulty variant" are plausible
mistakes, one for each property; with one of them in place of the
definition it stands next to, TLC refutes the property.

### PriceTime and OrderBook

`PriceTime` is a map from ids to resting orders (`book`) and the relation
"entered its level's queue earlier" (`ahead`). Matching is not an algorithm
there but a characterisation: `fills` is the assignment of quantities in which a
maker is filled only after all that come before it, nothing more could be taken,
and no more than asked is taken (`Filling`). `OrderBook` keeps what
`order_book.hpp` declares: a record `bk` with levels, bitmap words, pool, links,
free list, cached best prices and id index, and every operation composed of the
helpers of the source (`ScanUp`, `LinkBack`, `Unlink`, `TakeHead`,
`RefreshBestAfterRemoval`, ...). `shadow` is the book an observer rebuilds from
the events alone. Each command is one action: the engine is single-threaded.
The loops of `match` and the walks along links and levels are functions of the number of
passes, cut off where the code has ended: a pass of a matching loop that leaves something
to do has freed a slot (`MatchIs` proves that no more passes than slots are needed), and no list
is longer than the pool.

Left out: timestamps, and the 64-bit width of quantities, which are only added,
subtracted and compared (`types.hpp:18-20` keeps them far below 2^63). The id
index inside `OrderBook` is a partial function; `IdMap` is what implements it.

### IdMap

`hash` is chosen at the start and may be any function into `Hashes`; the
multiplicative hash is one of them. An action is a whole call. `Without`
is the backward shift: `Pull` looks at one entry of the run, and moves it into the hole
if `MayFill` allows. `Grown` puts the entries one by one into a table of twice the size.
A table has a power of two of buckets (`PowerOfTwo`), so that masking is taking the
remainder. `Contents` is the refinement mapping.

### SpscRing

An action is one atomic load or store, or the read or write of one slot. An
acquire load of the other side's index may return any value the index has had
since this side last looked (`Loadable`), which is what the memory model permits
for a variable one thread writes. `push` and `pop` are the bulk calls with one.

### Shards

Rings are queues here; what is left of the memory model is `seen`, the number
of commands the shard is bound to see. A load of `head_` in `pop_bulk` returns
something between that and the truth and raises it; an acquire load that reads
the stored `stop_` raises it to everything pushed before the store; the relaxed
load in `empty_approx` raises nothing. A book is the sequence of commands it
was given, because an engine is a deterministic function of them.

### SoupSession

One action per step of the server loop (`recv`, each packet of what was
received, pump, send, close) and of the client (connect and log in, send, read,
leave). Bytes of a connection the client left are still in `toServer`, before a
`Fin`: the server reads and executes them, with nobody to answer. A packet is
the unit of the wire; a packet cut in two is lost, because both halves
drop partial bytes with the connection. `Handle` lets an order publish any
short sequence of messages, which covers whatever the gateway does.

### Gateway, OuchWire, Bytes

A handler is one action, callbacks included, because the server thread runs it
to the end; inside it the names that exist while `on_trade` runs are those
after `remember` and before the last `forget` (`Executions`, `AfterTrades`
are given the maps as they stand at that moment). `view` is the account of a
client that only reads the published messages. `wire_price_to_tick` is the
division it performs, so prices that are not whole ticks are cut down.

`OuchWire` gives each message its layout twice, as the encoder stores it and as
the decoder loads it, over `Bytes`, where a buffer is a function from offsets
and a number spread over its bytes. `Frame`, `Parse` and `Consumed` are the
packet framing, `soup.hpp`'s parser and the take-in loop of both session halves.

### MoldFeed and ItchWire

`MoldFeed` is the feed at the level of messages: `Write`/`Flush` fill packets
up to `Mtu`, `DecodePacket` counts gaps and late packets by `SequenceCheck`,
turns messages into commands and lists session marks; the journal is a sequence
of cells, three of header and one per message, so that a cut can fall inside a
record. `ItchWire` is the same messages as bytes: the encoders of `itch.hpp`, the
branching decoder (`DecodeSwitch`), the one driven by a table of offsets and
masks (`DecodeFixed`), and `Read`, which is `decode_message` back to a message
of `MoldFeed`. A system event has no layout there: it has no field the readers use.

### Reconstruct and Pipeline

`Reconstruct` is `Reconstructor` over the engine of `OrderBook`: a record with
the book, the reconstruction's own levels, and the events and observer calls it
has made, in order. `Pipeline` runs the tools over one of `Markets`: `itchgen`,
an iteration of its loop a step, with the emitter (`Hear`) on the notes;
`itchfeed --check` and `--journal` a packet a step, `--from-journal` after a
`Crash` that leaves any prefix of the file. Tools share files only, so they run one
after another. A hash of events is kept as what was mixed into it.
Sizes are in halves of a wire unit, so that the conversion to the wire and back
divides and multiplies for real.

### TapeStudy

Floats are exact numbers: an exponentially decaying sum is kept as what was added
by age (`AddAt`), which determines it for every decay rate and shows more than
one rate would. Mark-outs are integers scaled by `Bps`. `SampleNext` is one
iteration of `mlgen`'s loop over snapshots, `Scan` the look forward over the
tape; `WalletRows` and `TapeMarkout` are whole days. Order counts of levels and
the expansion of base features are left out.

### Agent

A quote carries the fields of `RestingQuote` (`traded` is what the tape printed at its
level since the last snapshot) and the history `paid`. `event` tells what the
agent was last told. The prices the formula asks for are floating point over the past:
`Decide` takes any pair of `ModelPrices`, then does what the code does with them
(caps, limits, keeping a close quote). `SweepRule` is the choice of
`fill_model.hpp` between filling when a print goes through the level and only by
queue.

### TickToTrade

`transport` is what the tool is run over, as `--transport` says. A link holds `Room` messages.
A ring drops what it has no room for, a UDP socket may also lose, repeat and reorder, and the
sender on an AF_UNIX socket, which the tool leaves blocking, waits. A thread is cut where
the other may come between: the feed at the head of its loop, before a send, in its wait and
before the join; the engine before a read and before a send. The feed waits for a number of
reads, not for a time (`SpunOut`): more than fit on the links, so it gives up only after a
read that found nothing, and may then still overlook what came since. The engine reads
`stop` relaxed, but the feed writes nothing after it, so `Stop` is the moment it is
seen. `heard` and `counted` are histories of which packets were decoded and which requests
were counted.

## 3. Runs

Times are for two workers.

| Run | Instance | Distinct states | Shows |
|---|---|---|---|
| `price_time` | 4 ids, 3 prices (and one out of range), quantities 0, 1, 3, pool 3 | 4,246 (40 s) | `Uncrossed`, `QueueIsOrder`, `WithinPool`; no call overtakes an order (`KeepsPriority`), a refused client request changes nothing, no trade-through |
| `order_book` | the same over two bitmap words, the second half used | 5,460 (130 s) | `WellFormed`, `BestIsBest`, `EventsTellTheBook`, `QueriesAgree`, and the refinement `KeepsPromise` of `PriceTime` |
| `id_map` | 5 ids, hashes 0, 3, 4, 7, tables of 4 and 8 | 40,966 (60 s) | `ProbesEnd`, `NoHoleInARun`, refinement of `SlotMap` (`KeepsPromise`) |
| `spsc_ring` | 4 slots, batches of at most 2, 2 messages | 348,009 (95 s) | `NoDataRace`, refinement of `Fifo` (`KeepsPromise`), `EverythingArrives` (liveness) |
| `shards` | 3 symbols on 2 shards, rings of 2, batches of 2, 5 commands | 115,556 (25 s) | `InFeedOrder`, `NothingLeftBehind`, `AllJoined` (liveness) |
| `soup_session` | 2 stored messages, 2 connections, 2 packets in flight, requests for 0 and past the end | 849,622 (65 s) | `NumbersAgree`, `ExactlyOnce`, `CatchesUp` (liveness) |
| `gateway` | 3 tokens, 3 orders, pool 2, 5 wire prices | 23,555 (95 s) | `NamesAreLive`, `ClientKnows`; every message in bytes, the stream cut at each boundary (`MessagesSurviveTheWire`) |
| `pipeline` | 3 prices, about 1,350 recorded markets (below) | 19,431 (25 s) | `ReconIsExact`, `CopiesAgree`, `CheckFindsNothing`, `DecodersAgree`, `ReplayIsAPrefix`, `RowsAreTrue`, `MarkoutsAgree` |
| `agent` | 3 prices, quotes of 2, limit 2, latency 1, 3 decisions in flight | 21,600 (30 s) | `FillsAreEarned`; `LimitStopsExposure`, `PullTakesEffect` (every step) |
| `tick_to_trade` | links of 2; packets 0 to 5 over UDP, 0 to 7 over AF_UNIX and the ring | 545,812 (70 s) | `RoundTripsAreReal`, `LossesShow`, `ThreadsGetThrough` (liveness) |
| `gateway_orphan`, `agent_stale` | the instances above | - | two sentences the code does not keep, section 6 |

Why the bounds are enough. *Book:* three orders can queue at one price (head,
middle and tail are removed), rest on both sides, be swept over two levels by
one taker, and exhaust the pool while an id is free; quantity 3 against 1
leaves 2, so partial fills on either side occur; two words make scans cross
a word and end in a partial one. *Index:* the third insert grows the
table; runs wrap at the end of both sizes; two ids share a bucket and a third
lies between. *Ring:* four slots and batches of two wrap in the middle of a
batch, and full, empty and part-accepted batches all occur. *Shards:* a ring
is filled, drained and filled again while two symbols share it. *Session:* two
connections are one break with everything in flight; two messages let a break
fall before, between and after them. *Gateway:* with three orders one can
rest, one hit it and one replace it; wire prices include one that is not a
whole tick, one below and one above the book. A stream is cut before, after and
one byte into every packet, and before its last byte.
*Pipeline:* the `Pairs` are days of two snapshots, every book of three prices with one size after
two different ones, with no print and every print between; `Holes` have a hole longer than
`MaxWindow`, a print inside it, before and after the day, lines in the wrong order and a
trade written twice; two days in a row with one of a single snapshot between, and
two symbols, are read by check and journal, with a crash after every packet and
at every cell of the file; `Studies` have a sample row before, at and after each
print, two horizons that run out before the day does, and a second day.
*Agent:* three decisions in flight are a quote, its cancel and its successor, each
overtaken by prints and snapshots. *Tick to trade:* with `Live` 1, packets 2 to 5
have two messages each, so one of them may be lost between two others, and two in a row; two
stale answers fit on a link. Over AF_UNIX the threads could only wait for each other with both
links full and an order in the engine's hand, 2 and 2 and 1 and the packet of the blocked feed;
the engine answers from packet 2 on, so that takes packet 7.

In the book runs the VIEW drops the last command and its report, which no
action reads; action properties are still checked on every step. Symmetry is
used where ids, tokens or slots are only compared, never with liveness.
Deadlock is checked except where the program may stop: the session, when its
bounds are used up, the shards, when all are joined, the pipeline, when every
tool has run, and tick to trade, when it reports or hangs as section 6
tells. Bounds on what would be unbounded:
`MaxMessages`, `MaxConnects`, `MaxInFlight` (session), `MaxFeed` (shards), `MaxId`
(gateway), `MaxSeq` (packets sent), `MaxStep` and `MaxPending` (agent: time
between two events, decisions in flight).

### Fairness

* Ring (`Fairness`): the consumer polls for ever (`sequencer.hpp:54-65`), the
  producer spins on what was refused (`sequencer.hpp:47-52`) but need never
  send more. Both are weak fairness of a running thread. Strong
  fairness of a reload that returns the current index says that a store
  becomes visible in finite time (C++ [intro.progress]).
* Shards: feed thread and shards run; a shard that looks again and again sees
  its ring and its stop (strong fairness on `Pop` and `SeeStop`, as above).
  Nothing is assumed about how fast shards are.
* Tick to trade: the feed thread runs, and so does the engine thread, in its reads, its
  sends and when it sees `stop` (weak fairness of each). A sender that waits for room goes on
  once there is some, since nobody else sends on its link. The link is not fair.
* Session: the server runs its loop (`ouchgw.cpp:299-334`), the client polls
  its socket (`ouchgw.cpp:364-380`). Connecting, sending and leaving are never
  forced; `CatchesUp` speaks of a client that stays.

## 4. Proved

For any ids, prices, quantities, pool size, ring size, batch bound and messages,
from the named assumptions of the modules only (`BookAssumption` and the like
say that sets are sets of numbers and sizes are positive).

**The book** (`PriceTimeProofs`). The inductive invariant `IInv` is
`GoodBook(book, ahead)`: entries typed, sides not crossed, the queue relation a
strict total order on each level and empty between levels, and no more
orders than slots; together with the type of the last command and verdict.
The parts need each other: that a remainder may rest uncrossed needs the
characterisation of fills, which needs the order of the queue. `GoodBook` is
a predicate on *any* book and queue, so one lemma each shows that it survives
leaving orders out, shrinking one, filling, and putting one at the back of its
level; each operation is a composition of those. From it:
`BookTypeOK`, `BookUncrossed`, `BookQueueIsOrder`, `BookWithinPool`, and for
steps `BookClientRejectLeavesBook` (in particular a modify is never refused
after it has pulled the order), `BookNoTradeThrough`, `BookKeepsPriority`.

**The book as it is built** (`OrderBookProofs`). `SpecWellFormed`, `SpecBestIsBest` and
`SpecEventsTellTheBook` for any range of prices, any pool, any width of a bitmap word and any
sequence of calls. What makes links a queue is a property of all of them, which no step sees
whole. So every slot is given an age, the number of the change that put it where it is, and
`Kept` says that each link names the next in age: that is local, since the neighbours
of an order are the slots `unlink` and `link_back` touch. The same ages are the order in
which an observer heard of the orders (`Mirror`); both are `Faithful`. `Settled` adds what
holds between two calls: the bitmap marks exactly the levels with orders, the cached prices are
the best, the sides are apart. In the middle of a call one level may be out of step, and
`Loose` says how. The inductive `IInv` is `Faithful(bk, shadow) /\ Settled(bk)`. One lemma for
each thing that can happen to a slot (`RemovalIs`, `ShrunkIs`, `EntryKept`) shows that ages
and links stay right; `DropIs` with `ScanUpIs` and `ScanDownIs` that after a level is gone
the scans find the next best one, across words; `TakeLevelIs` and `MatchIs` that
the loops end, by the number of orders left. What an observer makes of a list of events is
put together from its parts by `ToldMore`. The three invariants follow: walking the links from
the oldest slot lists a level in age (`ChainIs`), walking back lists it in reverse
(`ReverseIs`), and what is on the list adds up to the quantity of the level (`SumIs`).

**The book keeps its promise** (`BookPromiseProofs`). `SpecKeepsPromise`: `OrderBook`
implements `PriceTime`, for any range of prices, pool, word and ids. The refinement
mapping is the observer: book, queue and fills are what he makes of the events, command and
verdict are those of the call. That he knows the resting orders is in the
invariant above; what is left is that each call tells him what `PriceTime` would have done.
*Matching* (`MatchKeepsPromise`): after each pass of the loops, `Partly` says
that what makers gave and what is left of the taker add up to what it asked for, that each
gave at most what it had, and that nobody gave before one who is served earlier had
given all. The head of the best level is in reach and nobody in reach comes before it
(`BestIsNearest`), so a pass keeps this (`PartlyMore`); at the end the taker or the makers in
reach are gone, and that is the relation `Filling` (`PartlyEnds`). Quantities are added up with a
fold, of which `TotalOf` and `TotalChanges` say what the steps need.
*Answers* (`SameVerdict`): the pool has no free slot exactly when as many orders
rest as it has slots (`FullIs`, counting dead slots on the free list), and the walk of
`available` over the bitmap counts what the makers in reach have (`AvailableIs`): after each
pass it has counted those it passed, and where it stands nobody lies between. A
fill-or-kill order is let in exactly when some assignment fills it (`FillableIs`): if the makers
have enough, the assignment is what `match` would take from them. *Queues*: a remainder, and an order modified or replaced, stands behind
all that rest at its price (`JoinedBehind`), and one made smaller stays where it was. One
lemma for each operation (`AddLimitKeeps`, ..., `ReplaceKeeps`) puts these together.

**The book's queries** (`BookPromiseProofs`). `SpecQueriesAgree`: what `queue_ahead`,
`total_qty`, `available` and `top_levels` read off links, counters and bitmap is what an observer
of the events adds up, for every order, side and limit. `top_levels` walks as
`available` does when its limit is the far end of the range (`LevelsRun`), so the same facts about
that walk say that it meets exactly the levels of its side, the best first, and ends
before it runs out of levels (`LadderOf`, `TopLevelsAre`); their quantities add up to what the
side weighs (`LadderWeighs`), and the links before an order list those older than it
(`ListedBefore`, `QueueAheadWeighs`). `OrdersWeigh` and `SlotsCount` carry sums and counts over
slots to the observer's ids. The property asks `top_levels` for all levels, as `total_qty` does;
of a smaller depth nothing is stated.

**The ring** (`RoutingProofs`). The invariant puts the indices in order round
the ring - `tail`, the consumer's local index, its cached head, `head`, the
producer's local index, and the producer's cached tail no further ahead than
`tail` - and says that slots between the indices hold what was written. Lemmas
about `Plus` and `Dist` do the modular arithmetic. From it `RingTypeOK`,
`RingNoDataRace`, and `RingKeepsPromise`: every step of the ring is a step of
the bounded FIFO of `N - 1` messages or leaves it alone.

**The feed's loss count and round trips** (`ParticipantProofs`). `SpecLossesShow` for any room,
warm-up, number of orders kept and of packets, and any choice of what links do. The decoder
counts numbers, and from packet `2 * Live` on a packet has two, one of which is the next
packet's. So the inductive `LossInv` speaks of numbers: once the decoder has a sequence, what
it expects next is at most one past the highest number heard, and the numbers in between that
no packet decoded had (`MissedNumbers`) are no more than `gap_messages`; a packet that jumps
ahead adds at most its gap to the missing, a late one can only take from them. It rests on facts about the
packets on the link (`LinkInv`: numbered as built, one or two messages). `LostIsMissed` goes
from numbers back to packets: one that was lost is a missed number if no other packet has
that number. Nothing is claimed, or true, of one that is lost alone later (section 6).
`SpecRoundTripsAreReal` for the same: every order on its way back, or in the
engine's hand, names a packet that was decoded, and what was counted lies behind the
number the feed is at, so that counting it again is impossible (`TripInv`).

**The agent** (`ParticipantProofs`). `AgentFillsAreEarned`, `AgentLimitStopsExposure` and
`AgentPullTakesEffect` for any finite set of prices, any books, prints, asked prices and
refusals, any limit, latency, offset and sweep rule, and any number of decisions in flight.
One quote at a time, `NewIsEarned`, `PlaceIsEarned`, `PrintIsEarned` and `DecayIsEarned`
show that each operation keeps what `FillsAreEarned` says of it. An event is then three
relations in a row (`Sees`): `After`, what the decisions that came due have done to the
quotes, an induction over the fold of `Activate` (`CarriesAll`, from the least
counterexample); `Moved`, in which a quote loses what the position gains; `Decided`, in
which one decision may join the queue. Exposure cannot grow since what comes due adds at
most a quote for each decision that wanted one (`SeesExposure`), and one made at the limit
wants none. The inductive `AgentInv` adds to the shape of the agent that every
decision takes effect within a latency from now, and, for a side at its limit, `Pulled`:
from some place in the queue on no decision wants the side, and the queue up to that place
is effective by a latency after the limit was reached. It is a place and not the last
decision because decisions for the other side keep joining behind it.

**The shards** (`RoutingProofs`). `InFeedOrder` and `NothingLeftBehind` for any number of
shards, any rings, batches and feed, and whatever the loads of `head_` and `stop_` return.
The inductive `IInv` cuts what was pushed to a ring in three: `Applied` commands that are
in the books, the batch, and the rest. `RingInv` says that a ring is all that was pushed of
its shard's symbols, in feed order; `BookOf`, that a book is exactly what was applied of its
symbol. It is inductive only with `StopInv`, the handshake: a shard at its last look at the
ring has seen its stop, hence everything pushed, since nothing is pushed to it after the
store; one that has left has taken all of it; what is joined has left.

**The session** (`SoupSessionProofs`). `SessionNumbersAgree` and `SessionExactlyOnce` for any
payloads, any numbers a client may ask for, and any number of messages, packets in flight
and reconnects. No number is on the wire, so the inductive `IInv` says what the packets on
their way will do to the client's counter: `Flows(s, res, q, a, b)` holds if reading the
packets `q` one after another takes it from `a` to `b`, each message meeting its own place
in the store `s`. `FlowInv` is that the wire and the replies still to be sent take the
client from `next` to the server's `cursor`. A cut wire keeps a prefix, and a prefix of what
flows still flows, to somewhere. It needs to know that a login is the first packet of its
connection and that nothing of an older one is still to be read (`LoginInv`, `WireInv`), and
that the login of a resuming client asks for where it still is (`ResumeInv`).

**The gateway** (`GatewayProofs`). `GatewayNamesAreLive` and `GatewayClientKnows` for any
tokens, prices and sizes and a book of any pool size. The inductive `IInv` has three parts:
the gateway's book keeps the promises proved of `PriceTime` (`GoodBook`, taken over with
INSTANCE); the maps name the orders that rest (`NamesInv`); the account tells of the named
ones (`ViewInv`). A maker is forgotten when a fill takes all of it, and that is when it
leaves the book only because no order rests without size; a new name meets neither an
old name nor an old order because numbers are not used twice. That a client settles each
fill once needs the whole of `GoodBook`: makers on one side are served in a strict total
order (`BeforeOrders`), a finite set in such an order can be listed in it, so `Told` is a
list of the named makers without repetition; what hearing a list of messages does is an
induction over its length (`HearAll`, `SettledAll`, each from the least counterexample).

**The id index** (`IdMapProofs`). `IdMapProbesEnd`, `IdMapNoHoleInARun` and
`IdMapKeepsPromise` (the table implements `SlotMap`) for any ids, slots and hash and any
power of two as the smallest size. The inductive `IndexInv` says that an id has one entry,
that from the bucket an entry hashes to up to its own every bucket is taken, that a bucket
is empty, and that `size` counts the taken ones. A probe then ends, and ends at the id if
it is there (`StopIs`, `FindIs`); putting an entry where a probe for it ended keeps all this
(`PutIs`), and `GrownIs` is an induction over the buckets put into the new table. Backward
shift is the hard one. `Shift` says what holds when `k` buckets of the run have been looked
at: only the entry in the hole is there twice, and an entry whose path from its ideal bucket
leads over the hole lies further on than `k`. An entry that stays hashes behind the hole
(`ShiftStays`); one that moves leaves a new hole, and what leads over it still lies ahead,
or would have gone round through the end of the run, which is empty (`ShiftMoves`,
`PathGoesRound`). When the run has ended nothing leads over the hole, and it may be emptied
(`ShiftDone`). `Contents` depends on the set of entries alone (`SameMap`), so each call of
`SlotMap` follows from what a call does to that set.

**Checked by TLC only.** Liveness (`EverythingArrives`, `AllJoined`,
`CatchesUp`, `ThreadsGetThrough`): the provers do not handle fairness. The properties of `Pipeline`
and what it uses of `Reconstruct` and `TapeStudy`: they speak of a recorded market read to
its end, and the run enumerates markets.
`MessagesSurviveTheWire`: the layouts of `OuchWire` are fixed tables, of which a run sees
every field, and the cutting of a stream is a function that calls itself on what is left.

## 5. Plan

Done, in this order: book and its abstraction, ring, index, session, gateway,
shards; feed and journal, reconstruction, generator and check, agent, tick to trade,
wire formats, studies of a day; proofs of the book, the ring, the loss count, the
agent, the shards, the session, the gateway, the index, the structure of the book and the
refinement of its promise, and its queries. What
is left, in order of worth:

1. `Shards` over `SpscRing` itself instead of the queue it implements.
2. The live page of `liveshadow` (below), if it ever holds more than numbers.

## 6. Findings

Two have a run that shows them and are quoted in `PROJECT.json`.

* `ouchgw.cpp:217`: the gateway forgets the old token before the book has
  accepted the replacement. A refused replace leaves an order that nobody can
  name, cancel or be told about (`gateway_orphan`). `NamesAreLive` and
  `ClientKnows` set such orders aside (`orphans`).
* `agent.hpp:117`: a quote placed at a snapshot is decayed at once by the size of the
  level the agent quoted before, so a fresh order may start at the front of its queue
  (`agent_stale`, with the code's default `SweepRule`, "Through").

Met while reading, with no run of their own:

* `docs/engine.md:35` says a rejected message leaves the book as it was.
  `execute` of more than an order has takes the order and answers `BadQty`;
  `replace` with the new id 0 loses the old order. The client operations do keep
  the sentence, and that is proved.
* `docs/wire.md:34` says Replace keeps queue position; the code, and the header
  comment, put it at the back.
* `ouchgw.cpp:109`: the order that trades on entry is never told so; an Ioc that filled in
  part is answered like one that did not fill.
* A sell at a wire price that is not a whole tick may rest and trade below its limit,
  because the price is cut down (`itch.hpp:265-269`); `CancelOrder.shares` is ignored
  though `ouch.hpp:79` gives it a meaning; a message that does not decode gets no
  answer; in `ouchgw.cpp` the client thread reads `store.count()` at the end of a run
  without synchronisation with the server thread that appends to it.
* `ticktotrade.cpp:320`: packets are numbered and not messages. From packet `2 * kLive` on each
  carries two messages while its number grows by one, so every packet of the steady
  state counts as out of order, and one that is lost alone leaves no gap: with packets
  2 and 4 decoded and 3 lost, in the instance of `tick_to_trade`, `gap_messages` is 0 and two
  messages are gone, though `decoder.hpp:25` calls it "how many messages were missed in
  total". What does show is `LossesShow`.
* `ticktotrade.cpp:303`: over AF_UNIX the engine may be waiting for room on the order link when
  the feed thread stops reading it, and the join at 408 then never returns. TLC shows it when
  asked for `<>(feed.at = "report")` over that transport: the engine is held up while one
  packet more is sent than orders fit on the link (about ten with the kernel's default), and answers them
  between the feed's last read and its look at the clock. The other transports drop, and
  end. `ThreadsGetThrough` asks for the join only where it is kept.
* `ticktotrade.cpp`: its first delete names a reference that was never added, and a lost
  packet may leave an order in the book for good.
* `reconstruct.hpp:87` says an observer is called after a print has been applied to the
  book; `reconstruct.cpp:63-65` calls it before. The agent is modelled as the code
  calls it.
* `itchfeed` clears its book at a session mark when it checks (`--check`) and not when
  it applies.
* `wallets.cpp` counts a trade written twice in the data twice, which the loader does
  not, and leaves out a day with a single two-sided snapshot, which
  `--tape-markout` does not; `MarkoutsAgree` excludes both.
* `liveshadow.cpp:538`: the join of the page's thread waits for a client that has
  connected and says nothing; the nudge above it only wakes the accept.

## 7. Not modelled

* Pacing, timing, statistics and command lines of all tools; text parsing.
* The page of `liveshadow`: its numbers are copied under one mutex; its agent and
  reconstruction are the modules above.
* Features beyond the base ones, training, inference and the vector kernels
  (`ml/{kernels,logistic,mlp,model}.hpp`, `mltrain.cpp`): floating point on one thread.
* Profit and loss, volatility and sweeps of `sim_main.cpp`.
* Timestamps of the book and the 64-bit widths of quantities (section 2).
* Utilities: clocks, pinning, huge pages, histograms. Benchmarks, fuzzers, scripts.
* Assumed of the recorded data and not checked: snapshot times increase, a snapshot is
  not crossed. The order in which the emitter deletes at a reseed is that of a hash
  table; deletes commute, and the model takes one order.
