----------------------------- MODULE OrderBook -----------------------------
(***************************************************************************)
(* The limit order book of src/src/engine/order_book.cpp as it is built: a  *)
(* level array indexed by tick that both sides share, a word-by-word bitmap *)
(* of the occupied levels, a fixed pool of orders threaded into one doubly  *)
(* linked FIFO per level and a free list, the id map, and the cached best   *)
(* prices.                                                                  *)
(*                                                                          *)
(* The whole object is the record `bk`; each private method is an operator  *)
(* from a book to a book.  A call runs to its end before the next one (the  *)
(* class has no locks and one user), so each operation is one action.  The  *)
(* events the sink receives during a call are kept, in order, in `out`.     *)
(*                                                                          *)
(* The id map is the partial function it implements; its own hash table is  *)
(* the subject of module IdMap.  Timestamps are not modelled.               *)
(***************************************************************************)
EXTENDS BookTypes, Sequences, SequencesExt

CONSTANT WordBits     \* bits in a word of the occupancy bitmap, 64 in the code

ASSUME WordAssumption == WordBits \in Nat \ {0}

VARIABLES
  bk,      \* the object
  cmd,     \* the last command
  out,     \* the verdict it returned and the events it caused
  shadow   \* history: the book an observer of the events alone would keep

vars == <<bk, cmd, out, shadow>>

Slots == 1 .. PoolSize
NullSlot == 0
InvalidTick == MinTick - 1

Idx(tick) == tick - MinTick
TickOf(i) == i + MinTick
LevelCount == MaxTick - MinTick + 1
Npos == -1
WordsOf(n) == (n + WordBits - 1) \div WordBits

EmptyLevel == [qty |-> 0, head |-> NullSlot, tail |-> NullSlot, orders |-> 0]

\* A slot as the free list keeps it.
Blank(next) ==
  [id |-> NoOrder, qty |-> 0, tick |-> 0, side |-> "Buy", live |-> FALSE,
   prev |-> NullSlot, next |-> next]

FreshBook ==
  [levels    |-> [i \in 0 .. LevelCount - 1 |-> EmptyLevel],
   occupied  |-> [w \in 0 .. WordsOf(LevelCount) - 1 |-> {}],
   pool      |-> [s \in Slots |-> Blank(IF s = PoolSize THEN NullSlot ELSE s + 1)],
   free_head |-> IF PoolSize = 0 THEN NullSlot ELSE 1,
   pool_used |-> 0,
   ids       |-> [i \in {} |-> NullSlot],
   best_bid  |-> InvalidTick,
   best_ask  |-> InvalidTick]

-----------------------------------------------------------------------------
(***************************************************************************)
(* The occupancy bitmap.                                                    *)
(***************************************************************************)

BitSet(b, i) == [b EXCEPT !.occupied[i \div WordBits] = @ \union {i % WordBits}]
BitClear(b, i) == [b EXCEPT !.occupied[i \div WordBits] = @ \ {i % WordBits}]

\* Highest set bit at or below `from`: the masked first word, then whole words.
ScanDown(b, from) ==
  LET top == from \div WordBits
      word(w) == IF w = top THEN {k \in b.occupied[w] : k <= from % WordBits}
                            ELSE b.occupied[w]
      hits == {w \in 0 .. top : word(w) # {}}
  IN IF from = Npos \/ hits = {} THEN Npos
     ELSE Max(hits) * WordBits + Max(word(Max(hits)))

\* Faulty variant: the scan stops at the end of the first word.
ScanUpOneWord(b, from) ==
  LET hits == {k \in b.occupied[from \div WordBits] : k >= from % WordBits}
  IN IF from >= LevelCount \/ hits = {} THEN Npos
     ELSE (from \div WordBits) * WordBits + Min(hits)

\* Lowest set bit at or above `from`.
ScanUp(b, from) ==
  LET bottom == from \div WordBits
      word(w) == IF w = bottom THEN {k \in b.occupied[w] : k >= from % WordBits}
                               ELSE b.occupied[w]
      hits == {w \in bottom .. WordsOf(LevelCount) - 1 : word(w) # {}}
  IN IF from >= LevelCount \/ hits = {} THEN Npos
     ELSE Min(hits) * WordBits + Min(word(Min(hits)))

-----------------------------------------------------------------------------
(***************************************************************************)
(* Pool and level lists.                                                    *)
(***************************************************************************)

AllocSlot(b) ==
  [b EXCEPT !.free_head = b.pool[b.free_head].next, !.pool_used = @ + 1]

\* The data of a freed order is never read again: it is blanked here.
FreeSlot(b, s) ==
  [b EXCEPT !.pool[s] = Blank(b.free_head), !.free_head = s, !.pool_used = @ - 1]

LinkBack(b, li, s) ==
  LET lv == b.levels[li]
      linked == [b.pool EXCEPT ![s].next = NullSlot, ![s].prev = lv.tail]
  IN [b EXCEPT
        !.pool = IF lv.tail = NullSlot THEN linked
                 ELSE [linked EXCEPT ![lv.tail].next = s],
        !.levels[li] = [lv EXCEPT !.head = IF lv.tail = NullSlot THEN s ELSE lv.head,
                                  !.tail = s,
                                  !.orders = lv.orders + 1]]

\* Faulty variant: right for the head of a level only.
UnlinkHead(b, li, s) ==
  [b EXCEPT !.levels[li] = [@ EXCEPT !.head = b.pool[s].next, !.orders = @ - 1]]

Unlink(b, li, s) ==
  LET p  == b.pool[s].prev
      n  == b.pool[s].next
      lv == b.levels[li]
  IN [b EXCEPT
        !.pool = [r \in Slots |->
                    CASE r = p -> [b.pool[r] EXCEPT !.next = n]
                      [] r = n -> [b.pool[r] EXCEPT !.prev = p]
                      [] OTHER -> b.pool[r]],
        !.levels[li] = [lv EXCEPT !.head = IF p = NullSlot THEN n ELSE lv.head,
                                  !.tail = IF n = NullSlot THEN p ELSE lv.tail,
                                  !.orders = lv.orders - 1]]

RefreshBestAfterRemoval(b, maker, li) ==
  LET down == IF li = 0 THEN Npos ELSE ScanDown(b, li - 1)
      up   == ScanUp(b, li + 1)
      best(i) == IF i = Npos THEN InvalidTick ELSE TickOf(i)
  IN IF maker = "Buy"
       THEN IF TickOf(li) # b.best_bid THEN b ELSE [b EXCEPT !.best_bid = best(down)]
       ELSE IF TickOf(li) # b.best_ask THEN b ELSE [b EXCEPT !.best_ask = best(up)]

\* What every path does to a level that lost its last order.
DropLevel(b, maker, li) ==
  RefreshBestAfterRemoval(BitClear([b EXCEPT !.levels[li] = EmptyLevel], li), maker, li)

EraseId(b, id) == [b EXCEPT !.ids = [i \in DOMAIN b.ids \ {id} |-> b.ids[i]]]

Find(b, id) == IF id \in DOMAIN b.ids THEN b.ids[id] ELSE NullSlot

-----------------------------------------------------------------------------
(***************************************************************************)
(* The events of a call.                                                    *)
(***************************************************************************)

TradeEvent(maker, tick, qty, left) ==
  [kind |-> "trade", id |-> maker, tick |-> tick, qty |-> qty, left |-> left]
AcceptEvent(o) ==
  [kind |-> "accept", id |-> o.id, side |-> o.side, tick |-> o.tick, qty |-> o.qty]
CancelEvent(id, tick, qty, side, reason) ==
  [kind |-> "cancel", id |-> id, side |-> side, tick |-> tick, qty |-> qty,
   reason |-> reason]
RejectEvent(id, verdict) == [kind |-> "reject", id |-> id, reason |-> verdict]

\* A call in progress: the book so far and the events so far.
Step(b, events) == [b |-> b, events |-> events]

-----------------------------------------------------------------------------
(***************************************************************************)
(* Matching.                                                                *)
(***************************************************************************)

BestFor(b, taker) == IF taker = "Buy" THEN b.best_ask ELSE b.best_bid

\* One pass of match's inner loop: the head of level li gives what it can.
TakeHead(m, li) ==
  LET b    == m.b
      ms   == b.levels[li].head
      maker == b.pool[ms]
      take == Smaller(m.qty, maker.qty)
      hit  == [b EXCEPT !.pool[ms].qty = @ - take, !.levels[li].qty = @ - take]
  IN [b      |-> IF maker.qty = take
                   THEN FreeSlot(EraseId(Unlink(hit, li, ms), maker.id), ms)
                   ELSE hit,
      events |-> Append(m.events, TradeEvent(maker.id, TickOf(li), take, maker.qty - take)),
      qty    |-> m.qty - take]

\* The loops of match end by themselves: a pass that leaves something to do has
\* freed a slot, so that no more of them are met than the pool has slots.

\* The inner loop: the level gives until the taker or its queue is gone.
TakeOnce(m, li) ==
  IF m.qty = 0 \/ m.b.levels[li].head = NullSlot THEN m ELSE TakeHead(m, li)

TakeLevel(m, li) ==
  LET pass[k \in 0 .. PoolSize] == IF k = 0 THEN m ELSE TakeOnce(pass[k - 1], li)
  IN pass[PoolSize]

\* A level left with no quantity is dropped before the next price is tried.
LeaveLevel(m, side, li) ==
  IF m.b.levels[li].qty = 0 THEN [m EXCEPT !.b = DropLevel(@, Opposite(side), li)] ELSE m

\* The outer loop: the best level on the other side, while the limit reaches it.
MatchBest(m, side, limit) ==
  LET best == BestFor(m.b, side) IN
  IF m.qty = 0 \/ best = InvalidTick \/ ~Reaches(side, limit, best)
    THEN m
    ELSE LeaveLevel(TakeLevel(m, Idx(best)), side, Idx(best))

Match(m, side, limit) ==
  LET pass[k \in 0 .. PoolSize] == IF k = 0 THEN m ELSE MatchBest(pass[k - 1], side, limit)
  IN pass[PoolSize]

\* The next occupied level a taker meets behind level i.
Beyond(b, side, i) ==
  IF side = "Buy" THEN ScanUp(b, i + 1) ELSE IF i = 0 THEN Npos ELSE ScanDown(b, i - 1)

\* available: quantity resting from the best opposite price out to the limit,
\* walked through the bitmap in the taker's direction: `at` is the level the walk
\* has come to and `qty` what it has met before.
AvailableFrom(b, side, limit, i) ==
  LET walk[k \in 0 .. LevelCount] ==
        IF k = 0 THEN [at |-> i, qty |-> 0]
        ELSE LET w == walk[k - 1] IN
             IF w.at = Npos \/ ~Reaches(side, limit, TickOf(w.at)) THEN w
             ELSE [at |-> Beyond(b, side, w.at), qty |-> w.qty + b.levels[w.at].qty]
  IN walk[LevelCount].qty

\* Faulty variant: quantity beyond the limit is counted.
AvailableAnyPrice(b, side, limit) ==
  LET best == BestFor(b, side) IN
  IF best = InvalidTick THEN 0 ELSE AvailableFrom(b, side, FarTick(side), Idx(best))

Available(b, side, limit) ==
  LET best == BestFor(b, side) IN
  IF best = InvalidTick THEN 0
  ELSE AvailableFrom(b, side, limit,
                     IF side = "Buy" THEN ScanUp(b, Idx(best)) ELSE ScanDown(b, Idx(best)))

Rest(st, s) ==
  LET o  == st.b.pool[s]
      li == Idx(o.tick)
      lv == st.b.levels[li]
      b1 == IF lv.qty = 0 /\ lv.head = NullSlot THEN BitSet(st.b, li) ELSE st.b
      b2 == LinkBack([b1 EXCEPT !.levels[li].qty = @ + o.qty], li, s)
      b3 == [b2 EXCEPT !.pool[s].live = TRUE]
      b4 == IF o.side = "Buy"
              THEN IF b3.best_bid = InvalidTick \/ o.tick > b3.best_bid
                     THEN [b3 EXCEPT !.best_bid = o.tick] ELSE b3
              ELSE IF b3.best_ask = InvalidTick \/ o.tick < b3.best_ask
                     THEN [b3 EXCEPT !.best_ask = o.tick] ELSE b3
  IN Step(b4, Append(st.events, AcceptEvent(o)))

-----------------------------------------------------------------------------
(***************************************************************************)
(* The operations: each gives the book, the events and the verdict.         *)
(***************************************************************************)

Ended(st, verdict) == [b |-> st.b, events |-> st.events, verdict |-> verdict]

Rejected(st, id, verdict) ==
  Ended(Step(st.b, Append(st.events, RejectEvent(id, verdict))), verdict)

LimitVerdict(b, id, side, tick, qty, tif) ==
  IF qty <= 0 THEN "BadQty"
  ELSE IF tick \notin Ticks THEN "PriceOutOfRange"
  ELSE IF id = NoOrder \/ Find(b, id) # NullSlot THEN "DuplicateId"
  ELSE IF tif = "Gtc" /\ b.free_head = NullSlot THEN "PoolExhausted"
  ELSE IF tif = "Fok" /\ Available(b, side, tick) < qty THEN "FokUnfillable"
  ELSE "None"

\* What does not trade is cancelled (Ioc, Fok) or takes a slot and rests.
LimitRemainder(m, id, side, tick, tif) ==
  IF m.qty = 0 THEN Step(m.b, m.events)
  ELSE IF tif # "Gtc"
    THEN Step(m.b, Append(m.events, CancelEvent(id, tick, m.qty, side, tif)))
  ELSE
    LET s == m.b.free_head
        a == AllocSlot(m.b)
        b == [a EXCEPT
                !.pool[s] = [@ EXCEPT !.id = id, !.qty = m.qty, !.tick = tick, !.side = side],
                !.ids = [i \in DOMAIN a.ids \union {id} |-> IF i = id THEN s ELSE a.ids[i]]]
    IN Rest(Step(b, m.events), s)

AddLimitTo(st, id, side, tick, qty, tif) ==
  LET v == LimitVerdict(st.b, id, side, tick, qty, tif) IN
  IF v # "None" THEN Rejected(st, id, v)
  ELSE Ended(LimitRemainder(Match([b |-> st.b, events |-> st.events, qty |-> qty], side, tick),
                            id, side, tick, tif),
             "None")

AddMarketTo(b, id, side, qty) ==
  LET limit == FarTick(side)
      m     == Match([b |-> b, events |-> <<>>, qty |-> qty], side, limit)
  IN IF qty <= 0 THEN Rejected(Step(b, <<>>), id, "BadQty")
     ELSE Ended(LimitRemainder(m, id, side, limit, "Ioc"), "None")

RemoveResting(st, s, reason) ==
  LET o  == st.b.pool[s]
      li == Idx(o.tick)
      b1 == Unlink([st.b EXCEPT !.levels[li].qty = @ - o.qty], li, s)
      b2 == IF b1.levels[li].orders = 0 THEN DropLevel(b1, o.side, li) ELSE b1
  IN Step(FreeSlot(EraseId(b2, o.id), s),
          Append(st.events, CancelEvent(o.id, o.tick, o.qty, o.side, reason)))

\* Faulty variant: the event reports the size left, not the size given up.
ShrinkByTellLeft(b, s, shares, reason) ==
  LET o == b.pool[s] IN
  Step([b EXCEPT !.pool[s].qty = @ - shares, !.levels[Idx(o.tick)].qty = @ - shares],
       <<CancelEvent(o.id, o.tick, o.qty - shares, o.side, reason)>>)

\* The order in slot s gives up `shares` and keeps its place.
ShrinkBy(b, s, shares, reason) ==
  LET o == b.pool[s] IN
  Step([b EXCEPT !.pool[s].qty = @ - shares, !.levels[Idx(o.tick)].qty = @ - shares],
       <<CancelEvent(o.id, o.tick, shares, o.side, reason)>>)

CancelIn(b, id) ==
  IF Find(b, id) = NullSlot THEN Rejected(Step(b, <<>>), id, "UnknownId")
  ELSE Ended(RemoveResting(Step(b, <<>>), Find(b, id), "User"), "None")

ReduceIn(b, id, shares) ==
  LET s == Find(b, id) IN
  IF s = NullSlot THEN Rejected(Step(b, <<>>), id, "UnknownId")
  ELSE IF shares <= 0 THEN Rejected(Step(b, <<>>), id, "BadQty")
  ELSE IF shares >= b.pool[s].qty
    THEN Ended(RemoveResting(Step(b, <<>>), s, "User"), "None")
  ELSE Ended(ShrinkBy(b, s, shares, "User"), "None")

ExecuteIn(b, id, shares) ==
  LET s    == Find(b, id)
      o    == b.pool[s]
      li   == Idx(o.tick)
      take == Smaller(shares, o.qty)
      hit  == [b EXCEPT !.pool[s].qty = @ - take, !.levels[li].qty = @ - take]
      cut  == Unlink(hit, li, s)
      gone == IF cut.levels[li].orders = 0 THEN DropLevel(cut, o.side, li) ELSE cut
  IN IF s = NullSlot THEN Rejected(Step(b, <<>>), id, "UnknownId")
     ELSE IF shares <= 0 THEN Rejected(Step(b, <<>>), id, "BadQty")
     ELSE Ended(Step(IF take = o.qty THEN FreeSlot(EraseId(gone, id), s) ELSE hit,
                     <<TradeEvent(id, o.tick, take, o.qty - take)>>),
                IF take = shares THEN "None" ELSE "BadQty")

\* The checks replace and modify share; e is the id their rejects name.
ResizeVerdict(b, id, tick, qty) ==
  IF Find(b, id) = NullSlot THEN "UnknownId"
  ELSE IF qty <= 0 THEN "BadQty"
  ELSE IF tick \notin Ticks THEN "PriceOutOfRange"
  ELSE "None"

\* Pull the order under `old`, then enter it afresh under `new`.
Reenter(b, old, new, tick, qty) ==
  LET s == Find(b, old) IN
  AddLimitTo(RemoveResting(Step(b, <<>>), s, "Replace"), new, b.pool[s].side, tick, qty, "Gtc")

ReplaceIn(b, orig, new, tick, qty) ==
  LET v == ResizeVerdict(b, orig, tick, qty) IN
  IF v # "None" THEN Rejected(Step(b, <<>>), IF v = "UnknownId" THEN orig ELSE new, v)
  ELSE IF new # orig /\ Find(b, new) # NullSlot
    THEN Rejected(Step(b, <<>>), new, "DuplicateId")
  ELSE Reenter(b, orig, new, tick, qty)

ModifyIn(b, id, tick, qty) ==
  LET v == ResizeVerdict(b, id, tick, qty)
      s == Find(b, id)
  IN IF v # "None" THEN Rejected(Step(b, <<>>), id, v)
     ELSE IF tick = b.pool[s].tick /\ qty = b.pool[s].qty THEN Ended(Step(b, <<>>), "None")
     ELSE IF tick = b.pool[s].tick /\ qty < b.pool[s].qty
       THEN Ended(ShrinkBy(b, s, b.pool[s].qty - qty, "Replace"), "None")
     ELSE Reenter(b, id, id, tick, qty)

-----------------------------------------------------------------------------
(***************************************************************************)
(* A sink that rebuilds the book from the events: the resting orders by id, *)
(* and who stands before whom at one price.                                 *)
(***************************************************************************)

EmptyShadow == [book |-> [i \in {} |-> 0], ahead |-> {}, fills |-> [i \in {} |-> 0]]

\* A resting order loses qty, and leaves when nothing is left of it.
Lose(sh, id, qty) ==
  IF qty < sh.book[id].qty
    THEN [sh EXCEPT !.book[id].qty = @ - qty]
    ELSE [sh EXCEPT !.book = [i \in DOMAIN @ \ {id} |-> @[i]],
                    !.ahead = {p \in @ : id \notin {p[1], p[2]}}]

\* A maker gives qty to the taker of this call.
Give(sh, id, qty) ==
  LET before == IF id \in DOMAIN sh.fills THEN sh.fills[id] ELSE 0 IN
  [Lose(sh, id, qty) EXCEPT
     !.fills = [i \in DOMAIN @ \union {id} |-> IF i = id THEN before + qty ELSE @[i]]]

\* A resting order joins the back of its level.
Join(sh, e) ==
  [sh EXCEPT
     !.book = [i \in DOMAIN @ \union {e.id} |->
                 IF i = e.id THEN [side |-> e.side, tick |-> e.tick, qty |-> e.qty] ELSE @[i]],
     !.ahead = @ \union {<<i, e.id>> : i \in {j \in DOMAIN sh.book : sh.book[j].tick = e.tick}}]

\* Cancels of what never rested (Ioc, Fok) and rejects change nothing.
Observe(sh, e) ==
  CASE e.kind = "trade" -> Give(sh, e.id, e.qty)
    [] e.kind = "accept" -> Join(sh, e)
    [] e.kind = "cancel" /\ e.reason \in {"User", "Replace"} -> Lose(sh, e.id, e.qty)
    [] OTHER -> sh

-----------------------------------------------------------------------------
(***************************************************************************)
(* The actions: one per public operation.                                   *)
(***************************************************************************)

Return(r) ==
  /\ bk' = r.b
  /\ out' = [verdict |-> r.verdict, events |-> r.events]
  /\ shadow' = FoldLeft(Observe, [shadow EXCEPT !.fills = EmptyShadow.fills], r.events)

AddLimit(id, side, tick, qty, tif) ==
  Return(AddLimitTo(Step(bk, <<>>), id, side, tick, qty, tif))
AddMarket(id, side, qty) == Return(AddMarketTo(bk, id, side, qty))
Cancel(id) == Return(CancelIn(bk, id))
Modify(id, tick, qty) == Return(ModifyIn(bk, id, tick, qty))
Reduce(id, shares) == Return(ReduceIn(bk, id, shares))
Execute(id, shares) == Return(ExecuteIn(bk, id, shares))
Replace(orig, new, tick, qty) == Return(ReplaceIn(bk, orig, new, tick, qty))

\* clear sends no event: whoever clears the book tells the observers itself.
Clear ==
  /\ cmd' = ClearCall
  /\ bk' = FreshBook
  /\ out' = [verdict |-> "None", events |-> <<>>]
  /\ shadow' = EmptyShadow

\* MatchingEngine::apply, one disjunct per case of its switch.
Apply(c) ==
  \/ c.type = "AddLimit" /\ AddLimit(c.id, c.side, c.tick, c.qty, c.tif)
  \/ c.type = "AddMarket" /\ AddMarket(c.id, c.side, c.qty)
  \/ c.type = "Cancel" /\ Cancel(c.id)
  \/ c.type = "Modify" /\ Modify(c.id, c.tick, c.qty)
  \/ c.type = "Reduce" /\ Reduce(c.id, c.qty)
  \/ c.type = "Execute" /\ Execute(c.id, c.qty)
  \/ c.type = "Replace" /\ Replace(c.id, c.id2, c.tick, c.qty)

Init ==
  /\ bk = FreshBook
  /\ cmd = ClearCall
  /\ out = [verdict |-> "None", events |-> <<>>]
  /\ shadow = EmptyShadow

Next == (cmd' \in Commands /\ Apply(cmd')) \/ Clear

Spec == Init /\ [][Next]_vars

-----------------------------------------------------------------------------
(***************************************************************************)
(* The queries, which read and change nothing.                              *)
(***************************************************************************)

\* The slots met from s along the link `link`, at most one more than the pool has.
Chain(b, s, link) ==
  LET at[k \in 0 .. PoolSize] ==
        IF k = 0 THEN s
        ELSE LET r == at[k - 1] IN
             IF r = NullSlot THEN r
             ELSE IF link = "next" THEN b.pool[r].next ELSE b.pool[r].prev
  IN [k \in 1 .. Cardinality({j \in 0 .. PoolSize : at[j] # NullSlot}) |-> at[k - 1]]

Queue(b, i) == Chain(b, b.levels[i].head, "next")

\* Faulty variant: the order itself is counted as ahead of itself.
QueueAheadInclusive(b, id) ==
  LET s == Find(b, id)
      q == Queue(b, Idx(b.pool[s].tick))
  IN FoldLeft(LAMBDA n, r : n + b.pool[r].qty, 0, SubSeq(q, 1, CHOOSE k \in DOMAIN q : q[k] = s))

\* Quantity met from the head of the level before the order's own slot.
QueueAhead(b, id) ==
  LET s == Find(b, id)
      q == Queue(b, Idx(b.pool[s].tick))
  IN FoldLeft(LAMBDA n, r : n + b.pool[r].qty, 0,
              SubSeq(q, 1, (CHOOSE k \in DOMAIN q : q[k] = s) - 1))

\* The occupied levels from index i outward, at most `depth` of them.
LevelsFrom(b, side, i, depth) ==
  LET at[k \in 1 .. depth] ==
        IF k = 1 THEN IF side = "Buy" THEN ScanDown(b, i) ELSE ScanUp(b, i)
        ELSE IF at[k - 1] = Npos THEN Npos ELSE Beyond(b, Opposite(side), at[k - 1])
  IN [k \in 1 .. Cardinality({j \in 1 .. depth : at[j] # Npos}) |->
        [tick |-> TickOf(at[k]), qty |-> b.levels[at[k]].qty, orders |-> b.levels[at[k]].orders]]

TopLevels(b, side, depth) ==
  LET best == BestFor(b, Opposite(side)) IN
  IF best = InvalidTick THEN <<>> ELSE LevelsFrom(b, side, Idx(best), depth)

TotalQty(b, side) ==
  FoldLeft(LAMBDA n, lv : n + lv.qty, 0, TopLevels(b, side, LevelCount))

-----------------------------------------------------------------------------
(***************************************************************************)
(* The book an observer sees, and the promise it keeps.                     *)
(***************************************************************************)

LiveSlots(b) == {s \in Slots : b.pool[s].live}

\* Resting orders by id, and who stands before whom on each level.
BookOf(b) ==
  [id \in {b.pool[s].id : s \in LiveSlots(b)} |->
     LET s == CHOOSE r \in LiveSlots(b) : b.pool[r].id = id
     IN [side |-> b.pool[s].side, tick |-> b.pool[s].tick, qty |-> b.pool[s].qty]]

AheadOf(b) ==
  UNION {LET q == Queue(b, i) IN
         {<<b.pool[q[p[1]]].id, b.pool[q[p[2]]].id>> :
            p \in {p \in (1 .. Len(q)) \X (1 .. Len(q)) : p[1] < p[2]}} : i \in 0 .. LevelCount - 1}

Promise == INSTANCE PriceTime WITH
  book    <- shadow.book,
  ahead   <- shadow.ahead,
  verdict <- out.verdict,
  fills   <- shadow.fills

\* Every operation, with its bitmap, links, cached prices and free list, does to
\* the resting orders and reports to the caller what price-time priority says.
KeepsPromise == Promise!Spec

\* The events alone tell an observer every resting order, its size and its place
\* in its queue: no change of the book goes unreported, none is reported twice.
EventsTellTheBook == shadow.book = BookOf(bk) /\ shadow.ahead = AheadOf(bk)

\* What check_invariants walks, and what it leaves out: level lists linked both
\* ways, quantities and counts that add up, one side per level, the bitmap, the
\* id map, the free list covering exactly the dead slots.
WellFormed ==
  LET levels == 0 .. LevelCount - 1
      free   == Chain(bk, bk.free_head, "next")
  IN /\ \A i \in levels :
          LET lv == bk.levels[i]
              q  == Queue(bk, i)
          IN /\ lv.orders = Len(q)
             /\ (i % WordBits \in bk.occupied[i \div WordBits]) <=> lv.orders # 0
             /\ Chain(bk, lv.tail, "prev") = Reverse(q)
             /\ lv.qty = FoldLeft(LAMBDA n, s : n + bk.pool[s].qty, 0, q)
             /\ \A k \in DOMAIN q :
                  LET o == bk.pool[q[k]] IN
                  o.live /\ o.tick = TickOf(i) /\ o.qty > 0 /\ Find(bk, o.id) = q[k]
             /\ Cardinality({bk.pool[q[k]].side : k \in DOMAIN q}) <= 1
     /\ UNION {ToSet(Queue(bk, i)) : i \in levels} = LiveSlots(bk)
     /\ ToSet(free) = Slots \ LiveSlots(bk) /\ IsInjective(free)
     /\ bk.pool_used = Cardinality(LiveSlots(bk))
     /\ DOMAIN bk.ids = {bk.pool[s].id : s \in LiveSlots(bk)}

\* The cached best prices are the best prices, and they do not cross.
BestIsBest ==
  LET at(side) == {bk.pool[s].tick : s \in {r \in LiveSlots(bk) : bk.pool[r].side = side}}
      bids == at("Buy")
      asks == at("Sell")
  IN /\ bk.best_bid = IF bids = {} THEN InvalidTick ELSE Max(bids)
     /\ bk.best_ask = IF asks = {} THEN InvalidTick ELSE Min(asks)
     /\ bids # {} /\ asks # {} => bk.best_bid < bk.best_ask

\* What a caller reads off the book is what its orders add up to: the quantity
\* ahead of an order, the quantity a limit could take, the ladder of a side.
QueriesAgree ==
  LET resting == DOMAIN shadow.book
      sum(S) == MapThenSumSet(LAMBDA i : shadow.book[i].qty, S)
      at(side) == {i \in resting : shadow.book[i].side = side}
      rungs(side) == {shadow.book[i].tick : i \in at(side)}
  IN /\ \A id \in resting : QueueAhead(bk, id) = sum({i \in resting : <<i, id>> \in shadow.ahead})
     /\ \A side \in Sides :
          LET top == TopLevels(bk, side, LevelCount) IN
          /\ TotalQty(bk, side) = sum(at(side))
          /\ \A limit \in Ticks :
               Available(bk, Opposite(side), limit) =
                 sum({i \in at(side) : Reaches(Opposite(side), limit, shadow.book[i].tick)})
          /\ {top[k].tick : k \in DOMAIN top} = rungs(side) /\ Len(top) = Cardinality(rungs(side))
          /\ \A k \in DOMAIN top :
               LET here == {i \in at(side) : shadow.book[i].tick = top[k].tick} IN
               /\ top[k].qty = sum(here) /\ top[k].orders = Cardinality(here)
               /\ k > 1 => Better(Opposite(side), top[k - 1].tick, top[k].tick)
=============================================================================
