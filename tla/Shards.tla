------------------------------- MODULE Shards -------------------------------
(***************************************************************************)
(* One feed thread and several shards (sequencer.hpp, multi_book.hpp, and    *)
(* the sharded loop of itchfeed.cpp).  Each command of the feed names a      *)
(* symbol; the feed thread pushes it into the ring of that symbol's shard,   *)
(* spinning while the ring is full, and when the feed ends it stops and      *)
(* joins the shards one by one.  Each shard pops batches and applies them to *)
(* its books until it is stopped and its ring is empty.                      *)
(*                                                                          *)
(* The rings are the bounded queues that SpscRing implements.  What the      *)
(* model keeps of the memory order is what the shard has `seen`: a load of   *)
(* head_ returns the number of commands pushed, or any smaller number not    *)
(* below what this shard has seen, and an acquire load that returns a stored *)
(* stop_ makes everything pushed before that store seen.                     *)
(*                                                                          *)
(* A command is its position in the feed, and a book the commands applied   *)
(* to it: an engine is a deterministic function of those.                    *)
(***************************************************************************)
EXTENDS Integers, Sequences, Functions

CONSTANTS
  Locates,      \* symbol indices
  NumShards,
  Capacity,     \* commands a ring holds
  MaxBatch,     \* commands a shard pops at a time, 512 in the code
  MaxFeed       \* bound on the length of the feed

ASSUME ShardsAssumption ==
  /\ Locates \subseteq Nat
  /\ NumShards \in Nat \ {0} /\ Capacity \in Nat \ {0} /\ MaxBatch \in Nat \ {0}
  /\ MaxFeed \in Nat

VARIABLES
  feed,      \* the symbol of each command decoded so far
  pushed,    \* the number of them that have been pushed
  phase,     \* "feeding", then "stopping", then "done"
  joined,    \* the number of shards joined
  ring,      \* by shard, every command pushed to it
  stop,      \* by shard, stop_
  taken,     \* by shard, the number of commands popped
  seen,      \* by shard, the number of commands it must see in its ring
  pc,        \* by shard
  batch,     \* by shard, commands popped and not yet applied
  books      \* by shard, the commands applied to each of its books

feeder == <<feed, pushed, phase, joined>>
shard == <<taken, seen, pc, batch, books>>
vars == <<feeder, ring, stop, shard>>

Shard == 0 .. NumShards - 1

\* Faulty variant: shards take turns.
ShardInTurn(locate) == (locate + pushed) % NumShards

ShardOf(locate) == locate % NumShards

Least(a, b) == IF a < b THEN a ELSE b

Init ==
  /\ feed = <<>> /\ pushed = 0 /\ phase = "feeding" /\ joined = 0
  /\ ring = [s \in Shard |-> <<>>]
  /\ stop = [s \in Shard |-> FALSE]
  /\ taken = [s \in Shard |-> 0]
  /\ seen = [s \in Shard |-> 0]
  /\ pc = [s \in Shard |-> "pop"]
  /\ batch = [s \in Shard |-> <<>>]
  /\ books = [s \in Shard |-> <<>>]

-----------------------------------------------------------------------------
(***************************************************************************)
(* The feed thread.                                                         *)
(***************************************************************************)

Decode(locate) ==
  /\ phase = "feeding" /\ pushed = Len(feed) /\ Len(feed) < MaxFeed
  /\ feed' = Append(feed, locate)
  /\ UNCHANGED <<pushed, phase, joined, ring, stop, shard>>

\* A push that finds the ring full changes nothing and is tried again.
Push ==
  /\ phase = "feeding" /\ pushed < Len(feed)
  /\ LET i == pushed + 1
         s == ShardOf(feed[i])
     IN /\ Len(ring[s]) - taken[s] < Capacity
        /\ ring' = [ring EXCEPT ![s] = Append(@, i)]
        /\ pushed' = i
  /\ UNCHANGED <<feed, phase, joined, stop, shard>>

EndOfFeed ==
  /\ phase = "feeding" /\ pushed = Len(feed)
  /\ phase' = "stopping"
  /\ UNCHANGED <<feed, pushed, joined, ring, stop, shard>>

\* Faulty variant: the shard is joined and was never told to stop.
StopForgotten ==
  /\ phase = "stopping" /\ joined < NumShards /\ ~stop[joined]
  /\ UNCHANGED vars

\* drain_and_join of the next shard: tell it to stop ...
Stop ==
  /\ phase = "stopping" /\ joined < NumShards /\ ~stop[joined]
  /\ stop' = [stop EXCEPT ![joined] = TRUE]
  /\ UNCHANGED <<feeder, ring, shard>>

\* ... and wait until it has left its loop.
Join ==
  /\ phase = "stopping" /\ stop[joined] /\ pc[joined] = "left"
  /\ joined' = joined + 1
  /\ phase' = IF joined' = NumShards THEN "done" ELSE phase
  /\ UNCHANGED <<feed, pushed, ring, stop, shard>>

-----------------------------------------------------------------------------
(***************************************************************************)
(* The loop of a shard.                                                     *)
(***************************************************************************)

\* pop_bulk hands out at most MaxBatch of the commands this load of head_ shows.
Pop(s) ==
  /\ pc[s] = "pop"
  /\ \E head \in seen[s] .. Len(ring[s]) :
       LET n == Least(head - taken[s], MaxBatch) IN
       /\ n > 0
       /\ seen' = [seen EXCEPT ![s] = head]
       /\ taken' = [taken EXCEPT ![s] = @ + n]
       /\ batch' = [batch EXCEPT ![s] = SubSeq(ring[s], taken[s] + 1, taken[s] + n)]
       /\ pc' = [pc EXCEPT ![s] = "apply"]
  /\ UNCHANGED <<feeder, ring, stop, books>>

\* Nothing to hand out, or nothing this load shows.
PopNothing(s) ==
  /\ pc[s] = "pop" /\ seen[s] = taken[s]
  /\ pc' = [pc EXCEPT ![s] = "stop?"]
  /\ UNCHANGED <<feeder, ring, stop, taken, seen, batch, books>>

\* Faulty variant: the load of stop_ is relaxed.
SeeStopRelaxed(s) ==
  /\ pc[s] = "stop?"
  /\ stop[s]
  /\ pc' = [pc EXCEPT ![s] = "empty?"]
  /\ UNCHANGED <<feeder, ring, stop, taken, seen, batch, books>>

\* stop_ reads true, and all that was pushed before it was stored is seen.
SeeStop(s) ==
  /\ pc[s] = "stop?"
  /\ stop[s]
  /\ seen' = [seen EXCEPT ![s] = Len(ring[s])]
  /\ pc' = [pc EXCEPT ![s] = "empty?"]
  /\ UNCHANGED <<feeder, ring, stop, taken, batch, books>>

\* stop_ reads false: it is, or the store does not show yet.
MissStop(s) ==
  /\ pc[s] = "stop?"
  /\ pc' = [pc EXCEPT ![s] = "pop"]
  /\ UNCHANGED <<feeder, ring, stop, taken, seen, batch, books>>

\* empty_approx: its load of head_ moves nothing but the decision.
TestEmpty(s) ==
  /\ pc[s] = "empty?"
  /\ \E head \in seen[s] .. Len(ring[s]) :
       pc' = [pc EXCEPT ![s] = IF head = taken[s] THEN "left" ELSE "pop"]
  /\ UNCHANGED <<feeder, ring, stop, taken, seen, batch, books>>

\* One command of the batch, with a book made for its symbol on first sight.
Apply(s) ==
  /\ pc[s] = "apply"
  /\ LET i == Head(batch[s])
         l == feed[i]
         b == books[s]
     IN books' = [books EXCEPT ![s] =
                    [m \in DOMAIN b \union {l} |->
                       (IF m \in DOMAIN b THEN b[m] ELSE <<>>) \o (IF m = l THEN <<i>> ELSE <<>>)]]
  /\ batch' = [batch EXCEPT ![s] = Tail(@)]
  /\ pc' = [pc EXCEPT ![s] = IF Len(batch[s]) = 1 THEN "pop" ELSE "apply"]
  /\ UNCHANGED <<feeder, ring, stop, taken, seen>>

-----------------------------------------------------------------------------
Feeder == (\E l \in Locates : Decode(l)) \/ Push \/ EndOfFeed \/ Stop \/ Join

Loop(s) == Pop(s) \/ PopNothing(s) \/ SeeStop(s) \/ MissStop(s) \/ TestEmpty(s) \/ Apply(s)

Next == Feeder \/ \E s \in Shard : Loop(s)

Spec == Init /\ [][Next]_vars

\* Both threads run.  A load may return an old value, not for ever: a shard that
\* keeps looking sees what is in its ring, and that it was stopped.
FairSpec ==
  /\ Spec
  /\ WF_vars(Feeder)
  /\ \A s \in Shard : WF_vars(Loop(s)) /\ SF_vars(Pop(s)) /\ SF_vars(SeeStop(s))

-----------------------------------------------------------------------------
(***************************************************************************)
(* Properties.                                                              *)
(***************************************************************************)

\* A symbol has one book, and what that book has been given is a prefix of the
\* symbol's commands in feed order, however many shards there are and however
\* far apart they run: "Nothing about the result can depend on how many shards
\* there are" (sequencer.hpp:6).
InFeedOrder ==
  \A s \in Shard : \A l \in DOMAIN books[s] :
    LET b == books[s][l] IN
    /\ \A k \in 1 .. Len(b) - 1 : b[k] < b[k + 1]
    /\ \A i \in 1 .. b[Len(b)] : i \in Range(b) <=> feed[i] = l

\* When the last shard is joined every command has been applied: a command
\* pushed after a shard found nothing to pop, and before it was stopped, is not
\* left in the ring.
NothingLeftBehind ==
  phase = "done" =>
    \A i \in DOMAIN feed :
      LET b == books[ShardOf(feed[i])] IN feed[i] \in DOMAIN b /\ i \in Range(b[feed[i]])

\* Once the feed has ended all shards stop and are joined, and a full ring does
\* not hold the feed up for ever.
AllJoined == <>(phase = "done")
=============================================================================
