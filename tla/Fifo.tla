-------------------------------- MODULE Fifo --------------------------------
(***************************************************************************)
(* What a single producer, single consumer ring promises its two callers:   *)
(* a bounded first-in first-out queue.  The producer offers a batch and as   *)
(* much of it as fits is accepted, in order; what was refused stays with     *)
(* the producer, who offers it again.  The consumer asks and gets a prefix   *)
(* of the queue.  Nothing is lost, repeated or reordered.                    *)
(***************************************************************************)
EXTENDS Integers, Sequences

CONSTANTS Messages, MaxBatch, Capacity

VARIABLES
  queue,     \* what was accepted and not yet handed out
  offered,   \* what the producer still has to get accepted
  got        \* the batch the consumer's last call returned

vars == <<queue, offered, got>>

Batches == UNION {[1 .. n -> Messages] : n \in 1 .. MaxBatch}

FirstOf(s, k) == SubSeq(s, 1, k)
AllBut(s, k)  == SubSeq(s, k + 1, Len(s))

Offer(s) == offered = <<>> /\ offered' = s /\ UNCHANGED <<queue, got>>

Accept(k) ==
  /\ k <= Len(offered) /\ Len(queue) + k <= Capacity
  /\ queue' = queue \o FirstOf(offered, k)
  /\ offered' = AllBut(offered, k)
  /\ UNCHANGED got

\* The consumer's next call forgets what the last one returned.
Ask == got' = <<>> /\ UNCHANGED <<queue, offered>>

Deliver(k) ==
  /\ got = <<>> /\ k <= Len(queue)
  /\ got' = FirstOf(queue, k)
  /\ queue' = AllBut(queue, k)
  /\ UNCHANGED offered

Init == queue = <<>> /\ offered = <<>> /\ got = <<>>

AcceptSome  == \E k \in 1 .. MaxBatch : Accept(k)
DeliverSome == \E k \in 1 .. MaxBatch : Deliver(k)

Next == (\E s \in Batches : Offer(s)) \/ AcceptSome \/ Ask \/ DeliverSome

Spec == Init /\ [][Next]_vars

\* What is offered is accepted in the end, and while something is queued the
\* consumer goes on being handed messages.
Live ==
  /\ offered # <<>> ~> offered = <<>>
  /\ queue # <<>> ~> got # <<>>
=============================================================================
