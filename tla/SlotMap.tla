------------------------------ MODULE SlotMap ------------------------------
(***************************************************************************)
(* What the book asks of its id index: a partial function from order ids to  *)
(* pool slots that answers each call from what the earlier ones left.        *)
(***************************************************************************)
EXTENDS Functions

CONSTANTS Ids, Slots, NullSlot

VARIABLES
  slotOf,   \* [ids present -> Slots]
  answer    \* what the last call returned

vars == <<slotOf, answer>>

Present == DOMAIN slotOf
SlotOr(id) == IF id \in Present THEN slotOf[id] ELSE NullSlot

Init == slotOf = <<>> /\ answer = NullSlot

Insert(id, slot) ==
  /\ answer' = (id \notin Present)
  /\ slotOf' = IF id \in Present THEN slotOf
               ELSE [i \in Present \union {id} |-> IF i = id THEN slot ELSE slotOf[i]]

Find(id) == answer' = SlotOr(id) /\ UNCHANGED slotOf

Erase(id) ==
  /\ answer' = SlotOr(id)
  /\ slotOf' = Restrict(slotOf, Present \ {id})

Clear == slotOf' = <<>> /\ UNCHANGED answer

Next ==
  \/ \E id \in Ids, slot \in Slots : Insert(id, slot)
  \/ \E id \in Ids : Find(id) \/ Erase(id)
  \/ Clear

Spec == Init /\ [][Next]_vars
=============================================================================
