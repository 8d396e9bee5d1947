---------------------------- MODULE EventDelivery ----------------------------
(***************************************************************************)
(* What the transactional outbox promises its producers and consumers,     *)
(* without a relay: at-least-once delivery to idempotent listeners.  A     *)
(* committed event stays pending until it is acknowledged, which takes     *)
(* every listener to have handled it, or given up, which an operator sees. *)
(* An event given up may still turn out to be delivered, since its last    *)
(* attempt may be running; nothing else ever changes its mind.             *)
(***************************************************************************)
CONSTANTS Events, Listeners

VARIABLES
  fate,     \* fate[e]: "absent", "pending", "delivered" or "given up"
  handled   \* handled[e]: the listeners in which e took effect

TypeOK ==
  /\ fate \in [Events -> {"absent", "pending", "delivered", "given up"}]
  /\ handled \in [Events -> SUBSET Listeners]

Init ==
  /\ fate = [e \in Events |-> "absent"]
  /\ handled = [e \in Events |-> {}]

\* The producer's transaction commits.
Commit(e) ==
  /\ fate[e] = "absent"
  /\ fate' = [fate EXCEPT ![e] = "pending"]
  /\ UNCHANGED handled

\* A listener takes the event; taking it again changes nothing.
Handle(e, l) ==
  /\ fate[e] # "absent"
  /\ handled' = [handled EXCEPT ![e] = @ \cup {l}]
  /\ UNCHANGED fate

Acknowledge(e) ==
  /\ fate[e] \in {"pending", "given up"}
  /\ handled[e] = Listeners
  /\ fate' = [fate EXCEPT ![e] = "delivered"]
  /\ UNCHANGED handled

\* One transaction of the relay may spend the last attempt of many events.
GiveUp ==
  \E spent \in SUBSET {e \in Events : fate[e] = "pending"} :
    /\ fate' = [e \in Events |-> IF e \in spent THEN "given up" ELSE fate[e]]
    /\ UNCHANGED handled

Next ==
  \/ GiveUp
  \/ \E e \in Events : Commit(e) \/ Acknowledge(e) \/ \E l \in Listeners : Handle(e, l)

Spec == Init /\ [][Next]_<<fate, handled>>
==============================================================================
