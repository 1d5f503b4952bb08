---------------------------- MODULE OutboxContract ----------------------------
(***************************************************************************)
(* What the outbox promises a producer that has committed an event with its *)
(* business change: the event reaches the broker at least once, and it is   *)
(* completed (published_at) only after that, once and for ever.             *)
(***************************************************************************)
CONSTANT Events

VARIABLES
    state,     \* "none", "pending" or "published", for each event
    accepted   \* the events the broker has accepted, once or more often

contractVars == <<state, accepted>>

ContractInit ==
    /\ state = [e \in Events |-> "none"]
    /\ accepted = {}

Store(e) ==
    /\ state[e] = "none"
    /\ state' = [state EXCEPT ![e] = "pending"]
    /\ UNCHANGED accepted

Deliver(e) ==
    /\ state[e] # "none"
    /\ accepted' = accepted \cup {e}
    /\ UNCHANGED state

Complete(e) ==
    /\ state[e] = "pending"
    /\ e \in accepted
    /\ state' = [state EXCEPT ![e] = "published"]
    /\ UNCHANGED accepted

ContractNext == \E e \in Events : Store(e) \/ Deliver(e) \/ Complete(e)

ContractSpec == ContractInit /\ [][ContractNext]_contractVars

\* The promise with its progress: a stored event is delivered and completed.
ContractFairSpec ==
    /\ ContractSpec
    /\ \A e \in Events : /\ WF_contractVars(Deliver(e))
                         /\ WF_contractVars(Complete(e))
===============================================================================
