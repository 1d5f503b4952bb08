---------------------------- MODULE InboxContract ----------------------------
(***************************************************************************)
(* What the inbox promises: however often the messages of an event are      *)
(* delivered, its effect on the consumer's tables happens once, and a       *)
(* message is acknowledged only when the effect of its event is there.      *)
(***************************************************************************)
EXTENDS Naturals

CONSTANTS Events, Messages, EventOf

VARIABLES
    effects,   \* committed effects of each event's handler
    settled    \* acknowledged messages

inboxVars == <<effects, settled>>

InboxInit ==
    /\ effects = [e \in Events |-> 0]
    /\ settled = {}

Apply(e) ==
    /\ effects[e] = 0
    /\ effects' = [effects EXCEPT ![e] = 1]
    /\ UNCHANGED settled

Settle(m) ==
    /\ EventOf[m] \in Events /\ effects[EventOf[m]] = 1
    /\ settled' = settled \cup {m}
    /\ UNCHANGED effects

InboxNext == (\E e \in Events : Apply(e)) \/ (\E m \in Messages : Settle(m))

InboxSpec == InboxInit /\ [][InboxNext]_inboxVars
==============================================================================
