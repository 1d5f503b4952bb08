--------------------------- MODULE MCInboxConsumer ---------------------------
(* Small instances of InboxConsumer for TLC. *)
EXTENDS InboxConsumer, TLC

CONSTANTS e1, e2, m1, m2, m3, c1, c2, c3, p1, p2

Once == m1 :> e1

\* The outbox has published e1 twice: two messages of one event.
Twice == m1 :> e1 @@ m2 :> e1

\* One message that can be processed, one whose payload (Poison) and one whose
\* attributes are rejected at every delivery.
GoodPoisonMalformed == m1 :> e1 @@ m2 :> e2 @@ m3 :> NoEvent

OneProc == c1 :> p1 @@ c2 :> p1
TwoProcs == c1 :> p1 @@ c2 :> p1 @@ c3 :> p2
=============================================================================
