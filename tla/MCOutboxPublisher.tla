-------------------------- MODULE MCOutboxPublisher --------------------------
(* Small instances of OutboxPublisher for TLC. *)
EXTENDS OutboxPublisher, TLC

CONSTANTS e1, e2, p1, p2

NoSkew  == [p \in Procs |-> 0]
\* One clock is ahead of the database, the other one behind.
OneSkew == p1 :> 1 @@ p2 :> -1
=============================================================================
