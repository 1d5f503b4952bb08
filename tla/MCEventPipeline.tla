--------------------------- MODULE MCEventPipeline ---------------------------
(* Small instances of EventPipeline for TLC. *)
EXTENDS EventPipeline

CONSTANTS e1, e2, a1

SameAggregate == [e \in Events |-> a1]
=============================================================================
