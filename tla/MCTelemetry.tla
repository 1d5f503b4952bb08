----------------------------- MODULE MCTelemetry -----------------------------
(* Small instances of Telemetry for TLC. *)
EXTENDS Telemetry

CONSTANTS i1, i2

RequiredFirst  == [i \in Inits |-> IF i = i1 THEN "required" ELSE "optional"]
RequiredSecond == [i \in Inits |-> IF i = i2 THEN "required" ELSE "optional"]
=============================================================================
