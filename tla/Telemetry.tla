------------------------------ MODULE Telemetry ------------------------------
(***************************************************************************)
(* observability.Init and its shutdown over tracing.Init and metrics.Init,  *)
(* with otel's global error handler, which tracing.Init replaces and its    *)
(* shutdown puts back.  A process may call Init more than once; one of the  *)
(* pipelines has spans to export, through TraceExporter.                    *)
(***************************************************************************)
EXTENDS TraceExporter

CONSTANTS
    Inits,         \* calls of observability.Init
    Exporting,     \* the one whose tracer has spans
    Tracing,       \* configuration of each: "off", "optional", "required"
    Metrics,       \* likewise
    Batches,       \* bound: batches of spans
    MaxShutdowns   \* bound: how often the shutdown of one Init is called

Modes == {"off", "optional", "required"}
Outer == {"default", "app"}

ASSUME TelemetryAssumption ==
    /\ Exporting \in Inits /\ Inits \cap Outer = {}
    /\ Tracing \in [Inits -> Modes] /\ Metrics \in [Inits -> Modes]
    /\ Batches \in Nat /\ MaxShutdowns \in Nat

VARIABLES
    stage,      \* of each Init and of its shutdown
    tracer,     \* the tracer provider of each: "none", "running", "stopped"
    meter,      \* its meter provider
    handler,    \* the global error handler: the one from before, or an Init's
    delegate,   \* otel: what the default handler has passed errors to since the
                \* first SetErrorHandler
    prev,       \* prevHandler, kept by the shutdown of each Init
    failed,     \* shutdowns that will return an error
    calls,      \* times the shutdown of each has been called
    batches,    \* batches of spans still to be exported
    overtaken,  \* history: an Init was shut down while another handler was on
    lost        \* history: what was written about the last batch that was dropped

lifeVars == <<stage, tracer, meter, handler, delegate, prev, failed, calls,
              batches, overtaken, lost>>
telemetryVars == <<lifeVars, exporterVars>>

\* Who an error is given to in the end (otel's default handler delegates).
Effective == IF handler = "default" /\ delegate # "none" THEN delegate ELSE handler

SetErrorHandler(h) ==
    /\ handler' = h
    /\ delegate' = IF handler = "default" /\ delegate = "none" /\ h # "default"
                   THEN h ELSE delegate

Enter(i, s) == stage' = [stage EXCEPT ![i] = s]

-----------------------------------------------------------------------------
(* Init.                                                                    *)

\* tracing.Init: the handler goes in before the provider.
InitTracing(i) ==
    /\ stage[i] = "new" /\ Tracing[i] # "off"
    /\ Enter(i, "traced")
    /\ prev' = [prev EXCEPT ![i] = handler]
    /\ SetErrorHandler(i)
    /\ tracer' = [tracer EXCEPT ![i] = "running"]
    /\ UNCHANGED <<meter, failed, calls, batches, overtaken, lost, exporterVars>>

\* No tracing, or an exporter that cannot be built: nothing is installed.
NoTracing(i) ==
    /\ stage[i] = "new"
    /\ Enter(i, IF Tracing[i] = "required" THEN "refused" ELSE "traced")
    /\ UNCHANGED <<tracer, meter, handler, delegate, prev, failed, calls, batches,
                   overtaken, lost, exporterVars>>

InitMetrics(i) ==
    /\ stage[i] = "traced" /\ Metrics[i] # "off"
    /\ Enter(i, "ready")
    /\ meter' = [meter EXCEPT ![i] = "running"]
    /\ UNCHANGED <<tracer, handler, delegate, prev, failed, calls, batches,
                   overtaken, lost, exporterVars>>

\* Required metrics that fail make Init return their error and no shutdown.
NoMetrics(i) ==
    /\ stage[i] = "traced"
    /\ Enter(i, IF Metrics[i] = "required" THEN "refused" ELSE "ready")
    /\ UNCHANGED <<tracer, meter, handler, delegate, prev, failed, calls, batches,
                   overtaken, lost, exporterVars>>

-----------------------------------------------------------------------------
(* The shutdown Init returns: metrics first, then tracing.                  *)

\* Mutant: the first error ends the shutdown.
ShutdownMetricsOrStop(i) ==
    /\ stage[i] \in {"ready", "closed"} /\ calls[i] < MaxShutdowns
    /\ calls' = [calls EXCEPT ![i] = @ + 1]
    /\ \E fails \in {b \in BOOLEAN : b => meter[i] # "none"} :
          /\ Enter(i, IF fails THEN "closed" ELSE "closing")
          /\ failed' = IF fails THEN failed \cup {i} ELSE failed \ {i}
    /\ meter' = [meter EXCEPT ![i] = IF @ = "running" THEN "stopped" ELSE @]
    /\ UNCHANGED <<tracer, handler, delegate, prev, batches, overtaken, lost,
                   exporterVars>>

\* mp.Shutdown may fail (it always does the second time); the loop goes on.
ShutdownMetrics(i) ==
    /\ stage[i] \in {"ready", "closed"} /\ calls[i] < MaxShutdowns
    /\ calls' = [calls EXCEPT ![i] = @ + 1]
    /\ Enter(i, "closing")
    /\ \E fails \in {b \in BOOLEAN : b => meter[i] # "none"} :
          failed' = IF fails THEN failed \cup {i} ELSE failed \ {i}
    /\ meter' = [meter EXCEPT ![i] = IF @ = "running" THEN "stopped" ELSE @]
    /\ UNCHANGED <<tracer, handler, delegate, prev, batches, overtaken, lost,
                   exporterVars>>

\* Mutant: the previous handler is not put back.
RestoreNothing(i) ==
    /\ overtaken' = (overtaken \/ (handler # i /\ tracer[i] = "running"))
    /\ UNCHANGED <<handler, delegate>>

\* The previous handler is put back, when the one installed is still i's.
Restore(i) ==
    IF handler = i THEN SetErrorHandler(prev[i]) /\ UNCHANGED overtaken
    ELSE /\ overtaken' = (overtaken \/ tracer[i] = "running")
         /\ UNCHANGED <<handler, delegate>>

\* The application registers a handler of its own, as observability/README.md
\* has it do after Init.
AppHandler ==
    /\ handler # "app"
    /\ SetErrorHandler("app")
    /\ UNCHANGED <<stage, tracer, meter, prev, failed, calls, batches, overtaken,
                   lost, exporterVars>>

\* tp.Shutdown returns once the spans are exported, or with an error when its
\* context ends before; the processor goes on exporting behind it.
Drained(i) == i # Exporting \/ (batches = 0 /\ at = "idle")

ShutdownTracing(i) ==
    /\ stage[i] = "closing"
    /\ Enter(i, "closed")
    /\ IF tracer[i] = "none"
       THEN UNCHANGED <<tracer, handler, delegate, failed, overtaken>>
       ELSE /\ tracer' = [tracer EXCEPT ![i] = "stopped"]
            /\ \/ /\ Drained(i) \/ tracer[i] = "stopped"
                  /\ UNCHANGED failed
               \/ /\ ~Drained(i) /\ tracer[i] = "running"
                  /\ failed' = failed \cup {i}
            /\ Restore(i)
    /\ UNCHANGED <<meter, prev, calls, batches, lost, exporterVars>>

-----------------------------------------------------------------------------
(* Exports.                                                                 *)

Export ==
    /\ tracer[Exporting] # "none" /\ batches > 0
    /\ Upload
    /\ batches' = batches - 1
    /\ UNCHANGED <<stage, tracer, meter, handler, delegate, prev, failed, calls,
                   overtaken, lost>>

Progress == Uploading /\ UNCHANGED lifeVars

\* Mutant: the error handler does not see that it was logged.
SilencesNothing(h) == FALSE

\* otelErrorHandler.Handle takes a loggedExporterError for reported and drops it;
\* another handler writes it.
Silences(h) == h \in Inits

\* The processor hands the error of an export to the global handler.
HandleError ==
    /\ at = "returned"
    /\ at' = "idle"
    /\ lost' = [reports |-> IF Silences(Effective) THEN reports ELSE reports + 1,
                ours    |-> Effective \in Inits]
    /\ reports' = 0
    /\ UNCHANGED <<deadline, elapsed, interval, timer, failing, stage, tracer, meter,
                   handler, delegate, prev, failed, calls, batches, overtaken>>

-----------------------------------------------------------------------------

NoLoss == [reports |-> 1, ours |-> TRUE]

TelemetryInit ==
    /\ ExporterInit
    /\ stage = [i \in Inits |-> "new"]
    /\ tracer = [i \in Inits |-> "none"] /\ meter = [i \in Inits |-> "none"]
    /\ handler \in Outer /\ delegate = "none"
    /\ prev = [i \in Inits |-> "default"]
    /\ failed = {} /\ calls = [i \in Inits |-> 0]
    /\ batches = Batches
    /\ overtaken = FALSE /\ lost = NoLoss

TelemetryNext ==
    \/ \E i \in Inits : \/ InitTracing(i) \/ NoTracing(i)
                        \/ InitMetrics(i) \/ NoMetrics(i)
                        \/ ShutdownMetrics(i) \/ ShutdownTracing(i)
    \/ AppHandler
    \/ Export \/ Progress \/ HandleError

TelemetrySpec == TelemetryInit /\ [][TelemetryNext]_telemetryVars

\* Goroutines go on, calls come back by their deadline, and time passes.
TelemetryFairness ==
    /\ WF_telemetryVars(Export) /\ WF_telemetryVars(HandleError)
    /\ WF_telemetryVars(Progress)
    /\ \A i \in Inits : WF_telemetryVars(ShutdownTracing(i))

FairTelemetry == TelemetrySpec /\ TelemetryFairness

-----------------------------------------------------------------------------
(* Properties.                                                              *)

TelemetryTypeOK ==
    /\ ExporterTypeOK
    /\ stage \in [Inits -> {"new", "traced", "ready", "refused", "closing", "closed"}]
    /\ tracer \in [Inits -> {"none", "running", "stopped"}]
    /\ meter \in [Inits -> {"none", "running", "stopped"}]
    /\ handler \in Inits \cup Outer /\ delegate \in Inits \cup Outer \cup {"none"}
    /\ prev \in [Inits -> Inits \cup Outer]
    /\ failed \subseteq Inits /\ calls \in [Inits -> 0..MaxShutdowns]
    /\ batches \in 0..Batches /\ overtaken \in BOOLEAN
    /\ lost \in [reports : 0..3, ours : BOOLEAN]

\* The logger writes what exporterLogger gives it.
LoggerAccepts == FailureKeys \cup ContextKeys \subseteq LoggerKeys

\* A batch of spans that is dropped is reported, and by one entry only while a
\* handler of this code is installed, whichever Init it belongs to (the marker
\* loggedExporterError, an error that has been logged and is not logged again); and
\* the logger remembers it, so that the next success is announced (logRecovery).
\* It holds where LoggerAccepts does; gclog without WithAllowedKeys refuses the
\* entry and the handler takes it for written.
DropIsReported ==
    /\ lost.reports >= 1 /\ (lost.ours => lost.reports = 1)
    /\ at \in {"waiting", "returned"} => failing

\* What Init has started is shut down by the shutdown it returns, although one
\* part's shutdown may fail; an Init that fails leaves nothing running, except
\* the tracer of one whose required metrics fail (observability.Init).
NothingOutlivesShutdown ==
    \A i \in Inits :
        /\ stage[i] = "closed" => tracer[i] # "running" /\ meter[i] # "running"
        /\ (stage[i] = "refused" /\ tracer[i] = "running") => Metrics[i] = "required"
        /\ stage[i] = "refused" => meter[i] = "none"

\* The installed handler is never one whose tracing was shut down, as long as
\* pipelines are shut down in the reverse order of their Init (tracing.Init).
HandlerIsLive ==
    (~overtaken /\ handler \in Inits) => tracer[handler] = "running"

\* Spans of an installed tracer are exported or dropped in the end, whatever the
\* collector answers, and no batch blocks the processor for ever.
ExportsEnd == tracer[Exporting] # "none" ~> (batches = 0 /\ at = "idle")
=============================================================================
