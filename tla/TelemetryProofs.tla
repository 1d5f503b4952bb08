--------------------------- MODULE TelemetryProofs ---------------------------
(***************************************************************************)
(* The safety properties of Telemetry for any number of Inits and batches   *)
(* and any retry settings.  Two invariants are kept side by side: one of the *)
(* upload of a batch (UploadInv), and one of what the Inits have installed   *)
(* (LifeInv), of which the error handlers are the part that is not obvious.  *)
(***************************************************************************)
EXTENDS Telemetry, TLAPS

\* The upload of one batch, and how often it has been reported.
UploadInv ==
    /\ ExporterTypeOK
    /\ at \in {"idle", "returned"} => elapsed = 0 /\ timer = 0
    /\ reports \in {0, 1} /\ (at # "returned" => reports = 0)
    /\ (LoggerAccepts /\ at = "returned") => reports = 1
    /\ at \in {"waiting", "returned"} => failing
    /\ RetriesFitBudget

LifeTypes ==
    /\ stage \in [Inits -> {"new", "traced", "ready", "refused", "closing", "closed"}]
    /\ tracer \in [Inits -> {"none", "running", "stopped"}]
    /\ meter \in [Inits -> {"none", "running", "stopped"}]
    /\ handler \in Inits \cup Outer /\ delegate \in Inits \cup Outer \cup {"none"}
    /\ prev \in [Inits -> Inits \cup Outer]
    /\ failed \subseteq Inits /\ calls \in [Inits -> 0..MaxShutdowns]
    /\ batches \in 0..Batches /\ overtaken \in BOOLEAN
    /\ lost \in [reports : 0..3, ours : BOOLEAN]

\* What each Init has running at each stage.
StageOK(i) ==
    /\ stage[i] = "new" => tracer[i] = "none" /\ meter[i] = "none"
    /\ stage[i] \in {"traced", "refused"} => meter[i] = "none"
    /\ stage[i] = "closing" => meter[i] # "running"
    /\ stage[i] = "closed" => tracer[i] # "running" /\ meter[i] # "running"
    /\ (stage[i] = "refused" /\ tracer[i] = "running") => Metrics[i] = "required"

Running == {i \in Inits : tracer[i] = "running"}

\* The handlers of the running tracers are a chain without a fork that starts
\* at the installed one, as long as none was shut down out of order.
Chain ==
    ~overtaken =>
        /\ handler \in Inits => handler \in Running
        /\ \A i \in Running : prev[i] \in Inits => prev[i] \in Running /\ prev[i] # handler
        /\ \A i, j \in Running : prev[i] = prev[j] /\ prev[i] \in Inits => i = j

\* The last batch that was dropped was reported, once if by this code, where the
\* logger writes its entries.
LostOK == LoggerAccepts => lost.reports >= 1 /\ (lost.ours => lost.reports = 1)

LifeInv == LifeTypes /\ (\A i \in Inits : StageOK(i)) /\ Chain /\ LostOK

TelemetryInv == UploadInv /\ LifeInv

-----------------------------------------------------------------------------
(* The upload.                                                              *)

LEMMA IntervalStays ==
    ASSUME NEW i \in InitialInterval..MaxInterval
    PROVE  /\ NextInterval(i) \in InitialInterval..MaxInterval
           /\ Jittered(i) \subseteq Nat
  BY ExporterAssumption DEF NextInterval, Jittered

LEMMA ReturnEnds ==
    ASSUME UploadInv, NEW where \in {"idle", "returned"}, Return(where)
    PROVE  /\ at' = where /\ elapsed' = 0 /\ timer' = 0 /\ deadline' = 0
           /\ interval' \in InitialInterval..MaxInterval
  BY ExporterAssumption DEF Return

LEMMA GivingUpReports ==
    ASSUME UploadInv, at \in {"sending", "waiting"},
           NEW keys \in {FailureKeys, ContextKeys}, GiveUp(keys)
    PROVE  UploadInv'
<1>1. Return("returned") /\ failing' = TRUE
  BY DEF GiveUp, LogFailure
<1>2. reports' \in {0, 1} /\ (LoggerAccepts => reports' = 1)
  <2>1. reports = 0
    BY DEF UploadInv
  <2>2. LoggerAccepts => keys \subseteq LoggerKeys
    BY DEF LoggerAccepts
  <2>. QED
    BY <2>1, <2>2 DEF GiveUp, LogFailure
<1>. QED
  BY <1>1, <1>2, ReturnEnds DEF UploadInv, ExporterTypeOK, RetriesFitBudget

LEMMA UploadBegins ==
    ASSUME UploadInv, Upload
    PROVE  UploadInv'
  BY ExporterAssumption DEF UploadInv, Upload, ExporterTypeOK, RetriesFitBudget

\* A wait is begun only when it ends within the budget.
LEMMA FailureKeeps ==
    ASSUME UploadInv, NEW code \in Codes, NEW throttle \in Throttles,
           NEW backoff \in Jittered(interval), CallFails(code, throttle, backoff)
    PROVE  UploadInv'
<1> DEFINE delay == Delay(backoff, throttle)
<1>1. interval \in InitialInterval..MaxInterval
  BY DEF UploadInv, ExporterTypeOK
<1>2. backoff \in Nat /\ NextInterval(interval) \in InitialInterval..MaxInterval
  BY <1>1, IntervalStays
<1>3. delay \in Nat
  BY <1>2, ExporterAssumption DEF Delay
<1>4. CASE OverBudget(delay)
  BY <1>4, GivingUpReports DEF CallFails
<1>5. CASE ~OverBudget(delay)
  <2>1. /\ at = "sending" /\ at' = "waiting" /\ timer' = delay
        /\ interval' = NextInterval(interval)
        /\ failing' = TRUE /\ reports' = reports /\ deadline' = deadline /\ elapsed' = elapsed
    BY <1>5 DEF CallFails, LogRetry
  <2>2. elapsed \in Nat
    BY ExporterAssumption DEF UploadInv, ExporterTypeOK
  <2>3. RetriesFitBudget'
    BY <1>3, <1>5, <2>1, <2>2, ExporterAssumption DEF OverBudget, RetriesFitBudget
  <2>. QED
    BY <1>2, <1>3, <2>1, <2>3 DEF UploadInv, ExporterTypeOK
<1>. QED
  BY <1>4, <1>5

LEMMA UploadingKeeps ==
    ASSUME UploadInv, Uploading
    PROVE  UploadInv'
<1>1. CASE CallSucceeds
  <2>1. Return("idle") /\ failing' = FALSE /\ reports' = reports /\ at = "sending"
    BY <1>1 DEF CallSucceeds, LogRecovery
  <2>2. /\ at' = "idle" /\ elapsed' = 0 /\ timer' = 0 /\ deadline' = 0
        /\ interval' \in InitialInterval..MaxInterval
    BY <2>1, ReturnEnds
  <2>3. reports' = 0
    BY <2>1 DEF UploadInv
  <2>4. failing' \in BOOLEAN
    BY <2>1, Zenon
  <2>. QED
    BY <2>2, <2>3, <2>4 DEF UploadInv, ExporterTypeOK, RetriesFitBudget
<1>2. ASSUME NEW code \in Codes, CallFailsForGood(code) PROVE UploadInv'
  BY <1>2, GivingUpReports DEF CallFailsForGood
<1>3. CASE Wake
  BY <1>3 DEF Wake, loggerVars, UploadInv, ExporterTypeOK, RetriesFitBudget
<1>4. CASE Abort
  BY <1>4, GivingUpReports DEF Abort
<1>5. CASE Tick
  BY <1>5, ExporterAssumption DEF Tick, loggerVars, UploadInv, ExporterTypeOK, RetriesFitBudget
<1>. QED
  BY <1>1, <1>2, <1>3, <1>4, <1>5, FailureKeeps DEF Uploading, CallEnds

LEMMA UploadUnchanged ==
    ASSUME UploadInv, UNCHANGED exporterVars
    PROVE  UploadInv'
  BY DEF exporterVars, uploadVars, loggerVars, UploadInv, ExporterTypeOK, RetriesFitBudget

-----------------------------------------------------------------------------
(* What the Inits install and shut down.                                    *)

\* The new handler is put before the chain.
LEMMA InstallKeepsChain ==
    ASSUME LifeInv, NEW i \in Inits, InitTracing(i)
    PROVE  Chain'
<1>1. tracer[i] = "none"
  BY DEF InitTracing, LifeInv, StageOK
<1>2. /\ Running' = Running \cup {i} /\ handler' = i /\ overtaken' = overtaken
      /\ prev' = [prev EXCEPT ![i] = handler]
  BY DEF InitTracing, SetErrorHandler, LifeInv, LifeTypes, Running
<1>3. prev \in [Inits -> Inits \cup Outer] /\ i \notin Running /\ Running \subseteq Inits
  BY <1>1 DEF LifeInv, LifeTypes, Running
<1>. QED
  BY <1>2, <1>3 DEF LifeInv, Chain

\* The first of the chain is taken out, or the order is broken.
LEMMA RestoreKeepsChain ==
    ASSUME LifeInv, NEW i \in Inits, Restore(i), prev' = prev,
           tracer' = [tracer EXCEPT ![i] = "stopped"]
    PROVE  Chain'
<1>1. Running' = Running \ {i} /\ Running \subseteq Inits /\ overtaken \in BOOLEAN
  BY DEF LifeInv, LifeTypes, Running
<1>2. CASE overtaken
  BY <1>2 DEF Restore, Chain
<1>3. CASE ~overtaken /\ handler = i
  <2>1. handler' = prev[i] /\ i \in Running /\ overtaken' = overtaken
    BY <1>3 DEF Restore, SetErrorHandler, LifeInv, Chain
  <2>. QED
    BY <1>1, <1>3, <2>1 DEF LifeInv, Chain
<1>4. CASE ~overtaken /\ handler # i
  <2>1. handler' = handler /\ (~overtaken' => i \notin Running)
    BY <1>4 DEF Restore, Running
  <2>. QED
    BY <1>1, <1>4, <2>1 DEF LifeInv, Chain
<1>. QED
  BY <1>2, <1>3, <1>4

LEMMA InitTracingKeeps ==
    ASSUME LifeInv, NEW i \in Inits, InitTracing(i)
    PROVE  LifeInv'
<1>1. LifeTypes' /\ LostOK'
  BY DEF InitTracing, SetErrorHandler, Enter, LifeInv, LifeTypes, LostOK
<1>2. \A j \in Inits : StageOK(j)'
  BY DEF InitTracing, Enter, LifeInv, LifeTypes, StageOK
<1>. QED
  BY <1>1, <1>2, InstallKeepsChain DEF LifeInv

LEMMA ShutdownTracingKeeps ==
    ASSUME LifeInv, NEW i \in Inits, ShutdownTracing(i)
    PROVE  LifeInv'
<1>1. CASE tracer[i] = "none"
  BY <1>1, TelemetryAssumption
     DEF ShutdownTracing, Enter, LifeInv, LifeTypes, StageOK, Chain, Running, LostOK
<1>2. CASE tracer[i] # "none"
  <2>1. /\ tracer' = [tracer EXCEPT ![i] = "stopped"] /\ Restore(i) /\ prev' = prev
        /\ failed' \in {failed, failed \cup {i}} /\ Enter(i, "closed")
        /\ UNCHANGED <<meter, calls, batches, lost>> /\ stage[i] = "closing"
    BY <1>2 DEF ShutdownTracing
  <2>2. /\ handler' \in Inits \cup Outer /\ delegate' \in Inits \cup Outer \cup {"none"}
        /\ overtaken' \in BOOLEAN
    <3>1. CASE handler = i
      BY <2>1, <3>1 DEF Restore, SetErrorHandler, LifeInv, LifeTypes
    <3>2. CASE handler # i
      BY <2>1, <3>2 DEF Restore, LifeInv, LifeTypes
    <3>. QED
      BY <3>1, <3>2
  <2>3. LifeTypes' /\ LostOK'
    BY <2>1, <2>2 DEF Enter, LifeInv, LifeTypes, LostOK
  <2>4. \A j \in Inits : StageOK(j)'
    BY <2>1 DEF Enter, LifeInv, LifeTypes, StageOK
  <2>. QED
    BY <2>1, <2>3, <2>4, RestoreKeepsChain DEF LifeInv
<1>. QED
  BY <1>1, <1>2

LEMMA ShutdownMetricsKeeps ==
    ASSUME LifeInv, NEW i \in Inits, ShutdownMetrics(i)
    PROVE  LifeInv'
<1>1. LifeTypes'
  BY TelemetryAssumption DEF ShutdownMetrics, Enter, LifeInv, LifeTypes
<1>2. \A j \in Inits : StageOK(j)'
  BY DEF ShutdownMetrics, Enter, LifeInv, LifeTypes, StageOK
<1>. QED
  BY <1>1, <1>2 DEF ShutdownMetrics, LifeInv, Chain, Running, LostOK

LEMMA OtherInitsKeep ==
    ASSUME LifeInv, NEW i \in Inits, NoTracing(i) \/ InitMetrics(i) \/ NoMetrics(i)
    PROVE  LifeInv'
<1> USE DEF NoTracing, InitMetrics, NoMetrics
<1>1. LifeTypes'
  BY DEF Enter, LifeInv, LifeTypes
<1>2. \A j \in Inits : StageOK(j)'
  BY DEF Enter, LifeInv, LifeTypes, StageOK
<1>. QED
  BY <1>1, <1>2 DEF LifeInv, Chain, Running, LostOK

\* The application's handler is in front of the chain and not part of it.
LEMMA AppHandlerKeeps ==
    ASSUME LifeInv, AppHandler
    PROVE  LifeInv'
<1>1. handler' = "app" /\ "app" \notin Inits /\ "app" \in Outer
  BY TelemetryAssumption DEF AppHandler, SetErrorHandler, Outer
<1>2. LifeTypes'
  BY <1>1 DEF AppHandler, SetErrorHandler, LifeInv, LifeTypes
<1>3. Chain'
  BY <1>1 DEF AppHandler, LifeInv, LifeTypes, Chain, Running
<1>. QED
  BY <1>2, <1>3 DEF AppHandler, LifeInv, StageOK, LostOK

LEMMA LifeUnchanged ==
    ASSUME LifeInv, UNCHANGED lifeVars
    PROVE  LifeInv'
  BY DEF lifeVars, LifeInv, LifeTypes, StageOK, Chain, Running, LostOK

LEMMA ExportKeeps ==
    ASSUME TelemetryInv, Export
    PROVE  TelemetryInv'
<1>1. LifeTypes'
  BY TelemetryAssumption DEF Export, TelemetryInv, LifeInv, LifeTypes
<1>2. LifeInv'
  BY <1>1 DEF Export, TelemetryInv, LifeInv, LifeTypes, StageOK, Chain, Running, LostOK
<1>. QED
  BY <1>2, UploadBegins DEF Export, TelemetryInv

\* The report of the exporter is the only one, unless a foreign handler adds
\* its own.
LEMMA HandleErrorKeeps ==
    ASSUME TelemetryInv, HandleError
    PROVE  TelemetryInv'
<1> USE DEF TelemetryInv
<1>1. reports \in {0, 1} /\ (LoggerAccepts => reports = 1) /\ UploadInv'
  BY DEF HandleError, UploadInv, ExporterTypeOK, RetriesFitBudget
<1>2. (Effective \in Inits) \in BOOLEAN
  OBVIOUS
<1>3. lost' \in [reports : 0..3, ours : BOOLEAN] /\ LostOK'
  <2>1. CASE Effective \in Inits
    <3>1. lost' = [reports |-> reports, ours |-> TRUE]
      BY <2>1 DEF HandleError, Silences
    <3>. QED
      BY <1>1, <3>1 DEF LostOK
  <2>2. CASE Effective \notin Inits
    <3>1. lost' = [reports |-> reports + 1, ours |-> (Effective \in Inits)]
      BY <2>2, Zenon DEF HandleError, Silences
    <3>2. lost' \in [reports : 0..3, ours : BOOLEAN] /\ lost'.reports >= 1
      BY <1>1, <1>2, <3>1
    <3>3. lost'.ours = (Effective \in Inits)
      BY <3>1, Zenon
    <3>. QED
      BY <2>2, <3>2, <3>3 DEF LostOK
  <2>. QED
    BY <2>1, <2>2
<1>4. LifeInv'
  BY <1>3 DEF HandleError, LifeInv, LifeTypes, StageOK, Chain, Running
<1>. QED
  BY <1>1, <1>4

-----------------------------------------------------------------------------

LEMMA TelemetryInvInit == TelemetryInit => TelemetryInv
<1> SUFFICES ASSUME TelemetryInit PROVE TelemetryInv
  OBVIOUS
<1>1. UploadInv
  <2>1. ExporterInit
    BY DEF TelemetryInit
  <2>2. InitialInterval \in InitialInterval..MaxInterval
    BY ExporterAssumption
  <2>3. failing \in BOOLEAN
    BY <2>1, Zenon DEF ExporterInit
  <2>. QED
    BY <2>1, <2>2, <2>3 DEF ExporterInit, UploadInv, ExporterTypeOK, RetriesFitBudget
<1>2. LifeTypes /\ LostOK
  <2>1. lost = [reports |-> 1, ours |-> TRUE]
    BY DEF TelemetryInit, NoLoss
  <2>2. lost \in [reports : 0..3, ours : BOOLEAN] /\ LostOK
    BY <2>1 DEF LostOK
  <2>3. overtaken \in BOOLEAN
    BY Zenon DEF TelemetryInit
  <2>. QED
    BY <2>2, <2>3, TelemetryAssumption DEF TelemetryInit, LifeTypes, Outer
<1>3. (\A i \in Inits : StageOK(i)) /\ Chain
  BY TelemetryAssumption DEF TelemetryInit, StageOK, Chain, Running, Outer
<1>. QED
  BY <1>1, <1>2, <1>3 DEF TelemetryInv, LifeInv

LEMMA TelemetryInvNext == TelemetryInv /\ [TelemetryNext]_telemetryVars => TelemetryInv'
<1> SUFFICES ASSUME TelemetryInv, [TelemetryNext]_telemetryVars PROVE TelemetryInv'
  OBVIOUS
<1> USE DEF TelemetryInv
<1>1. ASSUME NEW i \in Inits, InitTracing(i) PROVE TelemetryInv'
  BY <1>1, InitTracingKeeps, UploadUnchanged DEF InitTracing
<1>2. ASSUME NEW i \in Inits, NoTracing(i) \/ InitMetrics(i) \/ NoMetrics(i)
      PROVE  TelemetryInv'
  BY <1>2, OtherInitsKeep, UploadUnchanged DEF NoTracing, InitMetrics, NoMetrics
<1>3. ASSUME NEW i \in Inits, ShutdownMetrics(i) PROVE TelemetryInv'
  BY <1>3, ShutdownMetricsKeeps, UploadUnchanged DEF ShutdownMetrics
<1>4. ASSUME NEW i \in Inits, ShutdownTracing(i) PROVE TelemetryInv'
  BY <1>4, ShutdownTracingKeeps, UploadUnchanged DEF ShutdownTracing
<1>5. CASE Progress
  BY <1>5, UploadingKeeps, LifeUnchanged DEF Progress
<1>6. CASE UNCHANGED telemetryVars
  BY <1>6, UploadUnchanged, LifeUnchanged DEF telemetryVars
<1>7. CASE AppHandler
  BY <1>7, AppHandlerKeeps, UploadUnchanged DEF AppHandler
<1>. QED
  BY <1>1, <1>2, <1>3, <1>4, <1>5, <1>6, <1>7, ExportKeeps, HandleErrorKeeps DEF TelemetryNext

LEMMA TelemetryInvariant == TelemetrySpec => []TelemetryInv
  BY TelemetryInvInit, TelemetryInvNext, PTL DEF TelemetrySpec

-----------------------------------------------------------------------------

\* Every variable keeps its type, and a batch is reported once at most by the
\* exporter.
THEOREM TelemetryTypeCorrect == TelemetrySpec => []TelemetryTypeOK
<1>1. TelemetryInv => TelemetryTypeOK
  BY DEF TelemetryInv, UploadInv, ExporterTypeOK, LifeInv, LifeTypes, TelemetryTypeOK
<1>. QED
  BY <1>1, TelemetryInvariant, PTL

\* UploadTraces never begins a wait that would end after the retry budget,
\* whatever the backoff has drawn and whatever delay the collector asks for.
THEOREM BudgetIsKept == TelemetrySpec => []RetriesFitBudget
<1>1. TelemetryInv => RetriesFitBudget
  BY DEF TelemetryInv, UploadInv
<1>. QED
  BY <1>1, TelemetryInvariant, PTL

\* Over a logger that writes the exporter's entries no batch is dropped in silence,
\* and none is reported twice by this code, whichever handler happens to be
\* installed when the processor gets the error.  Over any other logger it is not so.
THEOREM DropsAreReported == TelemetrySpec => [](LoggerAccepts => DropIsReported)
<1>1. TelemetryInv => (LoggerAccepts => DropIsReported)
  BY DEF TelemetryInv, UploadInv, LifeInv, LostOK, DropIsReported
<1>. QED
  BY <1>1, TelemetryInvariant, PTL

\* After the shutdown of an Init nothing of it runs, although parts of the
\* shutdown may fail.
THEOREM ShutdownIsComplete == TelemetrySpec => []NothingOutlivesShutdown
<1>1. TelemetryInv => NothingOutlivesShutdown
  BY DEF TelemetryInv, LifeInv, StageOK, NothingOutlivesShutdown
<1>. QED
  BY <1>1, TelemetryInvariant, PTL

\* Shut down in the reverse order of their Inits, the pipelines never leave the
\* handler of one that is gone.
THEOREM InstalledHandlerIsLive == TelemetrySpec => []HandlerIsLive
<1>1. TelemetryInv => HandlerIsLive
  BY DEF TelemetryInv, LifeInv, Chain, Running, HandlerIsLive
<1>. QED
  BY <1>1, TelemetryInvariant, PTL
=============================================================================
