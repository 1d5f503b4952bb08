---------------------------- MODULE TraceExporter ----------------------------
(***************************************************************************)
(* retryingClient.UploadTraces of observability/tracing/exporter_retry.go:  *)
(* the retries of one batch of spans after another, against a retry budget  *)
(* and the deadline of the caller's context, and what exporter_logger.go     *)
(* says about them.  Time is discrete and counted from the start of a batch. *)
(***************************************************************************)
EXTENDS Integers

CONSTANTS
    InitialInterval, MaxInterval,  \* retrySettings
    MaxElapsed,                    \* the retry budget, 0 for none
    Deadlines,                     \* export timeouts the callers may have set
    Throttles,                     \* RetryInfo delays the collector sends, 0 for none
    LoggerKeys                     \* of the exporter's own keys, what the logger writes

ASSUME ExporterAssumption ==
    /\ InitialInterval \in Nat \ {0, 1}
    /\ MaxInterval \in Nat /\ MaxInterval >= InitialInterval
    /\ MaxElapsed \in Nat
    /\ Deadlines \subseteq Nat \ {0} /\ Throttles \subseteq Nat
    /\ LoggerKeys \subseteq {"attempt", "grpc_code"}

VARIABLES
    at,           \* where the upload of the batch is
    deadline,     \* of its context
    elapsed,      \* time since it began
    interval,     \* the current interval of the backoff
    timer,        \* what is left of the wait
    failing,      \* exporterLogger: consecutive > 0
    reports       \* history: entries written about the loss of this batch

uploadVars == <<at, deadline, elapsed, interval, timer>>
loggerVars == <<failing, reports>>
exporterVars == <<uploadVars, loggerVars>>

\* Errors of the delegate: two codes that are retried and one for all that are
\* not; an error that carries no status counts as Unknown, which is not.
RetryableCodes == {"DeadlineExceeded", "Unavailable"}
Codes          == RetryableCodes \cup {"Unknown"}

\* Mutant: the interval grows for ever.
IntervalUncapped(i) == i + i \div 2

\* The interval after i: times 1.5, up to MaxInterval.
NextInterval(i) == LET grown == i + i \div 2
                   IN  IF grown > MaxInterval THEN MaxInterval ELSE grown

\* NextBackOff: anything from half to one and a half intervals.
Jittered(i) == (i \div 2)..(i + i \div 2)

\* nextDelay.
Delay(backoff, throttle) == IF throttle > backoff THEN throttle ELSE backoff

\* Mutant: only the time that has passed is held against the budget.
SpentOverBudget(delay) == MaxElapsed > 0 /\ elapsed > MaxElapsed

OverBudget(delay) == MaxElapsed > 0 /\ elapsed + delay > MaxElapsed

-----------------------------------------------------------------------------
(* exporterLogger.  Its helper drops the error of Log: a logger that does not *)
(* know one of the keys (gclog, unless it is registered) writes nothing.      *)

FailureKeys == {"attempt", "grpc_code"}
ContextKeys == {"attempt"}

\* logRetry: a warning.
LogRetry == failing' = TRUE /\ UNCHANGED reports

\* logPermanentFailure, logContextFailure: the entry that reports the batch.
LogFailure(keys) ==
    /\ failing' = TRUE
    /\ reports' = IF keys \subseteq LoggerKeys THEN reports + 1 ELSE reports

\* logRecovery.
LogRecovery == failing' = FALSE /\ UNCHANGED reports

-----------------------------------------------------------------------------
(* UploadTraces.                                                            *)

\* UploadTraces returns: its locals are gone.
Return(where) ==
    /\ at' = where
    /\ deadline' = 0 /\ elapsed' = 0 /\ timer' = 0
    /\ interval' = InitialInterval

\* The batch processor takes the next batch and calls UploadTraces.
Upload ==
    /\ at = "idle"
    /\ at' = "sending"
    /\ deadline' \in Deadlines
    /\ reports' = 0
    /\ UNCHANGED <<elapsed, interval, timer, failing>>

CallSucceeds ==
    /\ at = "sending"
    /\ LogRecovery
    /\ Return("idle")

\* UploadTraces returns a loggedExporterError; the batch is gone.
GiveUp(keys) ==
    /\ LogFailure(keys)
    /\ Return("returned")

\* Past the deadline of its context a call has no other way to end.
MayFailWith(code) == elapsed = deadline => code = "DeadlineExceeded"

CallFailsForGood(code) ==
    /\ at = "sending" /\ MayFailWith(code)
    /\ code \notin RetryableCodes
    /\ GiveUp(FailureKeys)

\* Mutant: the retry does not wait.
CallFailsAtOnce(code, throttle, backoff) ==
    /\ at = "sending" /\ MayFailWith(code)
    /\ code \in RetryableCodes
    /\ IF OverBudget(Delay(backoff, throttle)) THEN GiveUp(FailureKeys)
       ELSE /\ LogRetry
            /\ at' = "waiting" /\ timer' = 0
            /\ UNCHANGED <<deadline, elapsed, interval>>

\* A retryable error: wait and try again, unless the wait would end too late.
CallFails(code, throttle, backoff) ==
    /\ at = "sending" /\ MayFailWith(code)
    /\ code \in RetryableCodes
    /\ LET delay == Delay(backoff, throttle)
       IN  IF OverBudget(delay) THEN GiveUp(FailureKeys)
           ELSE /\ LogRetry
                /\ at' = "waiting"
                /\ interval' = NextInterval(interval)
                /\ timer' = delay
                /\ UNCHANGED <<deadline, elapsed>>

\* waitWithContext: the timer fires, or the context ends.  Select may take either.
Wake ==
    /\ at = "waiting" /\ timer = 0
    /\ at' = "sending"
    /\ UNCHANGED <<deadline, elapsed, interval, timer, loggerVars>>

Abort ==
    /\ at = "waiting" /\ elapsed = deadline
    /\ GiveUp(ContextKeys)

\* Time passes in a call and in a wait, up to what ends them.
Tick ==
    /\ at \in {"sending", "waiting"}
    /\ elapsed < deadline
    /\ at = "waiting" => timer > 0
    /\ elapsed' = elapsed + 1
    /\ timer' = IF at = "waiting" THEN timer - 1 ELSE timer
    /\ UNCHANGED <<at, deadline, interval, loggerVars>>

ExporterInit ==
    /\ at = "idle"
    /\ deadline = 0 /\ elapsed = 0 /\ timer = 0
    /\ interval = InitialInterval
    /\ failing = FALSE /\ reports = 0

CallEnds ==
    \/ CallSucceeds
    \/ \E code \in Codes :
          \/ CallFailsForGood(code)
          \/ \E throttle \in Throttles, backoff \in Jittered(interval) :
                CallFails(code, throttle, backoff)

\* Everything after Upload, until UploadTraces has returned.
Uploading == CallEnds \/ Wake \/ Abort \/ Tick

-----------------------------------------------------------------------------
(* Properties.                                                              *)

ExporterTypeOK ==
    /\ at \in {"idle", "sending", "waiting", "returned"}
    /\ deadline \in Deadlines \cup {0} /\ elapsed \in 0..deadline
    /\ interval \in InitialInterval..MaxInterval /\ timer \in Nat
    /\ failing \in BOOLEAN /\ reports \in 0..2

\* A wait that has been begun ends within the retry budget, also when the
\* collector has asked for it (nextDelay, the check of maxElapsed in UploadTraces).
RetriesFitBudget ==
    (MaxElapsed > 0 /\ at = "waiting") => elapsed + timer <= MaxElapsed
=============================================================================
