--------------------------- MODULE OutboxPublisher ---------------------------
(***************************************************************************)
(* The outbox publisher of outbox/publisher/task.go over the statements of  *)
(* outbox/store/outbox.go: several instances (Procs) poll one outbox table, *)
(* claim batches of due rows under a lease (lock_token, locked_at), publish *)
(* the claimed in-memory copies from a pool of workers and write the result *)
(* back under the lease.                                                    *)
(*                                                                         *)
(* Time is relative, so that no bound on the clock is needed: a row holds   *)
(* how long its lease has been held and how long until it is available,    *)
(* both on the database clock.  Instance p reads that clock with an offset  *)
(* Skew[p].  Values that no comparison can tell apart any more saturate.    *)
(***************************************************************************)
EXTENDS Backoff, FiniteSets

CONSTANTS
    Events,          \* event_id of the rows the producers will insert
    Procs,           \* publisher instances, each runs one Task
    NoToken,         \* lock_token IS NULL
    BatchSize,       \* Config.BatchSize
    Workers,         \* Config.Workers
    LockTTL,         \* Config.LockTTL
    InitialBackoff,  \* Config.InitialBackoff
    MaxBackoff,      \* Config.MaxBackoff
    PublishTimeout,  \* Config.PublishTimeout
    EnqueueDelays,   \* available_at - now() of an inserted row
    Skew,            \* offset of each instance's clock from the database's
    MaxSkew,         \* bound on the size of Skew
    Faults,          \* which of "publish", "db", "crash", "cancel" happen
    Prompt,          \* instances whose steps outside Publish take no time
    FailureBound,    \* bound: recorded failures of an event that may fail again
    LateBound,       \* bound: abandoned messages of an event still in flight
    DeliveryCap,     \* bound: deliveries of an event are counted up to this
    MaxRestarts      \* bound: restarts of an instance

ASSUME ConfigAssumption ==
    /\ BatchSize \in Nat \ {0} /\ Workers \in Nat \ {0}
    /\ LockTTL \in Nat \ {0} /\ PublishTimeout \in Nat \ {0}
    /\ InitialBackoff \in Nat \ {0} /\ MaxBackoff \in Nat \ {0}

ASSUME ClockAssumption ==
    /\ MaxSkew \in Nat
    /\ Skew \in [Procs -> -MaxSkew..MaxSkew]
    /\ EnqueueDelays \subseteq Int

ASSUME BoundAssumption ==
    /\ FailureBound \in Nat /\ LateBound \in Nat /\ MaxRestarts \in Nat
    /\ DeliveryCap \in Nat \ {0}
    /\ Prompt \subseteq Procs
    /\ Faults \subseteq {"publish", "db", "crash", "cancel"}

ASSUME TokenAssumption == NoToken \notin Procs \X Nat

VARIABLES
    row,        \* outbox_events, by event_id
    status,     \* where each instance's Run loop is
    inc,        \* incarnation of each instance: NewTask draws a fresh token
    work,       \* the claimed copies of each instance and their workers
    delivered,  \* how often the broker has accepted each event
    late        \* abandoned publishes the client library may still complete

vars == <<row, status, inc, work, delivered, late>>

RowState == {"none", "pending", "published"}
Status   == {"idle", "draining", "stopping", "down"}
Stage    == {"none", "claimed", "sending", "acked", "sent", "failed"}

NoRow == [state |-> "none", attempts |-> 0, availableIn |-> 0,
          token |-> NoToken, lockedFor |-> 0]

NoWork == [stage |-> "none", attempts |-> 0, timer |-> 0]

Lesser(a, b)  == IF a < b THEN a ELSE b
Greater(a, b) == IF a < b THEN b ELSE a

-----------------------------------------------------------------------------
(* The table, as the statements of sqlc/queries.sql read and write it.      *)

\* Mutant: one token for every instance.
SharedToken(p) == <<CHOOSE q \in Procs : TRUE, 0>>

\* The lock_token of instance p: NewTask draws a uuid once per Task.
Token(p) == <<p, inc[p]>>

\* Mutant: staleBefore = now, a lease counts as stale at once.
ExpiredAtOnce(p, e) == row[e].lockedFor >= -Skew[p]

\* Mutant: published_at is not looked at.
ClaimableAgain(p) ==
    {e \in Events : /\ row[e].state # "none"
                    /\ row[e].availableIn <= Skew[p]
                    /\ row[e].token = NoToken}

\* Mutant: a stale lease is not taken over.
ClaimableUnlocked(p) ==
    {e \in Events : /\ row[e].state = "pending"
                    /\ row[e].availableIn <= Skew[p]
                    /\ row[e].token = NoToken}

\* published_at IS NULL AND available_at <= now AND
\* (lock_token IS NULL OR locked_at <= now - LockTTL), on p's clock.
Expired(p, e) == row[e].lockedFor >= LockTTL - Skew[p]
Claimable(p) ==
    {e \in Events : /\ row[e].state = "pending"
                    /\ row[e].availableIn <= Skew[p]
                    /\ row[e].token = NoToken \/ Expired(p, e)}

\* ORDER BY available_at ... LIMIT BatchSize.  SKIP LOCKED only orders the
\* claim after the statement that holds the row.
Batches(p) ==
    {S \in SUBSET Claimable(p) :
        /\ Cardinality(S) = Lesser(BatchSize, Cardinality(Claimable(p)))
        /\ \A x \in S, y \in Claimable(p) \ S :
               row[x].availableIn <= row[y].availableIn}

Lock(S, p) ==
    [e \in Events |->
        IF e \in S THEN [row[e] EXCEPT !.token = Token(p), !.lockedFor = 0]
                   ELSE row[e]]

\* Mutant: a released lease counts as the caller's.
MarkedUnlocked(r, t) ==
    IF r.token \in {t, NoToken}
    THEN [r EXCEPT !.state = "published", !.attempts = @ + 1,
                   !.token = NoToken, !.lockedFor = 0]
    ELSE r

\* Mutant: the attempt is counted down.
RescheduledCountingDown(r, t, next) ==
    IF r.token = t
    THEN [r EXCEPT !.attempts = @ - 1, !.availableIn = next,
                   !.token = NoToken, !.lockedFor = 0]
    ELSE r

\* The two statements that write a result match no row once the lease of the
\* caller is gone; the caller is not told.
Marked(r, t) ==
    IF r.token = t
    THEN [r EXCEPT !.state = "published", !.attempts = @ + 1,
                   !.token = NoToken, !.lockedFor = 0]
    ELSE r

Rescheduled(r, t, next) ==
    IF r.token = t
    THEN [r EXCEPT !.attempts = @ + 1, !.availableIn = next,
                   !.token = NoToken, !.lockedFor = 0]
    ELSE r

\* A business transaction commits with an event in it.
Enqueue(e, delay) ==
    /\ row[e].state = "none"
    /\ row' = [row EXCEPT ![e] =
                  [NoRow EXCEPT !.state = "pending", !.availableIn = delay]]
    /\ UNCHANGED <<status, inc, work, delivered, late>>

-----------------------------------------------------------------------------
(* One drain of an instance.                                                *)

Active(p) == status[p] \in {"draining", "stopping"}
Busy(p) == {e \in Events : work[p][e].stage \in {"sending", "acked", "sent", "failed"}}
FreeWorker(p) == Cardinality(Busy(p)) < Workers

SetStage(p, e, stage) == work' = [work EXCEPT ![p][e].stage = stage]
Done(p, e) == work' = [work EXCEPT ![p][e] = NoWork]

\* The claim commits and the instance gets the rows back.  An empty batch ends
\* the drain at once and changes nothing.
Claim(p) ==
    /\ status[p] = "idle"
    /\ \E S \in Batches(p) :
          /\ S # {}
          /\ row' = Lock(S, p)
          /\ work' = [work EXCEPT ![p] =
                [e \in Events |->
                    IF e \in S THEN [stage |-> "claimed", timer |-> 0,
                                     attempts |-> row[e].attempts]
                               ELSE NoWork]]
    /\ status' = [status EXCEPT ![p] = "draining"]
    /\ UNCHANGED <<inc, delivered, late>>

\* The claim commits and its answer is lost: drain returns the error and the
\* rows stay locked with nobody working on them.
ClaimUnanswered(p) ==
    /\ "db" \in Faults
    /\ status[p] = "idle"
    /\ \E S \in Batches(p) : S # {} /\ row' = Lock(S, p)
    /\ UNCHANGED <<status, inc, work, delivered, late>>

\* publishOnce begins: the message is handed to the client library.  The
\* sequential loop looks at the context first, the worker pool does not.
\* (Its token check cannot fail: the claim returns the token it has written.)
Start(p, e) ==
    /\ status[p] = "draining" \/ (status[p] = "stopping" /\ Workers > 1)
    /\ work[p][e].stage = "claimed"
    /\ FreeWorker(p)
    /\ SetStage(p, e, "sending")
    /\ UNCHANGED <<row, status, inc, delivered, late>>

\* The broker stores the message.
Accept(p, e) ==
    /\ work[p][e].stage = "sending"
    /\ SetStage(p, e, "acked")
    /\ delivered' = [delivered EXCEPT ![e] = Lesser(@ + 1, DeliveryCap)]
    /\ UNCHANGED <<row, status, inc, late>>

\* Mutant: Publish returns without waiting for the broker's answer.
PublishOkEarly(p, e) ==
    /\ work[p][e].stage \in {"sending", "acked"}
    /\ SetStage(p, e, "sent")
    /\ UNCHANGED <<row, status, inc, delivered, late>>

\* Publish returns nil.
PublishOk(p, e) ==
    /\ work[p][e].stage = "acked"
    /\ SetStage(p, e, "sent")
    /\ UNCHANGED <<row, status, inc, delivered, late>>

\* Publish returns an error: refused, deadline passed or context cancelled.
\* The broker may have the message already, or get it later.
PublishFails(p, e) ==
    /\ work[p][e].stage \in {"sending", "acked"}
    /\ \/ status[p] = "stopping"
       \/ "publish" \in Faults /\ work[p][e].attempts < FailureBound
    /\ SetStage(p, e, "failed")
    /\ \/ late' = late
       \/ /\ work[p][e].stage = "sending"
          /\ late[e] < LateBound
          /\ late' = [late EXCEPT ![e] = @ + 1]
    /\ UNCHANGED <<row, status, inc, delivered>>

\* MarkPublished; a cancelled context makes the statement fail.
MarkPublished(p, e) ==
    /\ status[p] = "draining"
    /\ work[p][e].stage = "sent"
    /\ row' = [row EXCEPT ![e] = Marked(@, Token(p))]
    /\ Done(p, e)
    /\ UNCHANGED <<status, inc, delivered, late>>

\* handleFailure: Reschedule after the backoff of the copy's attempts.  There
\* is no branch for exhausted attempts: MaxAttempts only adds a log line.
NextAvailable(p, e) ==
    Skew[p] + BackoffDuration(InitialBackoff, MaxBackoff, work[p][e].attempts)

Reschedule(p, e) ==
    /\ status[p] = "draining"
    /\ work[p][e].stage = "failed"
    /\ row' = [row EXCEPT ![e] = Rescheduled(@, Token(p), NextAvailable(p, e))]
    /\ Done(p, e)
    /\ UNCHANGED <<status, inc, delivered, late>>

\* The statement that records the result returns an error: it may have been
\* applied before the connection broke or the context was cancelled.
DbFails(p, e) ==
    /\ "db" \in Faults \/ status[p] = "stopping"
    /\ \/ /\ work[p][e].stage = "sent"
          /\ row' \in {row, [row EXCEPT ![e] = Marked(@, Token(p))]}
       \/ /\ work[p][e].stage = "failed"
          /\ row' \in {row, [row EXCEPT ![e] =
                                Rescheduled(@, Token(p), NextAvailable(p, e))]}
    /\ Done(p, e)
    /\ UNCHANGED <<status, inc, delivered, late>>

\* drain returns and Run looks at its context.  The sequential loop drops what
\* is left of its batch when it sees the cancelled context; the rows stay locked.
Finish(p) ==
    /\ Active(p)
    /\ Busy(p) = {}
    /\ \/ \A e \in Events : work[p][e].stage = "none"
       \/ status[p] = "stopping" /\ Workers = 1
    /\ status' = [status EXCEPT ![p] = IF @ = "stopping" THEN "down" ELSE "idle"]
    /\ work' = [work EXCEPT ![p] = [e \in Events |-> NoWork]]
    /\ UNCHANGED <<row, inc, delivered, late>>

-----------------------------------------------------------------------------
(* The instances' lives, the broker and time.                               *)

\* The context of Run is cancelled.
Cancel(p) ==
    /\ "cancel" \in Faults /\ inc[p] < MaxRestarts
    /\ status[p] \in {"idle", "draining"}
    /\ status' = [status EXCEPT ![p] = IF @ = "idle" THEN "down" ELSE "stopping"]
    /\ UNCHANGED <<row, inc, work, delivered, late>>

\* The process dies: its copies are gone, what it was sending may still arrive.
Crash(p) ==
    /\ "crash" \in Faults /\ inc[p] < MaxRestarts
    /\ status[p] # "down"
    /\ status' = [status EXCEPT ![p] = "down"]
    /\ \E S \in SUBSET {e \in Events : work[p][e].stage = "sending"
                                       /\ late[e] < LateBound} :
          late' = [e \in Events |-> IF e \in S THEN late[e] + 1 ELSE late[e]]
    /\ work' = [work EXCEPT ![p] = [e \in Events |-> NoWork]]
    /\ UNCHANGED <<row, inc, delivered>>

Restart(p) ==
    /\ status[p] = "down" /\ inc[p] < MaxRestarts
    /\ status' = [status EXCEPT ![p] = "idle"]
    /\ inc' = [inc EXCEPT ![p] = @ + 1]
    /\ UNCHANGED <<row, work, delivered, late>>

\* A publish its caller gave up on reaches the broker, or is lost.
LateDelivery(e) ==
    /\ late[e] > 0
    /\ late' = [late EXCEPT ![e] = @ - 1]
    /\ delivered' \in {delivered,
                       [delivered EXCEPT ![e] = Lesser(@ + 1, DeliveryCap)]}
    /\ UNCHANGED <<row, status, inc, work>>

\* Publish returns by its deadline; nothing bounds the other steps of an
\* instance, unless it is assumed to be prompt.
OverdueStep(p, e) ==
    \/ work[p][e].stage \in {"sending", "acked"} /\ work[p][e].timer >= PublishTimeout
    \/ p \in Prompt /\ work[p][e].stage \in {"sent", "failed"}
    \/ p \in Prompt /\ work[p][e].stage = "claimed" /\ FreeWorker(p)

Older(r) ==
    IF r.state = "pending"
    THEN [r EXCEPT !.availableIn = Greater(@ - 1, -MaxSkew),
                   !.lockedFor = IF r.token = NoToken THEN 0
                                 ELSE Lesser(@ + 1, LockTTL + MaxSkew)]
    ELSE r

Tick ==
    /\ \A p \in Procs, e \in Events : ~OverdueStep(p, e)
    /\ row' = [e \in Events |-> Older(row[e])]
    /\ work' = [p \in Procs |-> [e \in Events |->
          IF work[p][e].stage \in {"sending", "acked"}
          THEN [work[p][e] EXCEPT !.timer = @ + 1] ELSE work[p][e]]]
    /\ UNCHANGED <<status, inc, delivered, late>>

-----------------------------------------------------------------------------

Init ==
    /\ row = [e \in Events |-> NoRow]
    /\ status = [p \in Procs |-> "idle"]
    /\ inc = [p \in Procs |-> 0]
    /\ work = [p \in Procs |-> [e \in Events |-> NoWork]]
    /\ delivered = [e \in Events |-> 0]
    /\ late = [e \in Events |-> 0]

WorkerStep(p, e) ==
    \/ Start(p, e) \/ Accept(p, e) \/ PublishOk(p, e) \/ PublishFails(p, e)
    \/ MarkPublished(p, e) \/ Reschedule(p, e) \/ DbFails(p, e)

Next ==
    \/ \E e \in Events, d \in EnqueueDelays : Enqueue(e, d)
    \/ \E p \in Procs : Claim(p) \/ ClaimUnanswered(p) \/ Finish(p)
    \/ \E p \in Procs, e \in Events : WorkerStep(p, e)
    \/ \E p \in Procs : Cancel(p) \/ Crash(p) \/ Restart(p)
    \/ \E e \in Events : LateDelivery(e)
    \/ Tick

Spec == Init /\ [][Next]_vars

\* The clock and the steps of a drain go on, an instance that is down is started
\* again and keeps polling, and neither the broker nor the database refuses an
\* event for ever.
Progress(p) == Finish(p) \/ Restart(p) \/ \E e \in Events : WorkerStep(p, e)

Fairness ==
    /\ WF_vars(Tick)
    /\ \A p \in Procs :
          /\ WF_vars(Progress(p)) /\ SF_vars(Claim(p))
          /\ \A e \in Events :
                /\ SF_vars(Accept(p, e))
                /\ SF_vars(MarkPublished(p, e) \/ Reschedule(p, e))

FairSpec == Spec /\ Fairness

-----------------------------------------------------------------------------
(* Properties.                                                              *)

RowType ==
    [state : RowState, attempts : Nat, availableIn : Int,
     token : (Procs \X Nat) \cup {NoToken}, lockedFor : Nat]

WorkType == [stage : Stage, attempts : Nat, timer : Nat]

\* Every row, copy and counter has its type.
TypeOK ==
    /\ row \in [Events -> RowType]
    /\ status \in [Procs -> Status]
    /\ inc \in [Procs -> Nat]
    /\ work \in [Procs -> [Events -> WorkType]]
    /\ delivered \in [Events -> Nat]
    /\ late \in [Events -> Nat]

\* No event is lost: published_at is only ever set on a row whose message the
\* broker has accepted (publishOnce marks after Publish has returned nil).
PublishedWasDelivered ==
    \A e \in Events : row[e].state = "published" => delivered[e] >= 1

\* While the lease of an instance is still on a row, the copy its worker holds
\* is current: nobody else has published or rescheduled the row, and the
\* backoff is computed from the attempts that are in the table.
HolderCopyIsCurrent ==
    \A p \in Procs, e \in Events :
        (work[p][e].stage # "none" /\ row[e].token = Token(p)) =>
            /\ row[e].state = "pending"
            /\ row[e].attempts = work[p][e].attempts

\* The strengthening that makes the invariants above inductive: an event that is
\* not stored has left no trace, a published row is unlocked, a worker past the
\* broker's answer has its event delivered, and only a drain has copies.
AbsentLeavesNoTrace ==
    \A e \in Events : row[e].state = "none" =>
        /\ row[e] = NoRow /\ late[e] = 0
        /\ \A p \in Procs : work[p][e].stage = "none"

PublishedIsUnlocked ==
    \A e \in Events : row[e].state = "published" => row[e].token = NoToken

AnsweredWasDelivered ==
    \A p \in Procs, e \in Events :
        work[p][e].stage \in {"acked", "sent"} => delivered[e] >= 1

OnlyDrainsHaveCopies ==
    \A p \in Procs, e \in Events : ~Active(p) => work[p][e].stage = "none"

IInv ==
    /\ TypeOK /\ AbsentLeavesNoTrace /\ PublishedIsUnlocked
    /\ AnsweredWasDelivered /\ OnlyDrainsHaveCopies
    /\ PublishedWasDelivered /\ HolderCopyIsCurrent

\* A published row is final: a late MarkPublished or Reschedule of an instance
\* that lost its lease, a new claim or a restart never changes it again.
PublishedIsFinal ==
    [][\A e \in Events : row[e].state = "published" => row'[e] = row[e]]_vars

\* A result is recorded at most once per claim: the attempts of a row grow by
\* one, and only in a step that ends a live lease.
OneResultPerLease ==
    [][\A e \in Events :
          row'[e].attempts # row[e].attempts =>
              /\ row'[e].attempts = row[e].attempts + 1
              /\ row[e].token # NoToken /\ row'[e].token = NoToken]_vars

\* Instances that take time only in Publish, with a batch that fits in the
\* lease (Timely), never work on one event at the same time.
SingleFlight ==
    \A e \in Events, p, q \in Procs :
        (work[p][e].stage # "none" /\ work[q][e].stage # "none") => p = q

\* The workers of an instance need this many rounds of publishes for a batch, and
\* the lease, on the clock of any instance, is longer than they take.
Timely ==
    /\ Procs \subseteq Prompt
    /\ \E rounds \in 1..BatchSize :
          /\ BatchSize <= rounds * Workers
          /\ \A p \in Procs : rounds * PublishTimeout < LockTTL - Skew[p]

\* The strengthening that makes SingleFlight inductive: the copies of an instance
\* are a batch under its lease, of one age, and every round of publishes that
\* has passed has started Workers of them.
Copies(p) == {e \in Events : work[p][e].stage # "none"}

StartedAfter(p, time) ==
    {e \in Copies(p) : \/ work[p][e].stage = "claimed"
                       \/ row[e].lockedFor - work[p][e].timer > time}

BatchOK(p) ==
    /\ Cardinality(Copies(p)) <= BatchSize
    /\ \A e \in Copies(p) :
          /\ row[e].token = Token(p)
          /\ work[p][e].timer <= PublishTimeout
          /\ work[p][e].stage = "claimed" => work[p][e].timer = 0
          /\ \A f \in Copies(p) : row[e].lockedFor = row[f].lockedFor
          /\ \A k \in 0..BatchSize :
                row[e].lockedFor > k * PublishTimeout =>
                    \/ StartedAfter(p, k * PublishTimeout) = {}
                    \/ Cardinality(StartedAfter(p, k * PublishTimeout))
                          + (k + 1) * Workers <= BatchSize

LeaseInv ==
    /\ IsFiniteSet({e \in Events : row[e].state # "none"})
    /\ \A p \in Procs : BatchOK(p)

\* The publisher keeps the promise of the outbox to the producers.
Contract == INSTANCE OutboxContract WITH
    state    <- [e \in Events |-> row[e].state],
    accepted <- {e \in Events : delivered[e] >= 1}

ImplementsContract == Contract!ContractSpec

\* With fairness: every stored event is delivered and completed, whichever
\* instance dies or stalls with a lease on it, as long as one is prompt.
KeepsPromise == Contract!ContractFairSpec
=============================================================================
