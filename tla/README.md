# lingo-utils: a verification project

`lingo-utils` is a library of Go packages shared by a family of services: a
transactional outbox and inbox, the transaction manager they run in, Pub/Sub
wrappers, and the telemetry, logging, token and pool components around them. This
directory holds TLA+ modules translated from its source, the TLC configurations that
check them on small instances, and proofs checked by TLAPS.

## 1. The system

| component | state it keeps | operations | what makes it correct |
|---|---|---|---|
| outbox publisher (`outbox/publisher`) | lock token per `Task`, in-memory copies of a batch, worker pool | `Run`, `drain`, `publishOnce`, `handleFailure`, `backoffDuration` | no stored event is lost, none is completed before the broker has it, a lease has one result |
| outbox store (`outbox/store`, `outbox/sqlc`) | tables `outbox_events`, `inbox_events` | enqueue, claim, mark, reschedule; record, get, mark processed, record error | the claim and the results respect lock token and lease; the insert is idempotent |
| inbox consumer (`outbox/inbox`) | semaphore of `Run`, one transaction per callback | `handleMessage` | an event's effect is committed once; ack only after it |
| transaction manager (`txmanager`) | the open transaction of a call, gauge `db.tx.active` | `WithinTx`, `WithinReadOnlyTx`, `exec` | commit or rollback on every path, the panic goes on, errors classified |
| Pub/Sub publisher, subscriber (`gcpubsub`) | topic with ordering keys, `stopOnce` | `Publish`, `Flush`, `Receive`, `Stop` | nil only when the broker has answered; ack exactly on nil |
| provider, config, telemetry (`gcpubsub`) | client, topic | `NewComponent`, cleanup, `Normalize` | what was opened is closed; values that can be used |
| tracing export (`observability/tracing`) | retry interval and elapsed time of a batch, failure counter of the logger | `UploadTraces`, `exporterLogger`, `otelErrorHandler` | retries end within the budget; a dropped batch is reported, and once |
| observability start (`observability`) | providers, shutdown list, the global error handler | `Init`, `tracing.Init`, `metrics.Init`, shutdown | what was started is shut down; the handler is put back |
| tokens (`gcjwt`) | `sync.Once`, token source | `Token`, server and client middleware | a handler sees a valid token or none where none is needed |
| logger (`gclog`) | fields and context bound to a logger | helpers, `Log` | every field ends in its place, or the entry is refused |
| pool component (`pgxpoolx`) | pool, telemetry callback | `NewComponent`, ping, cleanup | nothing left behind on an error |
| configuration | none | `Normalize`, `Sanitize`, `sanitizeConfig`, `sanitized` | the values fit each other; the two tables of defaults agree |
| templates, render tool, middleware wrappers | none | | pure I/O, delegation |

How they interact. A producer commits a row of `outbox_events` with its business
change. Each publisher instance polls the table, claims due rows in one statement
under its token (`FOR UPDATE SKIP LOCKED`, lease `LockTTL`), publishes the copies
through `gcpubsub` and writes each result in a statement of its own that matches the
row only while the token is still there. The subscriber of another service runs one
callback per delivery; the callback opens a transaction, inserts the event into
`inbox_events`, runs the handler in the same transaction, marks the row and commits,
and the message is acked or nacked with the result. A service wires the components
together (pool, then Pub/Sub client, then relay) and undoes that in reverse; the
telemetry is initialised before, and its error handler is global to the process.

What is hard here: leases that expire under a slow instance; results written late;
two clocks (the instance's and the database's); an answer that is lost after the
statement or the publish took effect; crash and cancellation in the middle of a
batch; duplicate deliveries in parallel; a handler that fails, panics, or fails for
ever; overflow of the retry delay; ordering keys that the client library pauses; a flush
under a relay that still publishes; a start that fails half way; a global handler that
is replaced and restored in any order. `PROJECT.json` lists each at its line with the
property that covers it.

## 2. The modules

| module | models | proofs |
|---|---|---|
| `Backoff` | `Task.backoffDuration`, over wrapped integers of `Width` bits | `BackoffProofs` |
| `OutboxContract` | what the outbox promises a producer | |
| `OutboxPublisher` | `publisher/task.go` over the outbox statements, with leases, clocks and retries | `OutboxPublisherProofs` |
| `InboxContract` | what the inbox promises a consumer | |
| `InboxConsumer` | `inbox/consumer.go` over `subscriber.go`, `manager.go` and the inbox statements | `InboxConsumerProofs` |
| `TxManager` | `exec` of `txmanager/manager.go` over a pool, row locks and nested calls | `TxManagerProofs` |
| `EventPipeline` | the relay over `gcpubsub/publisher.go` and the ordering client library, the topic, a consumer that keeps `InboxContract` | `EventPipelineProofs` |
| `TraceExporter` | `UploadTraces` and what the exporter's logger says of it | in `TelemetryProofs` |
| `Telemetry` | several `observability.Init` and their shutdowns, the global error handler, exports through `TraceExporter` | `TelemetryProofs` |
| `Logger` | `gclog`: helpers, the fold of the fields into an entry | in `ComponentsProofs` |
| `Settings` | the defaults of six configurations, the relay's retry policy | `SettingsProofs` |
| `Startup` | `pgxpoolx.NewComponent`, `gcpubsub.NewComponent`, `NewRunner` and the cleanups, over several starts | in `ComponentsProofs` |
| `Tokens` | `gcjwt`: the source made once, the server's decision | in `ComponentsProofs` |
| `MCOutboxPublisher`, `MCInboxConsumer`, `MCTxManager`, `MCEventPipeline`, `MCTelemetry`, `MCComponents` | instances for TLC; the last runs `Logger`, `Settings`, `Startup` and `Tokens`, one of them in each behaviour | |
| `MCOutboxTimely` | the instance on which `Timely`, the hypothesis of `BatchInLease`, holds; TLC checks that it does | |

Operators whose comment begins with *Mutant* are not part of a specification: each is
a plausible mistake that makes one of the properties fail.

### OutboxPublisher

* `row` is `outbox_events`: state (`none`, `pending`, `published` for
  `published_at`), `delivery_attempts`, `available_at`, `lock_token`, `locked_at`.
  Times are relative to the database's clock (`availableIn` counts down, `lockedFor`
  counts up, both saturate where no comparison changes any more), so the clock needs
  no bound. `Skew[p]` is the offset of instance p's `time.Now`, which supplies `now`
  and `staleBefore` of the claim and the next `available_at`; `locked_at` is the
  database's `now()`, as in the SQL.
* `status` is the loop of `Run` (`idle` at the ticker, `draining`, `stopping` once its
  context is cancelled, `down`), `inc` counts restarts (a new `Task` draws a new
  uuid), `work` holds the copies of the current batch and where their worker is.
* `Claim` is the claim statement with its answer, `ClaimUnanswered` the statement
  without it. `Start`, `Accept`, `PublishOk`, `PublishFails` split `publisher.Publish`
  into hand-over, the broker's step and the return, so that an error can come back for
  a message the broker has (`PublishFails` at stage `acked`) or gets afterwards
  (`LateDelivery`). `MarkPublished`, `Reschedule` and `DbFails` are the statements that
  write the result; each matches no row when the token is gone and the caller is not
  told. `Finish` ends the drain. `Cancel` is the context: the sequential loop
  (`Workers = 1`) drops the rest of the batch, the worker pool still runs it.
* The token comparison at the start of `publishOnce` has no action of its own: the
  claim returns the token it has just written, so it always passes.
* `CountPending`, logging and metrics change nothing the model keeps. `MaxAttempts` is
  not a constant, because the code only logs when it is reached.

### InboxConsumer

* `sub` is the broker's view of each message, `pc` and `msg` where each callback is,
  `tx` the transaction it has open, `table` the committed `inbox_events`, `owner` the
  open transaction that has inserted the row of an event, `effect` the committed runs
  of the handler, `noted` the events for which `RecordInboxError` has returned nil.
* `Insert` and `Inserted`/`Conflicts` are the two halves of `INSERT ... ON CONFLICT DO
  NOTHING`: it takes its snapshot, and waits while another open transaction holds the
  same key. With `Snapshot` (isolation above read committed) a row that was committed
  in between is a serialization failure, as Postgres reports it.
* `Enter` is the semaphore of `Run` and `buildInboxMessage`; `Begin` to `Rollback`
  are `exec` with the statements of `handleMessage` in their order; `HandlePanics`
  passes `exec`'s rollback and re-panic up to `invokeHandler`; `Answer` is the ack or
  nack of `Receive`.
* `SessionLost` is the server ending a session at any point of a transaction (failover,
  a terminated backend, an idle timeout), also while the handler runs: the key is free at
  once, the callback learns of it with its next statement (`lost` of its `tx`).
* The payload is abstracted to `Poison` (the decoder rejects it), the attributes to
  `EventOf` (`NoEvent` when missing or malformed).

### TxManager

* `at` is where each call of `WithinTx` is in `exec`; `conn` the connections that are
  out, `lock` the rows open transactions have locked, `effect` what the database has
  made of each transaction; `result` what `exec` has decided to return, `err` the last
  error its function has seen, `expired` the contexts past their deadline, `active` the
  gauge `db.tx.active`.
* `Parent` says which call is made by the function of which other one, with its
  context: it gets the same deadline or a nearer one, and a connection of its own,
  because `exec` does not look for a session in the context. Calls nest to any depth; a
  deadline that passes ends the contexts of all open calls `Nested` in that one.
* `Commit`, `CommitFails` and `Rollback` are the three ends. `recordEnd` comes before the
  deferred rollback, as in the code. A rollback on an expired context closes the
  connection and leaves the transaction to the server (`orphaned`, ended by `Resolve`);
  a `COMMIT` whose answer is lost leaves it in doubt.
* An error is one of the three SQLSTATEs `classifyPgError` knows, the lost answer
  of a commit, a panic, or `other`. A retryable error keeps its class through the
  wrappings of the function and of a nested `exec` (`errors.As`), except that of
  `set local lock_timeout`, which is returned unclassified.
* `InboxConsumer` has its own coarser view of `exec`, without time and pool.

### EventPipeline

* `row`, `status` and `work` are a coarser `OutboxPublisher`: the lease has no clock (a
  stalled holder may lose it at any time, as fault `steal`; one that nobody works under is
  free), a batch is claimed row by row, and a failed event is due again at once. In
  exchange the client library is there: `queue` holds its messages lane by lane, a lane
  being an ordering key, and `paused` the lanes whose send has failed.
* `Handover` is `topic.Publish` in `Publish`; it fails at once in a paused lane and
  after `Stop` (`Refused`). `BrokerStores` and `SendFails` are the library's; with an
  ordering key a failure takes the rest of the lane with it. `GiveUp` is `result.Get`
  that ends with `publishTimeout`: the library keeps the message. `Record` writes the
  result under the lease; `RecordFails` and `ClaimUnanswered` are the statements that
  return an error, after which the row keeps its lease.
* Faults are of five kinds (`publish`, `db`, `steal`, `exit`, `crash`). Each may come again
  and again, in any order; `faults` counts them up to `MaxFaults`, which is any number.
* `Flush`, `Exit` are the cleanup of the component, which calls `topic.Stop` while the
  relay may still publish; `Restart` is a new process, whose client has paused nothing.
* `handed` and `stored` are histories per lane. The consumer is `InboxContract`, which
  `InboxConsumer` refines.

### TraceExporter and Telemetry

* `at` is where `UploadTraces` is with a batch, `elapsed`, `interval` and `timer` are
  its backoff against `deadline`, `failing` the logger's `consecutive > 0`, `reports`
  the entries written about the batch. Errors are two codes that are retried and one
  that is not; the jitter is any value from half to one and a half intervals; a
  `RetryInfo` is one of `Throttles`. `Wake` and `Abort` are the two arms of the `select`.
* `LoggerKeys` are those of the exporter's own keys (`attempt`, `grpc_code`) that the
  injected logger writes. The exporter logs through a helper that drops the logger's
  error, so `LogFailure` counts an entry as a report only when all its keys are among them.
* `stage` walks each `observability.Init` through tracing and metrics and its shutdown
  through metrics and tracing. `InitTracing` installs the handler before the provider,
  `Restore` puts the previous one back only when the installed one is still its own.
  `delegate` is otel's: the default handler passes errors on to the first one installed.
  `AppHandler` is the application registering a handler of its own after `Init`, as
  `observability/README.md:205` advises, at any time.
* `HandleError` is the batch processor giving the error of an export to the global
  handler; `Silences` the marker `loggedExporterError` that ours recognises. With
  `Batches` and `MaxShutdowns` the histories are bounded.

### Logger, Settings, Startup, Tokens

* `Logger`: `prefix` are the fields the helpers have attached, `Log` puts kratos' two
  valuers before them and the call's behind, refuses the whole entry for one field that
  is not supported and otherwise folds them (`Add`, `Fold`); `composeLabels` comes last.
  The model ends where `Log` calls `write`: errors of JSON and of the writer, the text for
  an empty message, the `LabelNormalizer` and keys that are not strings (which `Log` skips)
  are left out.
  The reference is written from the other end: each place of the entry has the last
  field that says something of it, a label that no field gives has the static value, and
  no place is made up.
* `Settings`: one function per component from the written configuration to the used
  one; `PublishFails` counts failures for the delay. Durations are integers. `Pow2` of
  `Backoff` is a recursive function and the sign bit follows from `Width`.
* `Startup`: `step` is the next call of the injector or of its cleanups, the rest is
  what each attempt to start has acquired. A metric reader may call the gauge's
  callback between any two steps. `Unregister` of otel's SDK returns no error, so the
  branch that would log one is left out.
* `Tokens`: `once` and `initErr` are the `sync.Once` and what it left, the factory failing
  or not, whatever the first caller's context; `Serve` is the server middleware on a
  header; `NewComponent` takes every pair of configurations that are both there, with a
  logger (a side that is not configured has no middleware; a nil logger is refused).

## 3. The runs

| run | shows |
|---|---|
| `outbox` | one event, two instances with clocks one unit ahead and one behind, all faults: `PublishedWasDelivered`, `HolderCopyIsCurrent`, `PublishedIsFinal`, `OneResultPerLease`, the refinement of `OutboxContract`, and with fairness `KeepsPromise`, the contract with its progress |
| `outbox_timely` | a batch of two in one worker, instances that spend time only in `Publish` and whose two rounds fit in the lease less the skew (`Timely`), failed publishes and statements, a cancel, a crash and a restart: `SingleFlight` |
| `inbox_safety` | two messages of one event, three callbacks, two processes, all faults, sessions lost in the handler too: `EffectOnce`, `AckedWasProcessed`, `HandlersExclude`, `CommittedIsProcessed`, refinement of `InboxContract` |
| `inbox_live` | a good, a poison and a malformed message, three callbacks in two processes with one slot each, redeliveries that overlap: `EventuallySettled` |
| `tx_calls` | a call with one nested in it and a third one, two connections, two rows, all faults, an unset `DefaultTimeout`, one lock timeout below a millisecond: `OutcomeIsTruthful`, `RetryIsSafe`, `NothingLeaks`, `ActiveIsExact`, and with fairness `EverythingIsReturned` |
| `pipeline` | two instances, two events of one aggregate, any two faults, two of one kind included: `NothingOvertakesAFailure`, `ExitLeavesNothingBehind`, the refinement of `OutboxContract`, and with fairness `OnlyAPauseHoldsBack`: an event arrives unless its lane stays paused in every instance |
| `telemetry` | two Inits, two batches, a logger that writes the exporter's keys: `DropIsReported`, `RetriesFitBudget`, `NothingOutlivesShutdown`, `HandlerIsLive`, and with fairness `ExportsEnd` |
| `components` | `LogMatchesReference`; `SettingsAreUsable`, `DefaultsAgree`, `DelayFollowsPolicy`; `GaugeSeesOpenPool`, `StartLeavesNothing`; `HandlerSeesValidClaims`, `CallersShareOutcome` |
| `tx_nested` | a call in a call in a call: `RetryRepeatsNothing` is violated (finding) |
| `inbox_last_error` | `FailureStaysRecorded`, which the store's test asserts, is violated (finding) |
| `pipeline_paused` | `EveryEventArrives` is violated by two instances that keep running, with one failed send in each (finding) |
| `telemetry_refused` | `DropIsReported` is violated over a logger that refuses the exporter's keys (finding) |

Bounds, and why they are enough:

* One event is enough for the outbox's row invariants, since no statement couples rows
  except through the batch, which `outbox_timely` (two events, `BatchSize = 2`) has.
  Two instances are the smallest number that can take each other's leases;
  `MaxRestarts = 1` gives an instance a second token.
* `LockTTL = 2` with `PublishTimeout = 1` lets the leases of an instance that is not
  prompt expire in every stage; one of the two in `outbox` is prompt (it spends time only in
  `Publish`), which progress needs; of the proofs only that of `SingleFlight` assumes it.
  `outbox` has the worker pool, `outbox_timely` the sequential loop. `FailureBound` limits
  the failures the run injects, `LateBound` the abandoned messages, `DeliveryCap` the
  counter; each is one more than the property needs. In `outbox_timely` the lease is just
  longer than two publishes and the skew.
* Three callbacks in two processes let two of one process and one of another meet in
  the same event; `MaxConcurrency = 2` and `1` are the contended cases. A third
  message of the event adds no new kind of meeting.
* Three calls over two connections and two rows are the smallest system with a
  deadlock of two transactions, a call that waits for a row of the call around it,
  and a pool that is empty while a call waits in `BeginTx`. Nesting is one deep in
  `tx_calls` and two deep in `tx_nested`; the proofs hold for any depth.
* Two events of one aggregate are what an ordering key can confuse; `MaxFaults = 2`
  combines any two faults: a publish that fails while the lease is stolen or the topic
  flushed, or one failed send in each instance. The proofs of the safety properties hold
  for every value of `MaxFaults`; `OnlyAPauseHoldsBack` is checked with two.
* In `telemetry` the export timeouts (2, 5) lie on both sides of the budget (4), so that
  a batch ends by its deadline, by the budget and by a hint (`Throttles`). Two Inits
  overlap in every order; one has required tracing, the other required metrics, and each
  shutdown may be called twice.
* `components` counts delays over 8 bits up to 12 failures, so that both overflows
  happen (the program has 64); two starts, so that the second finds what the first has
  left; two callers, so that one waits in the `sync.Once`; at most three attached fields.
  The configurations range over unset, small, inverted and oversized values.
* `CHECK_DEADLOCK FALSE` stands only where the system stops: every message is
  acknowledged, every call has returned, every event is published and consumed, every
  batch exported and every Init shut down, the last failure of an event counted.

Fairness. `outbox`: time passes; a drain goes on (`WF` on the steps of an
instance, including its restart by whatever runs the service); an instance that is
polling claims again and again (`SF` on `Claim`: `Run` has a ticker, and a claim only
competes with other claims); the broker and the database do not refuse an event for
ever (`SF` on `Accept` and on the result statements, `PublishFails` bounded by
`FailureBound`). Without the last one the promise cannot hold: the code retries for
ever. `inbox_live`: callbacks go on; the channel behind the semaphore serves blocked
senders in order, which is `SF` on `Enter`, and so does Postgres the transactions that
wait for a key (`SF` on `Inserted`); transient faults end some time (`Calm`); Pub/Sub
delivers each message again and again while it is not acked. Nothing is assumed of the
poison and the malformed message: they are nacked and come back for ever. `tx_calls`:
goroutines that wait for nobody go on and functions return, a deadline that `sanitized`
has made positive passes, the server ends a transaction whose connection has gone; no
fault ever has to happen (`Blocked` keeps a waiting call from being obliged to fail).
`EverythingIsReturned` leans on the deadline: with a timeout of zero a nested call waits
for ever for a row of its parent, which the server's deadlock detection cannot see.
`pipeline`: an instance goes on and is restarted once it has exited or crashed (`WF`),
each one polls and now and then gets a row (`SF` on `Claim`), the broker answers what is
at the head of a lane (`WF`); no exit, crash or lost lease is assumed. So nothing forces
the restart that would lift a pause, and `OnlyAPauseHoldsBack` does not claim arrival when
every instance has the lane paused for good: that is the finding of `pipeline_paused`.
`telemetry`: a call of the exporter comes back by its deadline and time passes, the
processor's goroutine goes on, a shutdown that has begun is carried through; nobody has to
call one.

## 4. The proofs

They hold for any sets of events, messages, instances, callbacks, calls, Inits and
callers, any bounds and any configuration that satisfies the `ASSUME`s of the
components: positive sizes and durations (what `sanitizeConfig` and `NewConsumer`
produce), clock offsets within `MaxSkew`, distinct null values, calls that are not nested
in themselves, an initial retry interval of at least two units (half of one is not a
delay), no extra label with an empty name (`WithAllowedLabelKeys` skips
it). Every safety invariant, action
property and refinement that a passing run checks is stated by a theorem.

*Publisher.* `IInv` strengthens the two invariants of the run with what they lean on:
an event that is not stored has left no trace; a published row is unlocked (so no late
statement can match it); a worker past the broker's answer has its event delivered;
only an instance in a drain holds copies. `PublishedWasDelivered` needs the third,
`HolderCopyIsCurrent` the second and fourth: a row that leaves the lease of p while p
still has a copy gets a token different from p's, because tokens carry the incarnation.
The action properties `PublishedIsFinal` and `OneResultPerLease` follow from `IInv` and
a lemma that says what each statement can do to a row (`RowStep`), and the refinement
of `OutboxContract` maps the broker's steps to `Deliver`, the mark to `Complete`.

*One instance at a time.* `BatchInLease` says of every configuration that is `Timely` that
no event is worked on by two instances: all spend time only in `Publish`, and the rounds
in which `Workers` publish `BatchSize` events take less than `LockTTL` minus the skew.
That all copies are leased is not enough to prove it; what is missing is a bound on how
long a copy can wait for a worker. `LeaseInv` gives it: the copies of an instance are
of one age and hold its token, and when `k` rounds of `PublishTimeout` have gone by, the
copies whose publish started after that are fewer by `k + 1` times `Workers` than the
batch, or none (`BatchOK`). The age of a copy is then below the lease, and nobody's claim,
whatever its clock, takes the row. TLC checks `Timely` itself on the instance of the run.

*Retry delay.* Everything is proved for every width, 64 bits included. `Pow2` and the fold
of the logger are recursive functions; that they exist and satisfy their equations is
shown by induction over a set of naturals, from the least number outside of it
(`Induction` in `BackoffProofs`). `BackoffBounded`: the delay is in `1..MaxBackoff`.
`BackoffDoubles`: it doubles as long as the shift and the product fit.
`BackoffNeverBelowFirst`: it is never below the smaller of the first one and `MaxBackoff`,
also where they overflow, for a first delay of less than half the bits. `DelaysFollowPolicy` carries that to the settings of a relay.

*Consumer.* `IInv` says that the uncommitted key of `inbox_events` is a lock: its owner
is a callback past the insert with the same event and no committed row
(`OwnerInserted`); a callback in the handler is that owner (`KeyIsSettled`); what is
about to be committed is a processed row with the handler's effect, or nothing
(`CommitIsWhole`); a committed row is processed (`RowsAreProcessed`). The last is what
makes the lock work: were a row committed unprocessed, two deliveries would both find it
and no insert would exclude them. A session that the server ends gives the key
up under its callback; such a callback (`lost`) owns nothing and can commit nothing, which
is why `HandlersExclude` is about the sessions that can still commit: a handler whose
session is gone runs on beside the next one, and what it does outside of its transaction
is not excluded by anything. `EffectOnce`, `AckedWasProcessed`, `HandlersExclude`,
`CommittedIsProcessed` and the refinement of `InboxContract` follow. So does
`CallbacksDoNotDeadlock`: who waits for a key waits for a callback that waits for
nobody, and who waits for a slot waits for one of these two, whatever the numbers of
processes, slots and duplicates.

*Transaction manager.* `TxInv` says of every place in `exec` what a call there holds and
what may have become of its transaction (`CallOK`), and that a call that has made another
one stays where it is until that one is back, and has one at a time (`Nesting`). The
second is needed because the return of a nested call writes the place of its parent.
The only thing assumed of `Parent` is that every set of calls has one whose parent is
outside of it.
The pool and the gauge are counted over finite sets (`PoolOK`, `GaugeOK`).

*Pipeline.* `LaneOK` is the heart: while a lane is not paused, what was handed over is
what was stored followed by what the library still holds (`Follows`); once paused it
holds nothing, and what was stored stays a prefix. `NothingOvertakesAFailure` and
`ExitLeavesNothingBehind` are its two ends. The refinement of `OutboxContract` needs
`WorkOK` and `QueueOK`: what is in flight is of an event that has been stored. The
consumer takes only what the broker has, so that it has an effect only of an event that
the producing service has committed (`EffectsHaveEvents`), through any number of failed
sends and statements, stolen leases and restarts. That it has one at most is the
contract which `InboxConsumer` refines.

*Telemetry.* `UploadInv` is kept by the upload alone, `LifeInv` by the Inits.
`DropsAreReported` has the hypothesis `LoggerAccepts`: the injected logger writes the keys
`attempt` and `grpc_code`. Without it the property is false (`telemetry_refused`). `Chain`
makes `HandlerIsLive` inductive: the handlers of the running tracers form a chain
without a fork that begins at the installed one, so that whoever is restored is running.

*Logger.* `Heard` is the invariant of the fold: after `n` fields each place that one of them
speaks of holds what the last such field says (`LastOf`), and the others are blank. Adding
a field keeps it for each kind of field (`NextHeard`). `EntryIsComplete` adds the
static labels and the call site and holds for any chain of helpers.

*Startup, Tokens, Settings.* What the current attempt holds follows from its next step,
one that is over has `Ended` and one to come is `Fresh`; a caller can only be past the
`sync.Once` when it is done, and a built component has a server whose configuration is
valid; the settings are proved usable, and the tables equal, for every integer.

Only model-checked: the five liveness properties (`KeepsPromise`, `EventuallySettled`,
`EverythingIsReturned`, `OnlyAPauseHoldsBack`, `ExportsEnd`). They rest on fairness and on
`ENABLED`, which the prover cannot reason about; what they need of the reachable states
(no wait cycle of the callbacks, retries within their budget, a delay that is positive
and bounded) is proved. The violated properties are refuted by TLC's counterexamples.

## 5. Findings

* The relay is documented to stay up and retry; with ordering enabled one failed publish
  pauses the key in the client library, nothing resumes it, and the instance fails every
  later event of that aggregate until its process is replaced. A second instance does
  not help once a send has failed there as well (`pipeline_paused`). What the pause gives in
  return is `NothingOvertakesAFailure`; `OnlyAPauseHoldsBack` says that nothing else holds an
  event back.
* The global error handler takes an error of the exporter for logged
  (`error_handler.go:37`). With the default keys of `gclog`, which refuses an entry with any
  other key (`gclog/README.md:56`), the exporter's entries are refused, the helper drops
  that error, and a dropped batch is reported nowhere (`telemetry_refused`). A service has
  to register `attempt` and `grpc_code` with `WithAllowedKeys`. Other call sites of the
  repository use such keys as well (`gcpubsub`, the outbox, the `middleware` key of `gcjwt`).
* A test of the store asserts that `last_error` is still there after an event was
  processed; the consumer rolls it back with the failed delivery, and marking the
  event clears it (`inbox_last_error`).
* The design of `txmanager` wants `WithinTx` to refuse nesting; it does not, and a
  nested commit survives a retryable failure of the call around it (`tx_nested`).

Observations made on the way, which are not runs of their own:

* `delivery_attempts` falls behind the deliveries when a result cannot be written.
* The default relay configuration (100 events, 4 workers, 10 s timeout, `LockTTL` 120 s)
  does not satisfy the condition of `SingleFlight`: a batch may take 250 s. Two instances
  may then publish the same event, which the contract allows.
* The order of an aggregate's events holds per instance, in the order of hand-over: the
  claim sorts by `available_at` alone, and parallel workers or a second instance may hand
  over a later event first.
* The default export timeout (10 s) ends a batch before the retry budget (60 s) does; a
  `ResourceExhausted` is retried without a `RetryInfo` too.
* `gcjwt/README.md:200`, `:290` and the note in `claims.go:180` say that
  `WithTokenRequired(false)` relaxes the email check, so that a handler may tolerate
  `ErrMissingEmail`. The middleware does not: a token without an email is refused before the
  handler whatever `Required` is (`server.go:102-106`); only a missing or malformed header is
  let through. `HandlerSeesValidClaims` demands the email only where a token is required, and
  so holds under either reading.
* When a required metrics pipeline fails, the tracer that was installed before it keeps
  running (`NothingOutlivesShutdown` names this case). When an earlier Init is shut down
  before a later one, the later one puts back the handler of the earlier, which is shut down
  (`HandlerIsLive` excludes this order). otel's default handler, once put
  back, goes on passing errors to the handler that was installed first.
* A failed ping leaves the pool gauge's callback registered (`GaugeSeesOpenPool` and
  `StartLeavesNothing` except it); a runner that is built and
  never run keeps its backlog callback, and a second `Run` has no backlog gauge.
* `gcjwt`'s `Client` panics for an empty audience also when it is disabled, which the
  configuration's validation accepts. `txmanager`'s `MaxRetries` is sanitized and unused.

## 6. Plan

Done: the outbox, the inbox, the transaction manager, the pipeline that composes them,
telemetry and the remaining components, and a proof of every safety property and
refinement that the passing runs check. Left, in this order:

1. `EventPipeline` composed with the detailed `InboxConsumer` in place of its contract,
   and with `OutboxPublisher`'s clocks.
2. `OutboxPublisher` shown to implement the coarser relay of `EventPipeline`.
3. The per-call options of `txmanager` and the retry a service is meant to do on
   `ErrRetryableTx`.

## 7. Not modelled, and why

Rendering of templates and the command around it, construction of exporters, resources,
clients and meters, interceptors that only delegate, the JSON layout, severity and
source location of the logger: no state, or pure I/O. Histograms and counters change
nothing the program reads. Signatures of tokens are checked before the service, by Cloud
Run, and not in the repository. Postgres, Pub/Sub, its client library and otel are
modelled from how the code uses them (row locks, unique keys, snapshots, at-least-once
delivery, ordering keys, the delegating error handler); the order of redelivery and the
client library's batching are left open.
