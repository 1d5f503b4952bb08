------------------------------ MODULE Settings ------------------------------
(***************************************************************************)
(* The defaults every component puts into its configuration before it is     *)
(* used, some of them twice: publisher.NewRunner and NewTask each hold a     *)
(* table of defaults, and so do observability.Init and tracing.Init.  A      *)
(* value of zero or less stands for one that was not set.                    *)
(***************************************************************************)
EXTENDS Backoff, Sequences

CONSTANTS
    Initials, Maxima,     \* backoffs a relay may be given
    Sizes,                \* batch sizes and numbers of workers
    Queues,               \* sizes of the span queue and its batches
    AttemptBound          \* bound: failures of one event

ASSUME SettingsAssumption ==
    /\ Initials \subseteq Int /\ Maxima \subseteq Int
    /\ Sizes \subseteq Int /\ Queues \subseteq Int

OrDefault(v, default) == IF v <= 0 THEN default ELSE v

Least(a, b) == IF a < b THEN a ELSE b

-----------------------------------------------------------------------------
(* The outbox publisher (durations in seconds).                             *)

RelayDefaults ==
    [batchSize |-> 100, workers |-> 4, initialBackoff |-> 2, maxBackoff |-> 120,
     maxAttempts |-> 20, publishTimeout |-> 10, tickInterval |-> 1, lockTTL |-> 120]

\* outbox/config: PublisherConfig.Normalize, called by NewRunner.
NormalizeRelay(c) == [f \in DOMAIN c |-> OrDefault(c[f], RelayDefaults[f])]

\* Mutant: one of the tables is changed and the other is not.
TaskDefaultsDrifted == [RelayDefaults EXCEPT !.lockTTL = 60]

\* NewTask's own table.
TaskDefaults ==
    [batchSize |-> 100, workers |-> 4, initialBackoff |-> 2, maxBackoff |-> 120,
     maxAttempts |-> 20, publishTimeout |-> 10, tickInterval |-> 1, lockTTL |-> 120]

\* sanitizeConfig of NewTask: no more workers than events in a batch.
SanitizeRelay(c) ==
    LET filled == [f \in DOMAIN c |-> OrDefault(c[f], TaskDefaults[f])]
    IN  [filled EXCEPT !.workers = Least(@, filled.batchSize)]

\* What the relay of NewRunner runs with.
Relay(c) == SanitizeRelay(NormalizeRelay(c))

-----------------------------------------------------------------------------
(* Tracing (the sampling ratio in percent).                                 *)

\* ObservabilityConfig.sanitize.
SanitizeTracing(c) ==
    [sampling |-> IF c.sampling <= 0 \/ c.sampling > 100 THEN 100 ELSE c.sampling,
     queue    |-> OrDefault(c.queue, 2048),
     batch    |-> IF c.batch <= 0 \/ c.batch > OrDefault(c.queue, 2048)
                  THEN 512 ELSE c.batch]

\* Mutant: the default batch is not held against the queue here either.
InitTracingUnclipped(c) == SanitizeTracing(c)

\* sanitizeConfig of tracing.Init.
InitTracing(c) ==
    LET queue == OrDefault(c.queue, 2048)
    IN  [sampling |-> IF c.sampling <= 0 \/ c.sampling > 100 THEN 100 ELSE c.sampling,
         queue    |-> queue,
         batch    |-> IF c.batch <= 0 \/ c.batch > queue THEN Least(512, queue) ELSE c.batch]

\* What the batch processor is given by observability.Init.
Tracing(c) == InitTracing(SanitizeTracing(c))

-----------------------------------------------------------------------------
(* The others.                                                              *)

\* gcpubsub: Config.Normalize; an emulator cannot deliver exactly once.
PubSub(c) ==
    [c EXCEPT !.publishTimeout = OrDefault(@, 10),
              !.goroutines     = OrDefault(@, 1),
              !.outstanding    = OrDefault(@, 1000),
              !.exactlyOnce    = @ /\ ~c.emulator]

\* txmanager: Config.sanitized.
Transactions(c) ==
    [c EXCEPT !.timeout     = OrDefault(@, 3),
              !.lockTimeout = OrDefault(@, 0)]

\* Config.BuildPresets: the three presets differ in isolation and access only.
Presets(c) ==
    LET default == [isolation |-> c.isolation, access |-> "read write",
                    timeout |-> Transactions(c).timeout,
                    lockTimeout |-> Transactions(c).lockTimeout]
    IN  {default, [default EXCEPT !.isolation = "serializable"],
         [default EXCEPT !.access = "read only"]}

\* pgxpoolx: Config.Sanitize; the schema is searched before public.
SearchPath(c) ==
    IF c.searchPath # <<>> THEN c.searchPath
    ELSE IF c.schema # "" THEN <<c.schema, "public">> ELSE <<"public">>

-----------------------------------------------------------------------------

RelayConfigs ==
    {[batchSize |-> b, workers |-> w, initialBackoff |-> i, maxBackoff |-> m,
      maxAttempts |-> o, publishTimeout |-> o, tickInterval |-> o, lockTTL |-> o] :
        b \in Sizes, w \in Sizes, i \in Initials, m \in Maxima, o \in {0, 7}}

TracingConfigs == [sampling : {0, 30, 150}, queue : Queues, batch : Queues]

PubSubConfigs ==
    [publishTimeout : {0, 7}, goroutines : {0, 7}, outstanding : {0, 7},
     exactlyOnce : BOOLEAN, emulator : BOOLEAN]

TxConfigs ==
    [isolation : {"read committed", "serializable"}, timeout : {-1, 0, 7},
     lockTimeout : {-1, 0, 7}]

PoolConfigs == [searchPath : {<<>>, <<"app">>}, schema : {"", "app"}]

VARIABLES
    kind,       \* whose configuration it is
    config,     \* as it is written
    attempts    \* of an event that fails again and again: delivery_attempts - 1

settingsVars == <<kind, config, attempts>>

SettingsInit ==
    /\ \/ kind = "relay" /\ config \in RelayConfigs
       \/ kind = "tracing" /\ config \in TracingConfigs
       \/ kind = "pubsub" /\ config \in PubSubConfigs
       \/ kind = "transactions" /\ config \in TxConfigs
       \/ kind = "pool" /\ config \in PoolConfigs
    /\ attempts = -1

\* The relay fails to publish the event once more.
PublishFails ==
    /\ kind = "relay" /\ attempts < AttemptBound
    /\ attempts' = attempts + 1
    /\ UNCHANGED <<kind, config>>

SettingsSpec == SettingsInit /\ [][PublishFails]_settingsVars

Delay == BackoffDuration(Relay(config).initialBackoff, Relay(config).maxBackoff, attempts)

-----------------------------------------------------------------------------
(* Properties.                                                              *)

\* Whatever a service configures or leaves out, the components run with values
\* that fit each other: no more workers than a batch has events, a batch of
\* spans that fits its queue, exactly-once delivery never with an emulator, the
\* same timeouts in every preset, a search path that ends in public unless it
\* is given in full.
SettingsAreUsable ==
    /\ kind = "relay" => Relay(config).workers \in 1..Relay(config).batchSize
    /\ kind = "tracing" =>
          /\ Tracing(config).batch \in 1..Tracing(config).queue
          /\ Tracing(config).sampling \in 1..100
    /\ kind = "pubsub" => ~(PubSub(config).exactlyOnce /\ config.emulator)
    /\ kind = "transactions" =>
          \A p, q \in Presets(config) :
             p.timeout = q.timeout /\ p.timeout > 0
             /\ p.lockTimeout = q.lockTimeout /\ p.lockTimeout >= 0
    /\ kind = "pool" =>
          \/ SearchPath(config) = config.searchPath
          \/ SearchPath(config)[Len(SearchPath(config))] = "public"

\* The two tables of defaults agree, and what was chosen and can be used is kept:
\* a task made by NewRunner runs as one made by NewTask does, spans are batched
\* as tracing.Init alone would, and a configuration that has been completed is
\* not changed when it is completed again.
DefaultsAgree ==
    /\ kind = "relay" =>
          /\ Relay(config) = SanitizeRelay(config)
          /\ Relay(Relay(config)) = Relay(config)
          /\ \A f \in DOMAIN config \ {"workers"} :
                config[f] > 0 => Relay(config)[f] = config[f]
    /\ kind = "tracing" =>
          /\ Tracing(config) = InitTracing(config)
          /\ Tracing(Tracing(config)) = Tracing(config)

\* A retry is never immediate and never later than MaxBackoff, also where the
\* shift or the product of backoffDuration overflows; where neither does, the
\* delay doubles with every failure until it meets MaxBackoff; and an initial
\* backoff of less than half the bits (two seconds in nanoseconds has 31 of 64)
\* never makes a retry come sooner than the first.
DelayFollowsPolicy ==
    LET initial == Relay(config).initialBackoff
        max     == Relay(config).maxBackoff
    IN  kind = "relay" =>
          /\ Delay \in 1..max
          /\ initial < Pow2[Width \div 2] => Delay >= Least(initial, max)
          /\ (attempts \in 0..(Width - 2) /\ initial * Pow2[attempts] < SignBit)
                => Delay = Least(initial * Pow2[attempts], max)
=============================================================================
