---------------------------- MODULE SettingsProofs ----------------------------
(***************************************************************************)
(* The settings fit each other whatever integers a service configures: what  *)
(* each kind of configuration consists of is the invariant, and the rest is  *)
(* said of the functions that complete it.                                   *)
(***************************************************************************)
EXTENDS Settings, BackoffProofs

RelayFields ==
    {"batchSize", "workers", "initialBackoff", "maxBackoff", "maxAttempts",
     "publishTimeout", "tickInterval", "lockTTL"}

IntRelay == [RelayFields -> Int]
IntTracing == [sampling : Int, queue : Int, batch : Int]

\* What the configuration of each kind consists of.
ConfigOK ==
    /\ kind = "relay" => config \in IntRelay
    /\ kind = "tracing" => config \in IntTracing
    /\ kind = "pubsub" => config \in PubSubConfigs
    /\ kind = "transactions" => config \in TxConfigs
    /\ kind = "pool" => config \in PoolConfigs

\* The two tables of the relay's defaults are one, of positive numbers.
LEMMA TablesAgree ==
    RelayDefaults = TaskDefaults /\ RelayDefaults \in [RelayFields -> Nat \ {0}]
  BY DEF RelayDefaults, TaskDefaults, RelayFields

\* What the relay runs with, field by field.
LEMMA RelayIs ==
    ASSUME NEW c \in IntRelay
    PROVE  /\ Relay(c) = SanitizeRelay(c)
           /\ Relay(c) \in IntRelay
           /\ Relay(c).workers \in 1..Relay(c).batchSize
           /\ \A f \in RelayFields : Relay(c)[f] > 0
           /\ \A f \in RelayFields \ {"workers"} :
                 Relay(c)[f] = OrDefault(c[f], RelayDefaults[f])
<1> DEFINE filled == [f \in RelayFields |-> OrDefault(c[f], RelayDefaults[f])]
           w      == Least(filled["workers"], filled["batchSize"])
<1>1. /\ filled \in IntRelay
      /\ \A f \in RelayFields : filled[f] > 0 /\ filled[f] = OrDefault(c[f], RelayDefaults[f])
  BY TablesAgree DEF IntRelay, OrDefault
<1>2. DOMAIN c = RelayFields /\ DOMAIN filled = RelayFields
  BY DEF IntRelay
<1>3. NormalizeRelay(c) = filled
  BY <1>2 DEF NormalizeRelay
<1>4. [f \in RelayFields |-> OrDefault(filled[f], TaskDefaults[f])] = filled
  BY <1>1, <1>2, TablesAgree DEF OrDefault, IntRelay
<1>5. [f \in RelayFields |-> OrDefault(c[f], TaskDefaults[f])] = filled
  BY TablesAgree
<1> HIDE DEF filled
<1>6. w \in Int /\ w > 0 /\ w \in 1..filled["batchSize"]
  BY <1>1 DEF Least, IntRelay, RelayFields
<1>7. Relay(c) = [filled EXCEPT !.workers = w]
  BY <1>2, <1>3, <1>4 DEF Relay, SanitizeRelay
<1>8. SanitizeRelay(c) = [filled EXCEPT !.workers = w]
  BY <1>2, <1>5 DEF SanitizeRelay
<1> HIDE DEF w
<1>9. /\ Relay(c) \in IntRelay /\ Relay(c)["workers"] = w
      /\ \A f \in RelayFields \ {"workers"} : Relay(c)[f] = filled[f]
  BY <1>1, <1>2, <1>6, <1>7 DEF IntRelay, RelayFields
<1> QED
  BY <1>1, <1>6, <1>7, <1>8, <1>9 DEF RelayFields

\* Completing a completed configuration changes nothing.
LEMMA RelayIsIdempotent ==
    ASSUME NEW c \in IntRelay
    PROVE  Relay(Relay(c)) = Relay(c)
<1> DEFINE d == Relay(c)
<1>1. /\ d \in IntRelay /\ d.workers \in 1..d.batchSize
      /\ \A f \in RelayFields : d[f] > 0
  BY RelayIs
<1>2. Relay(d) = SanitizeRelay(d)
  BY <1>1, RelayIs
<1> HIDE DEF d
<1>3. SanitizeRelay(d) = d
  <2>1. [f \in DOMAIN d |-> OrDefault(d[f], TaskDefaults[f])] = d
    BY <1>1, TablesAgree DEF IntRelay, OrDefault
  <2>2. Least(d.workers, d.batchSize) = d.workers
    BY <1>1 DEF Least, IntRelay, RelayFields
  <2> QED
    BY <1>1, <2>1, <2>2 DEF SanitizeRelay, IntRelay
<1> QED
  BY <1>2, <1>3 DEF d

\* observability.Init before tracing.Init changes nothing either.
LEMMA TracingIs ==
    ASSUME NEW c \in IntTracing
    PROVE  /\ Tracing(c) \in IntTracing
           /\ Tracing(c).batch \in 1..Tracing(c).queue
           /\ Tracing(c).sampling \in 1..100
           /\ Tracing(c) = InitTracing(c)
           /\ Tracing(Tracing(c)) = Tracing(c)
<1> DEFINE Complete(d) == /\ d \in IntTracing /\ d.sampling \in 1..100
                          /\ d.queue > 0 /\ d.batch \in 1..d.queue
<1>1. ASSUME NEW d \in IntTracing
      PROVE  Complete(InitTracing(d))
  BY DEF IntTracing, InitTracing, OrDefault, Least
<1>2. ASSUME NEW d, Complete(d)
      PROVE  SanitizeTracing(d) = d /\ InitTracing(d) = d
  <2>1. /\ d.sampling \in Int /\ d.queue \in Int /\ d.batch \in Int
        /\ d = [sampling |-> d.sampling, queue |-> d.queue, batch |-> d.batch]
    BY <1>2 DEF IntTracing
  <2>2. /\ ~(d.sampling <= 0 \/ d.sampling > 100) /\ OrDefault(d.queue, 2048) = d.queue
        /\ ~(d.batch <= 0 \/ d.batch > d.queue)
    BY <1>2, <2>1 DEF OrDefault
  <2> QED
    BY <2>1, <2>2 DEF SanitizeTracing, InitTracing
<1>3. SanitizeTracing(c) \in IntTracing
  BY DEF IntTracing, SanitizeTracing, OrDefault
<1>4. Complete(Tracing(c))
  BY <1>1, <1>3 DEF Tracing
<1>5. Tracing(c) = InitTracing(c)
  <2> DEFINE s == SanitizeTracing(c)
             q == OrDefault(c.queue, 2048)
  <2>1. /\ c.sampling \in Int /\ c.queue \in Int /\ c.batch \in Int
        /\ q \in Int /\ q > 0 /\ OrDefault(q, 2048) = q
    BY DEF IntTracing, OrDefault
  <2>2. /\ s.sampling = IF c.sampling <= 0 \/ c.sampling > 100 THEN 100 ELSE c.sampling
        /\ s.queue = q
        /\ s.batch = IF c.batch <= 0 \/ c.batch > q THEN 512 ELSE c.batch
    BY DEF SanitizeTracing
  <2>3. /\ InitTracing(s).sampling = InitTracing(c).sampling
        /\ InitTracing(s).queue = InitTracing(c).queue
        /\ InitTracing(s).batch = InitTracing(c).batch
    <3> HIDE DEF q, s
    <3>1. OrDefault(s.queue, 2048) = q
      BY <2>1, <2>2
    <3> QED
      BY <2>1, <2>2, <3>1 DEF InitTracing, Least, q
  <2> QED
    BY <2>3 DEF Tracing, InitTracing
<1>6. Tracing(Tracing(c)) = Tracing(c)
  BY <1>2, <1>4 DEF Tracing
<1> QED
  BY <1>4, <1>5, <1>6

-----------------------------------------------------------------------------

LEMMA ConfigInit == SettingsInit => ConfigOK
<1> SUFFICES ASSUME SettingsInit PROVE ConfigOK
  OBVIOUS
<1>1. RelayConfigs \subseteq IntRelay
  BY SettingsAssumption DEF RelayConfigs, IntRelay, RelayFields
<1>2. TracingConfigs \subseteq IntTracing
  <2> SUFFICES ASSUME NEW c \in TracingConfigs PROVE c \in IntTracing
    OBVIOUS
  <2>1. /\ c.sampling \in {0, 30, 150} /\ c.queue \in Queues /\ c.batch \in Queues
        /\ c = [sampling |-> c.sampling, queue |-> c.queue, batch |-> c.batch]
    BY Zenon DEF TracingConfigs
  <2>2. c.sampling \in Int /\ c.queue \in Int /\ c.batch \in Int
    BY <2>1, SettingsAssumption
  <2> QED
    BY <2>1, <2>2 DEF IntTracing
<1>3. CASE kind = "relay" /\ config \in RelayConfigs
  BY <1>1, <1>3 DEF ConfigOK
<1>4. CASE kind = "tracing" /\ config \in TracingConfigs
  BY <1>2, <1>4 DEF ConfigOK
<1>5. CASE kind = "pubsub" /\ config \in PubSubConfigs
  BY <1>5 DEF ConfigOK
<1>6. CASE kind = "transactions" /\ config \in TxConfigs
  BY <1>6 DEF ConfigOK
<1>7. CASE kind = "pool" /\ config \in PoolConfigs
  BY <1>7 DEF ConfigOK
<1> QED
  BY <1>3, <1>4, <1>5, <1>6, <1>7 DEF SettingsInit

LEMMA ConfigNext == ConfigOK /\ [PublishFails]_settingsVars => ConfigOK'
<1> SUFFICES ASSUME ConfigOK, [PublishFails]_settingsVars PROVE ConfigOK'
  OBVIOUS
<1>1. UNCHANGED <<kind, config>>
  BY DEF PublishFails, settingsVars
<1> QED
  BY <1>1, Zenon DEF ConfigOK

LEMMA ConfigsAreOK == SettingsSpec => []ConfigOK
  BY ConfigInit, ConfigNext, PTL DEF SettingsSpec

LEMMA PresetsFit ==
    ASSUME NEW c \in TxConfigs, NEW p \in Presets(c), NEW q \in Presets(c)
    PROVE  /\ p.timeout = q.timeout /\ p.timeout > 0
           /\ p.lockTimeout = q.lockTimeout /\ p.lockTimeout >= 0
<1> DEFINE t == Transactions(c)
           d == [isolation |-> c.isolation, access |-> "read write",
                 timeout |-> t.timeout, lockTimeout |-> t.lockTimeout]
<1>a. t.timeout = OrDefault(c.timeout, 3) /\ t.lockTimeout = OrDefault(c.lockTimeout, 0)
  BY DEF Transactions, TxConfigs
<1>b. Presets(c) = {d, [d EXCEPT !.isolation = "serializable"],
                    [d EXCEPT !.access = "read only"]}
  BY Zenon DEF Presets
<1> HIDE DEF t
<1>c. ASSUME NEW r \in {d, [d EXCEPT !.isolation = "serializable"],
                        [d EXCEPT !.access = "read only"]}
      PROVE  r.timeout = t.timeout /\ r.lockTimeout = t.lockTimeout
  <2>1. CASE r = d
    BY <2>1
  <2>2. CASE r = [d EXCEPT !.isolation = "serializable"]
    BY <2>2
  <2>3. CASE r = [d EXCEPT !.access = "read only"]
    BY <2>3
  <2> QED
    BY <1>c, <2>1, <2>2, <2>3, Zenon
<1>1. \A r \in Presets(c) :
         /\ r.timeout = OrDefault(c.timeout, 3)
         /\ r.lockTimeout = OrDefault(c.lockTimeout, 0)
  BY <1>a, <1>b, <1>c
<1>d. c.timeout \in {-1, 0, 7} /\ c.lockTimeout \in {-1, 0, 7}
  BY Zenon DEF TxConfigs
<1>2. OrDefault(c.timeout, 3) > 0 /\ OrDefault(c.lockTimeout, 0) >= 0
  BY <1>d DEF OrDefault
<1> QED
  BY <1>1, <1>2

\* Whatever integers a service configures as backoffs, sizes and queues, the
\* components run with values that fit each other (the Normalize, sanitized and
\* sanitizeConfig functions).
THEOREM SettingsFit == SettingsSpec => []SettingsAreUsable
<1>1. ConfigOK => SettingsAreUsable
  <2> SUFFICES ASSUME ConfigOK PROVE SettingsAreUsable
    OBVIOUS
  <2>1. CASE kind = "relay"
    BY <2>1, RelayIs DEF ConfigOK, SettingsAreUsable
  <2>2. CASE kind = "tracing"
    BY <2>2, TracingIs DEF ConfigOK, SettingsAreUsable
  <2>3. CASE kind = "pubsub"
    BY <2>3 DEF ConfigOK, SettingsAreUsable, PubSub, PubSubConfigs
  <2>4. CASE kind = "transactions"
    BY <2>4, PresetsFit DEF ConfigOK, SettingsAreUsable
  <2>5. CASE kind = "pool"
    BY <2>5 DEF ConfigOK, SettingsAreUsable, SearchPath, PoolConfigs
  <2> QED
    BY <2>1, <2>2, <2>3, <2>4, <2>5 DEF SettingsAreUsable
<1> QED
  BY <1>1, ConfigsAreOK, PTL

\* The tables of NewRunner and NewTask, and those of observability.Init and
\* tracing.Init, come to the same for every configuration, and completing a
\* configuration twice is completing it once.
THEOREM DefaultsAreOne == SettingsSpec => []DefaultsAgree
<1>1. ConfigOK => DefaultsAgree
  <2> SUFFICES ASSUME ConfigOK PROVE DefaultsAgree
    OBVIOUS
  <2>1. ASSUME kind = "relay"
        PROVE  /\ Relay(config) = SanitizeRelay(config)
               /\ Relay(Relay(config)) = Relay(config)
               /\ \A f \in DOMAIN config \ {"workers"} :
                     config[f] > 0 => Relay(config)[f] = config[f]
    <3>1. config \in IntRelay
      BY <2>1 DEF ConfigOK
    <3> QED
      BY <3>1, RelayIs, RelayIsIdempotent DEF IntRelay, OrDefault
  <2>2. CASE kind = "tracing"
    BY <2>2, TracingIs DEF ConfigOK, DefaultsAgree
  <2> QED
    BY <2>1, <2>2 DEF DefaultsAgree
<1> QED
  BY <1>1, ConfigsAreOK, PTL

-----------------------------------------------------------------------------

LEMMA AttemptsAreCounted == SettingsSpec => [](attempts \in Int)
<1>1. SettingsInit => attempts \in Int
  BY DEF SettingsInit
<1>2. attempts \in Int /\ [PublishFails]_settingsVars => (attempts \in Int)'
  BY DEF PublishFails, settingsVars
<1> QED
  BY <1>1, <1>2, PTL DEF SettingsSpec

\* For durations of any width, whatever backoffs are configured and however often
\* an event fails, Task.backoffDuration doubles until max, never returns zero or
\* more than max, and after an overflow never less than the first delay.
THEOREM DelaysFollowPolicy == SettingsSpec => []DelayFollowsPolicy
<1>1. ConfigOK /\ attempts \in Int => DelayFollowsPolicy
  <2> SUFFICES ASSUME ConfigOK, attempts \in Int, kind = "relay"
               PROVE  DelayFollowsPolicy
    BY DEF DelayFollowsPolicy
  <2> DEFINE initial == Relay(config).initialBackoff
             max     == Relay(config).maxBackoff
  <2>1. initial \in Nat \ {0} /\ max \in Nat \ {0}
    <3>1. config \in IntRelay
      BY DEF ConfigOK
    <3>2. /\ Relay(config) \in IntRelay
          /\ \A f \in RelayFields : Relay(config)[f] > 0
      BY <3>1, RelayIs
    <3> QED
      BY <3>2 DEF IntRelay, RelayFields
  <2> HIDE DEF initial, max
  <2>2. BackoffDuration(initial, max, attempts) \in 1..max
    BY <2>1, BackoffBounded
  <2>3. initial < Pow2[Width \div 2] =>
          BackoffDuration(initial, max, attempts) >= Least(initial, max)
    BY <2>1, BackoffNeverBelowFirst DEF Least
  <2>4. (attempts \in 0..(Width - 2) /\ initial * Pow2[attempts] < SignBit) =>
          BackoffDuration(initial, max, attempts) = Least(initial * Pow2[attempts], max)
    BY <2>1, BackoffDoubles DEF Least
  <2> QED
    BY <2>2, <2>3, <2>4 DEF DelayFollowsPolicy, Delay, initial, max
<1> QED
  BY <1>1, ConfigsAreOK, AttemptsAreCounted, PTL
=============================================================================
