------------------------------ MODULE Startup ------------------------------
(***************************************************************************)
(* The resources a service acquires when it is wired together, and what      *)
(* becomes of them: pgxpoolx.NewComponent (a pool, the callback of its       *)
(* gauge, a ping), gcpubsub.NewComponent (a client, a topic) and             *)
(* publisher.NewRunner (the callback of the backlog gauge).  The injector    *)
(* that calls them in this order, and the cleanups of those that succeeded   *)
(* in the reverse order, is generated by wire in each service.  A service    *)
(* that fails to start may be started again in the same process.             *)
(***************************************************************************)
EXTENDS Integers

CONSTANTS
    PoolMetrics, RelayMetrics,   \* MetricsEnabled of either configuration
    MaxStarts                    \* bound: attempts to start

ASSUME StartupAssumption ==
    PoolMetrics \in BOOLEAN /\ RelayMetrics \in BOOLEAN /\ MaxStarts \in Nat \ {0}

Starts == 1..MaxStarts

VARIABLES
    start,       \* the current attempt
    step,        \* what it does next
    pool,        \* the pool of each attempt
    ping,        \* its health check
    gauge,       \* attempts whose pool gauge has a callback registered
    backlog,     \* attempts whose backlog gauge has one
    pubsub,      \* the client of each attempt: "none", "open", "closed"
    topic,       \* its topic: "live", "stopped"
    relay        \* its runner: "none", "built", "running", "ended"

startVars == <<start, step, pool, ping, gauge, backlog, pubsub, topic, relay>>

Goto(s) == step' = s
Set(f, v) == [f EXCEPT ![start] = v]

-----------------------------------------------------------------------------
(* pgxpoolx.NewComponent.                                                   *)

\* Sanitize, ParseConfig, buildSearchPathStatement, NewWithConfig.
CreatePool ==
    /\ step = "pool"
    /\ \/ /\ pool' = Set(pool, "open") /\ Goto("gauge")
       \/ UNCHANGED pool /\ Goto("down")
    /\ UNCHANGED <<start, ping, gauge, backlog, pubsub, topic, relay>>

\* newPoolTelemetry; a callback that is refused is only logged.
RegisterGauge ==
    /\ step = "gauge" /\ Goto("ping")
    /\ \/ PoolMetrics /\ gauge' = gauge \cup {start}
       \/ UNCHANGED gauge
    /\ UNCHANGED <<start, pool, ping, backlog, pubsub, topic, relay>>

\* pingDatabase; a pool that does not answer is closed.
Ping ==
    /\ step = "ping"
    /\ \/ /\ ping' = Set(ping, "ok") /\ Goto("pubsub")
          /\ UNCHANGED pool
       \/ /\ ping' = Set(ping, "failed") /\ Goto("down")
          /\ pool' = Set(pool, "closed")
    /\ UNCHANGED <<start, gauge, backlog, pubsub, topic, relay>>

\* Mutant: the cleanup closes the pool before its gauge is unregistered.
CloseFirst ==
    /\ step = "unregister" /\ Goto("close")
    /\ pool' = Set(pool, "closed")
    /\ UNCHANGED <<start, ping, gauge, backlog, pubsub, topic, relay>>

\* The cleanup: the callback is removed, then the pool is closed; the reader of
\* the metrics may collect at any time between.  (The error of Unregister is
\* only logged; the registration of otel's SDK returns none.)
UnregisterGauge ==
    /\ step = "unregister" /\ Goto("close")
    /\ gauge' = gauge \ {start}
    /\ UNCHANGED <<start, pool, ping, backlog, pubsub, topic, relay>>

ClosePool ==
    /\ step = "close" /\ Goto("down")
    /\ pool' = Set(pool, "closed")
    /\ UNCHANGED <<start, ping, gauge, backlog, pubsub, topic, relay>>

-----------------------------------------------------------------------------
(* gcpubsub.NewComponent.                                                   *)

\* Normalize, then the client factory; a failure unwinds the pool.
CreateClient ==
    /\ step = "pubsub"
    /\ \/ /\ pubsub' = Set(pubsub, "open") /\ topic' = Set(topic, "live")
          /\ Goto("relay")
       \/ UNCHANGED <<pubsub, topic>> /\ Goto("unregister")
    /\ UNCHANGED <<start, pool, ping, gauge, backlog, relay>>

\* Mutant: the cleanup does not flush the topic.
CloseUnflushed ==
    /\ step = "stop" /\ Goto("unregister")
    /\ pubsub' = Set(pubsub, "closed")
    /\ UNCHANGED <<start, pool, ping, gauge, backlog, topic, relay>>

\* The cleanup: Flush, which stops the topic, then Close.
CloseClient ==
    /\ step = "stop" /\ Goto("unregister")
    /\ topic' = Set(topic, "stopped") /\ pubsub' = Set(pubsub, "closed")
    /\ UNCHANGED <<start, pool, ping, gauge, backlog, relay>>

-----------------------------------------------------------------------------
(* publisher.NewRunner and Run.                                             *)

\* NewTask registers the callback of the backlog gauge, unless that is refused;
\* without a store or a publisher there is no runner.
CreateRelay ==
    /\ step = "relay"
    /\ \/ /\ relay' = Set(relay, "built") /\ Goto("up")
          /\ \/ RelayMetrics /\ backlog' = backlog \cup {start}
             \/ UNCHANGED backlog
       \/ UNCHANGED <<relay, backlog>> /\ Goto("stop")
    /\ UNCHANGED <<start, pool, ping, gauge, pubsub, topic>>

\* Run may be called again after it has returned.
RunRelay ==
    /\ step = "up" /\ relay[start] \in {"built", "ended"}
    /\ relay' = Set(relay, "running")
    /\ UNCHANGED <<start, step, pool, ping, gauge, backlog, pubsub, topic>>

\* Run returns: its deferred shutdown unregisters the callback.
EndRelay ==
    /\ relay[start] = "running"
    /\ relay' = Set(relay, "ended")
    /\ backlog' = backlog \ {start}
    /\ UNCHANGED <<start, step, pool, ping, gauge, pubsub, topic>>

-----------------------------------------------------------------------------
(* The service.                                                             *)

\* The application stops its servers, and the injector's cleanup runs.
Stop ==
    /\ step = "up" /\ relay[start] # "running"
    /\ Goto("stop")
    /\ UNCHANGED <<start, pool, ping, gauge, backlog, pubsub, topic, relay>>

StartAgain ==
    /\ step = "down" /\ start < MaxStarts
    /\ start' = start + 1 /\ Goto("pool")
    /\ UNCHANGED <<pool, ping, gauge, backlog, pubsub, topic, relay>>

StartupInit ==
    /\ start = 1 /\ step = "pool"
    /\ pool = [s \in Starts |-> "none"] /\ ping = [s \in Starts |-> "no"]
    /\ gauge = {} /\ backlog = {}
    /\ pubsub = [s \in Starts |-> "none"] /\ topic = [s \in Starts |-> "stopped"]
    /\ relay = [s \in Starts |-> "none"]

StartupNext ==
    \/ CreatePool \/ RegisterGauge \/ Ping \/ UnregisterGauge \/ ClosePool
    \/ CreateClient \/ CloseClient
    \/ CreateRelay \/ RunRelay \/ EndRelay
    \/ Stop \/ StartAgain

StartupSpec == StartupInit /\ [][StartupNext]_startVars

-----------------------------------------------------------------------------
(* Properties.                                                              *)

\* A callback that the metric reader may call at any time looks at a pool that
\* is open, or at one that was closed because it did not answer its first ping,
\* which is the one path that forgets the callback (pgxpoolx.NewComponent).
GaugeSeesOpenPool ==
    \A s \in gauge : pool[s] = "open" \/ (pool[s] = "closed" /\ ping[s] = "failed")

\* An attempt that is over, whether it failed or was stopped, has left no pool
\* open, no client and no topic that still buffers messages; of its callbacks
\* there remain those of a failed ping, and of a runner that was never run.
StartLeavesNothing ==
    \A s \in Starts : (s < start \/ step = "down") =>
        /\ pool[s] # "open" /\ pubsub[s] # "open" /\ topic[s] # "live"
        /\ s \in gauge => ping[s] = "failed"
        /\ s \in backlog => relay[s] = "built"
=============================================================================
