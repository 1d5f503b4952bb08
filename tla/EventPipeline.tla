---------------------------- MODULE EventPipeline ----------------------------
(***************************************************************************)
(* The way of an event from the outbox table to the tables of a consumer:   *)
(* publisher instances (outbox/publisher), the publisher component with its *)
(* client library (gcpubsub/publisher.go), the topic, and a consumer that   *)
(* keeps InboxContract, as InboxConsumer is shown to do.                    *)
(*                                                                         *)
(* The library sends what it is given lane by lane: a lane is an ordering   *)
(* key, or a single event when ordering is off.  A lane whose send fails is *)
(* paused until someone resumes it, and nothing in the program does.        *)
(* Compared with OutboxPublisher the leases here have no clock (a stalled   *)
(* holder may lose its lease at any time) and a batch is claimed row by row.*)
(***************************************************************************)
EXTENDS Naturals, Sequences, FiniteSets

CONSTANTS
    Events,        \* event_id of the rows the producers will insert
    Aggregates,    \* the aggregates they belong to
    AggregateOf,   \* aggregate_id of each event, sent as the ordering key
    Ordering,      \* Config.OrderingKeyEnabled
    Procs,         \* publisher instances
    NoProc,        \* lock_token IS NULL
    Workers,       \* Config.Workers
    Faults,        \* the kinds of fault that happen in a run
    MaxFaults      \* bound: how many faults of these kinds happen in all

Kinds == {"publish", "db", "steal", "exit", "crash"}

ASSUME PipelineAssumption ==
    /\ AggregateOf \in [Events -> Aggregates]
    /\ Ordering \in BOOLEAN /\ Workers \in Nat \ {0}
    /\ NoProc \notin Procs
    /\ Faults \subseteq Kinds /\ MaxFaults \in Nat

VARIABLES
    row,       \* outbox_events: state and lease of each event
    status,    \* whether each instance runs, flushes, has exited or crashed
    work,      \* where each instance is with its copy of an event
    queue,     \* messages the client library holds, by lane
    paused,    \* lanes the client library has paused
    handed,    \* history: events handed to each lane since the start
    stored,    \* history: events of the lane the broker has stored since then
    accepted,  \* events the broker has ever stored
    effects,   \* committed effects at the consumer
    faults     \* how many faults have happened

outboxVars   == <<row, status, work>>
libraryVars  == <<queue, paused, handed, stored>>
vars == <<row, status, work, queue, paused, handed, stored, accepted,
          effects, faults>>

Lane(e) == IF Ordering THEN AggregateOf[e] ELSE e
Lanes   == {Lane(e) : e \in Events}

Outbox == INSTANCE OutboxContract WITH state <- [e \in Events |-> row[e].state]
Inbox  == INSTANCE InboxContract WITH Messages <- Events,
                                      EventOf  <- [e \in Events |-> e],
                                      settled  <- {}

\* Any of the kinds may come again, MaxFaults of them in all.
Fault(kind) ==
    /\ kind \in Faults
    /\ faults < MaxFaults
    /\ faults' = faults + 1

At(p, e, stage) == work[p][e] = stage
Move(p, e, stage) == work' = [work EXCEPT ![p][e] = stage]

-----------------------------------------------------------------------------
(* Producers and the claim.                                                 *)

\* A business transaction commits with an event in it.
Enqueue(e) ==
    /\ row[e].state = "none"
    /\ row' = [row EXCEPT ![e].state = "pending"]
    /\ UNCHANGED <<status, work, libraryVars, accepted, effects, faults>>

\* Nobody works under the lease of e any more.
Abandoned(e) == \A p \in Procs : row[e].lease = p => At(p, e, "none")

\* The claim takes a free row, or one whose lease has run out; the holder of a
\* lease that is stolen still has its copy.
Claim(p, e) ==
    /\ status[p] \in {"up", "flushing"}
    /\ At(p, e, "none")
    /\ row[e].state = "pending"
    /\ IF Abandoned(e) THEN UNCHANGED faults ELSE Fault("steal")
    /\ row' = [row EXCEPT ![e].lease = p]
    /\ Move(p, e, "claimed")
    /\ UNCHANGED <<status, libraryVars, accepted, effects>>

\* The claim is committed and its answer lost: nobody works under the lease.
ClaimUnanswered(p, e) ==
    /\ status[p] \in {"up", "flushing"}
    /\ At(p, e, "none")
    /\ row[e].state = "pending" /\ Abandoned(e)
    /\ Fault("db")
    /\ row' = [row EXCEPT ![e].lease = p]
    /\ UNCHANGED <<status, work, libraryVars, accepted, effects>>

-----------------------------------------------------------------------------
(* Publish and the client library.                                          *)

\* Mutant: a paused lane is resumed by the next message for it.
RefusedWhenStopped(p, e) == status[p] = "flushing"

\* topic.Publish fails at once after Stop and in a paused lane.
Refused(p, e) == status[p] = "flushing" \/ Lane(e) \in paused[p]

FreeWorker(p) == Cardinality({e \in Events : At(p, e, "waiting")}) < Workers

\* publishOnce calls Publish, which hands the message over and waits.
Handover(p, e) ==
    /\ At(p, e, "claimed")
    /\ FreeWorker(p)
    /\ IF Refused(p, e)
       THEN Move(p, e, "failed") /\ UNCHANGED libraryVars
       ELSE /\ Move(p, e, "waiting")
            /\ queue' = [queue EXCEPT ![p][Lane(e)] =
                            Append(@, [event |-> e, awaited |-> TRUE])]
            /\ handed' = [handed EXCEPT ![p][Lane(e)] = Append(@, e)]
            /\ UNCHANGED <<paused, stored>>
    /\ UNCHANGED <<row, status, accepted, effects, faults>>

\* The broker stores the first message of a lane; who waits for it is answered.
BrokerStores(p, l) ==
    /\ queue[p][l] # <<>>
    /\ LET first == Head(queue[p][l])
       IN  /\ accepted' = accepted \cup {first.event}
           /\ stored' = [stored EXCEPT ![p][l] = Append(@, first.event)]
           /\ IF first.awaited THEN Move(p, first.event, "sent")
                               ELSE UNCHANGED work
    /\ queue' = [queue EXCEPT ![p][l] = Tail(@)]
    /\ UNCHANGED <<row, status, paused, handed, effects, faults>>

Waiters(p, l) == {queue[p][l][i].event :
                     i \in {j \in DOMAIN queue[p][l] : queue[p][l][j].awaited}}

\* The library gives up on the first message of a lane, which the broker may
\* have stored all the same.  With an ordering key the rest of the lane fails
\* with it, and the lane is paused.
SendFails(p, l) ==
    /\ queue[p][l] # <<>>
    /\ Fault("publish")
    /\ LET first  == Head(queue[p][l])
           failed == IF Ordering THEN Waiters(p, l)
                     ELSE {e \in {first.event} : first.awaited}
       IN  /\ work' = [work EXCEPT ![p] =
                 [e \in Events |-> IF e \in failed THEN "failed" ELSE @[e]]]
           /\ \/ UNCHANGED <<accepted, stored>>
              \/ /\ accepted' = accepted \cup {first.event}
                 /\ stored' = [stored EXCEPT ![p][l] = Append(@, first.event)]
    /\ queue' = [queue EXCEPT ![p][l] = IF Ordering THEN <<>> ELSE Tail(@)]
    /\ paused' = IF Ordering THEN [paused EXCEPT ![p] = @ \cup {l}] ELSE paused
    /\ UNCHANGED <<row, status, handed, effects>>

\* Nobody waits for the result of e any more.
Forgotten(q, e) == [i \in DOMAIN q |-> IF q[i].event = e
                                       THEN [q[i] EXCEPT !.awaited = FALSE] ELSE q[i]]

\* Mutant: the answer that did not come in time counts as one.
GiveUpAsSent(p, e) ==
    /\ At(p, e, "waiting")
    /\ Fault("publish")
    /\ Move(p, e, "sent")
    /\ queue' = [queue EXCEPT ![p][Lane(e)] = Forgotten(@, e)]
    /\ UNCHANGED <<row, status, paused, handed, stored, accepted, effects>>

\* result.Get ends with the context; the library keeps the message.
GiveUp(p, e) ==
    /\ At(p, e, "waiting")
    /\ Fault("publish")
    /\ Move(p, e, "failed")
    /\ queue' = [queue EXCEPT ![p][Lane(e)] = Forgotten(@, e)]
    /\ UNCHANGED <<row, status, paused, handed, stored, accepted, effects>>

\* Mutant: the result of a failed publish is not written.
RecordOnlySuccess(p, e) ==
    /\ At(p, e, "sent")
    /\ row' = IF row[e].lease # p THEN row
              ELSE [row EXCEPT ![e] = [state |-> "published", lease |-> NoProc]]
    /\ Move(p, e, "none")
    /\ UNCHANGED <<status, libraryVars, accepted, effects, faults>>

\* Mutant: a failed publish closes the event.
RecordClosing(p, e) ==
    /\ work[p][e] \in {"sent", "failed"}
    /\ row' = IF row[e].lease # p THEN row
              ELSE [row EXCEPT ![e] =
                       [state |-> IF At(p, e, "sent") THEN "published" ELSE "failed",
                        lease |-> NoProc]]
    /\ Move(p, e, "none")
    /\ UNCHANGED <<status, libraryVars, accepted, effects, faults>>

\* MarkPublished or Reschedule, which match no row once the lease is gone.
Record(p, e) ==
    /\ work[p][e] \in {"sent", "failed"}
    /\ row' = IF row[e].lease # p THEN row
              ELSE [row EXCEPT ![e] =
                       [state |-> IF At(p, e, "sent") THEN "published" ELSE @.state,
                        lease |-> NoProc]]
    /\ Move(p, e, "none")
    /\ UNCHANGED <<status, libraryVars, accepted, effects, faults>>

\* The statement fails, which is only logged: the row keeps its lease.
RecordFails(p, e) ==
    /\ work[p][e] \in {"sent", "failed"}
    /\ Fault("db")
    /\ Move(p, e, "none")
    /\ UNCHANGED <<row, status, libraryVars, accepted, effects>>

-----------------------------------------------------------------------------
(* The life of an instance.                                                 *)

\* The component's cleanup calls Flush while the relay may still be running.
Flush(p) ==
    /\ status[p] = "up"
    /\ Fault("exit")
    /\ status' = [status EXCEPT ![p] = "flushing"]
    /\ UNCHANGED <<row, work, libraryVars, accepted, effects>>

\* Mutant: Flush does not wait for what the library still holds.
ExitAtOnce(p) ==
    /\ status[p] = "flushing"
    /\ status' = [status EXCEPT ![p] = "exited"]
    /\ work' = [work EXCEPT ![p] = [e \in Events |-> "none"]]
    /\ queue' = [queue EXCEPT ![p] = [l \in Lanes |-> <<>>]]
    /\ UNCHANGED <<row, paused, handed, stored, accepted, effects, faults>>

\* Stop has sent what the library held, and the process ends.
Exit(p) ==
    /\ status[p] = "flushing"
    /\ \A l \in Lanes : queue[p][l] = <<>>
    /\ status' = [status EXCEPT ![p] = "exited"]
    /\ work' = [work EXCEPT ![p] = [e \in Events |-> "none"]]
    /\ UNCHANGED <<row, libraryVars, accepted, effects, faults>>

\* The process dies; what it was sending has arrived (BrokerStores) or is lost.
Crash(p) ==
    /\ status[p] \in {"up", "flushing"}
    /\ Fault("crash")
    /\ status' = [status EXCEPT ![p] = "crashed"]
    /\ work' = [work EXCEPT ![p] = [e \in Events |-> "none"]]
    /\ queue' = [queue EXCEPT ![p] = [l \in Lanes |-> <<>>]]
    /\ UNCHANGED <<row, paused, handed, stored, accepted, effects>>

\* A new process builds a new component: its client has paused nothing.
Restart(p) ==
    /\ status[p] \in {"exited", "crashed"}
    /\ status' = [status EXCEPT ![p] = "up"]
    /\ paused' = [paused EXCEPT ![p] = {}]
    /\ handed' = [handed EXCEPT ![p] = [l \in Lanes |-> <<>>]]
    /\ stored' = [stored EXCEPT ![p] = [l \in Lanes |-> <<>>]]
    /\ UNCHANGED <<row, work, queue, accepted, effects, faults>>

-----------------------------------------------------------------------------
(* The consumer, by its contract: the effect of a message the broker has.   *)

Consume(e) ==
    /\ e \in accepted
    /\ Inbox!Apply(e)
    /\ UNCHANGED <<outboxVars, libraryVars, accepted, faults>>

-----------------------------------------------------------------------------

EmptyLanes == [p \in Procs |-> [l \in Lanes |-> <<>>]]

Init ==
    /\ row = [e \in Events |-> [state |-> "none", lease |-> NoProc]]
    /\ status = [p \in Procs |-> "up"]
    /\ work = [p \in Procs |-> [e \in Events |-> "none"]]
    /\ queue = EmptyLanes /\ handed = EmptyLanes /\ stored = EmptyLanes
    /\ paused = [p \in Procs |-> {}]
    /\ accepted = {}
    /\ Inbox!InboxInit
    /\ faults = 0

RelayStep(p, e) ==
    \/ Claim(p, e) \/ ClaimUnanswered(p, e)
    \/ Handover(p, e) \/ GiveUp(p, e)
    \/ Record(p, e) \/ RecordFails(p, e)

Next ==
    \/ \E e \in Events : Enqueue(e) \/ Consume(e)
    \/ \E p \in Procs, e \in Events : RelayStep(p, e)
    \/ \E p \in Procs, l \in Lanes : BrokerStores(p, l) \/ SendFails(p, l)
    \/ \E p \in Procs : Flush(p) \/ Exit(p) \/ Crash(p) \/ Restart(p)

Spec == Init /\ [][Next]_vars

\* Instances go on and are restarted, each of them polls and now and then gets
\* the row, and the broker answers in the end.
Fairness ==
    /\ \A p \in Procs :
          /\ WF_vars(Exit(p)) /\ WF_vars(Restart(p))
          /\ \A l \in Lanes : WF_vars(BrokerStores(p, l))
          /\ \A e \in Events : /\ SF_vars(Claim(p, e))
                               /\ WF_vars(Handover(p, e) \/ Record(p, e))
    /\ \A e \in Events : WF_vars(Consume(e))

FairSpec == Spec /\ Fairness

-----------------------------------------------------------------------------
(* Properties.                                                              *)

Message == [event : Events, awaited : BOOLEAN]

\* Every variable has its type.
TypeOK ==
    /\ row \in [Events -> [state : {"none", "pending", "published"},
                           lease : Procs \cup {NoProc}]]
    /\ status \in [Procs -> {"up", "flushing", "exited", "crashed"}]
    /\ work \in [Procs -> [Events -> {"none", "claimed", "waiting", "sent", "failed"}]]
    /\ queue \in [Procs -> [Lanes -> Seq(Message)]]
    /\ paused \in [Procs -> SUBSET Lanes]
    /\ handed \in [Procs -> [Lanes -> Seq(Events)]]
    /\ stored \in [Procs -> [Lanes -> Seq(Events)]]
    /\ accepted \subseteq Events
    /\ effects \in [Events -> {0, 1}]
    /\ faults \in 0..MaxFaults

\* With ordering keys the broker stores what an instance has handed over for an
\* aggregate without a gap: nothing overtakes or follows a message that failed,
\* however often the relay retries (publisher.Publish with an OrderingKey).
NothingOvertakesAFailure ==
    Ordering => \A p \in Procs, l \in Lanes :
        /\ Len(stored[p][l]) <= Len(handed[p][l])
        /\ \A i \in DOMAIN stored[p][l] : stored[p][l][i] = handed[p][l][i]

\* A process that ends through its cleanup has left nothing in the library,
\* except in a lane whose send has failed (Flush waits in topic.Stop).
ExitLeavesNothingBehind ==
    Ordering => \A p \in Procs, l \in Lanes :
        (status[p] = "exited" /\ l \notin paused[p]) => stored[p][l] = handed[p][l]

\* The relay over the ordering client keeps the outbox's promise.
ImplementsOutbox == Outbox!ContractSpec

Arrives(e) ==
    row[e].state # "none" ~> (row[e].state = "published" /\ effects[e] = 1)

\* Every event a producer has committed takes effect at the consumer and is
\* completed in the outbox, and nothing has to be done for it but to keep the
\* relay running (Runner.Run).
EveryEventArrives == \A e \in Events : Arrives(e)

\* Only a paused lane keeps an event back: one that does not arrive has its lane
\* paused in every instance, for good, whatever else has failed on the way
\* (publishOnce and handleFailure over publisher.Publish with an OrderingKey).
OnlyAPauseHoldsBack ==
    \A e \in Events : Arrives(e) \/ <>[](\A p \in Procs : Lane(e) \in paused[p])
=============================================================================
