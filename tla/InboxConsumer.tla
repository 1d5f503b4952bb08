---------------------------- MODULE InboxConsumer ----------------------------
(***************************************************************************)
(* The inbox consumer of outbox/inbox/consumer.go over the subscriber of    *)
(* gcpubsub/subscriber.go, the transactions of txmanager/manager.go and the *)
(* inbox statements of outbox/store/inbox.go.  Pub/Sub runs one callback    *)
(* per delivery; several processes (Procs) receive from one subscription.   *)
(***************************************************************************)
EXTENDS Naturals, FiniteSets

CONSTANTS
    Events,          \* event_id values
    Messages,        \* messages of the subscription; an event may have several
    EventOf,         \* the event_id attribute of a message, or NoEvent
    NoEvent,         \* the attributes are missing or malformed
    Poison,          \* messages whose payload the Decoder rejects
    Procs,           \* consumer processes
    Callbacks,       \* concurrent callbacks of the client library
    Home,            \* the process of a callback
    MaxConcurrency,  \* ConsumerOptions.MaxConcurrency
    Snapshot,        \* TRUE: the default isolation is above read committed
    NoMessage, NoOwner,
    Faults           \* the kinds of fault that happen

Kinds == {"handler", "panic", "db", "session", "lost", "lease", "crash"}

ASSUME InboxAssumption ==
    /\ EventOf \in [Messages -> Events \cup {NoEvent}]
    /\ NoEvent \notin Events /\ NoMessage \notin Messages /\ NoOwner \notin Callbacks
    /\ Poison \subseteq Messages
    /\ Home \in [Callbacks -> Procs]
    /\ MaxConcurrency \in Nat \ {0}
    /\ Snapshot \in BOOLEAN
    /\ Faults \subseteq Kinds

VARIABLES
    sub,      \* the broker's state of each message
    pc,       \* where each callback is
    msg,      \* the message of each callback
    tx,       \* each callback's transaction: its snapshot, row, work and session
    table,    \* inbox_events: the committed rows
    owner,    \* the open transaction that has inserted the row of an event
    effect,   \* committed runs of the handler, for each event
    noted,    \* events for which RecordInboxError has returned nil
    calm      \* from now on no transient fault happens

vars == <<sub, pc, msg, tx, table, owner, effect, noted, calm>>

SubState == {"queued", "leased", "acked"}
InTx     == {"insert", "inserting", "read", "handle", "failed", "mark", "commit", "rollback"}
PC       == InTx \cup {"idle", "waiting", "begin", "ack", "nack"}

Row    == [exists : BOOLEAN, processed : BOOLEAN, error : BOOLEAN]
NoRow  == [exists |-> FALSE, processed |-> FALSE, error |-> FALSE]
TxType == [seen : BOOLEAN, handled : BOOLEAN, row : Row, lost : BOOLEAN]
NoTx   == [seen |-> FALSE, handled |-> FALSE, row |-> NoRow, lost |-> FALSE]

Event(w) == EventOf[msg[w]]
Fault(f) == f \in Faults /\ ~calm
Goto(w, label) == pc' = [pc EXCEPT ![w] = label]

-----------------------------------------------------------------------------
(* The subscriber: one callback per delivery.                               *)

\* The broker delivers a message it has not seen acknowledged; it does so
\* again, to any process, once the lease of an earlier delivery has run out.
Deliver(w, m) ==
    /\ pc[w] = "idle"
    /\ sub[m] = "queued" \/ (sub[m] = "leased" /\ Fault("lease"))
    /\ sub' = [sub EXCEPT ![m] = "leased"]
    /\ msg' = [msg EXCEPT ![w] = m]
    /\ Goto(w, "waiting")
    /\ UNCHANGED <<tx, table, owner, effect, noted, calm>>

\* Run: sem <- struct{}{}, released when handleMessage returns.
Holders(p) == {v \in Callbacks : Home[v] = p /\ pc[v] \in InTx \cup {"begin"}}

\* buildInboxMessage rejects a message without its attributes before anything
\* is written.
Enter(w) ==
    /\ pc[w] = "waiting"
    /\ Cardinality(Holders(Home[w])) < MaxConcurrency
    /\ Goto(w, IF Event(w) = NoEvent THEN "nack" ELSE "begin")
    /\ UNCHANGED <<sub, msg, tx, table, owner, effect, noted, calm>>

\* Mutant: the callback acknowledges whatever the handler returned.
AnswerAlways(w) ==
    /\ pc[w] \in {"ack", "nack"}
    /\ sub' = [sub EXCEPT ![msg[w]] = "acked"]
    /\ msg' = [msg EXCEPT ![w] = NoMessage]
    /\ Goto(w, "idle")
    /\ UNCHANGED <<tx, table, owner, effect, noted, calm>>

\* Receive turns the handler's result, a recovered panic included, into an
\* answer.  An acknowledgement may be lost; an answer to a message that another
\* delivery has settled has no effect.
Answer(w) ==
    /\ pc[w] \in {"ack", "nack"}
    /\ sub' = [sub EXCEPT ![msg[w]] =
                  IF @ = "acked" \/ pc[w] = "ack" THEN "acked" ELSE "queued"]
    /\ msg' = [msg EXCEPT ![w] = NoMessage]
    /\ Goto(w, "idle")
    /\ UNCHANGED <<tx, table, owner, effect, noted, calm>>

AckLost(w) ==
    /\ Fault("lost")
    /\ pc[w] = "ack"
    /\ sub' = [sub EXCEPT ![msg[w]] = IF @ = "acked" THEN @ ELSE "queued"]
    /\ msg' = [msg EXCEPT ![w] = NoMessage]
    /\ Goto(w, "idle")
    /\ UNCHANGED <<tx, table, owner, effect, noted, calm>>

-----------------------------------------------------------------------------
(* handleMessage inside WithinTx.                                           *)

\* exec: BeginTx; its error is returned before anything else happens.
Begin(w) ==
    /\ pc[w] = "begin"
    /\ Goto(w, "insert")
    /\ UNCHANGED <<sub, msg, tx, table, owner, effect, noted, calm>>

BeginFails(w) ==
    /\ Fault("db")
    /\ pc[w] = "begin"
    /\ Goto(w, "nack")
    /\ UNCHANGED <<sub, msg, tx, table, owner, effect, noted, calm>>

\* RecordInboxEvent: INSERT ... ON CONFLICT (event_id) DO NOTHING takes its
\* snapshot ...
Insert(w) ==
    /\ pc[w] = "insert" /\ ~tx[w].lost
    /\ tx' = [tx EXCEPT ![w].seen = table[Event(w)].exists]
    /\ Goto(w, "inserting")
    /\ UNCHANGED <<sub, msg, table, owner, effect, noted, calm>>

\* Mutant: the insert does not wait for the transaction that holds the key.
InsertedAtOnce(w) ==
    /\ pc[w] = "inserting" /\ ~tx[w].lost
    /\ ~table[Event(w)].exists
    /\ owner' = [owner EXCEPT ![Event(w)] = w]
    /\ Goto(w, "read")
    /\ UNCHANGED <<sub, msg, tx, table, effect, noted, calm>>

\* ... and waits while another open transaction has inserted the same key.
Inserted(w) ==
    /\ pc[w] = "inserting" /\ ~tx[w].lost
    /\ ~table[Event(w)].exists /\ owner[Event(w)] = NoOwner
    /\ owner' = [owner EXCEPT ![Event(w)] = w]
    /\ Goto(w, "read")
    /\ UNCHANGED <<sub, msg, tx, table, effect, noted, calm>>

\* The key is committed: nothing is inserted, and above read committed a row
\* that is not in the snapshot is a serialization failure.
Conflicts(w) ==
    /\ pc[w] = "inserting" /\ ~tx[w].lost
    /\ table[Event(w)].exists
    /\ Goto(w, IF Snapshot /\ ~tx[w].seen THEN "rollback" ELSE "read")
    /\ UNCHANGED <<sub, msg, tx, table, owner, effect, noted, calm>>

\* The row a transaction reads: its own uncommitted one, or the committed one.
Visible(w) == IF owner[Event(w)] = w THEN [NoRow EXCEPT !.exists = TRUE]
                                     ELSE table[Event(w)]

\* Mutant: processed_at is not looked at.
ReadUnchecked(w) ==
    /\ pc[w] = "read" /\ ~tx[w].lost
    /\ tx' = [tx EXCEPT ![w].row = Visible(w)]
    /\ Goto(w, "handle")
    /\ UNCHANGED <<sub, msg, table, owner, effect, noted, calm>>

\* GetInboxEvent; an event that is processed already is only committed again.
Read(w) ==
    /\ pc[w] = "read" /\ ~tx[w].lost
    /\ tx' = [tx EXCEPT ![w].row = Visible(w)]
    /\ Goto(w, IF Visible(w).processed THEN "commit" ELSE "handle")
    /\ UNCHANGED <<sub, msg, table, owner, effect, noted, calm>>

\* Decode and Handle succeed: the handler's writes are in the transaction.
HandleOk(w) ==
    /\ pc[w] = "handle" /\ msg[w] \notin Poison
    /\ tx' = [tx EXCEPT ![w].handled = TRUE]
    /\ Goto(w, "mark")
    /\ UNCHANGED <<sub, msg, table, owner, effect, noted, calm>>

\* Decode or Handle returns an error, its own or that of a dead session.
HandleFails(w) ==
    /\ pc[w] = "handle"
    /\ msg[w] \in Poison \/ tx[w].lost \/ Fault("handler")
    /\ Goto(w, "failed")
    /\ UNCHANGED <<sub, msg, tx, table, owner, effect, noted, calm>>

\* A panic of the handler passes exec, which rolls back, up to invokeHandler.
HandlePanics(w) ==
    /\ pc[w] = "handle" /\ Fault("panic")
    /\ Goto(w, "rollback")
    /\ UNCHANGED <<sub, msg, tx, table, owner, effect, noted, calm>>

\* Mutant: the failure is recorded and then taken for dealt with.
RecordInboxErrorSwallowed(w) ==
    /\ pc[w] = "failed" /\ ~tx[w].lost
    /\ tx' = [tx EXCEPT ![w].row.error = TRUE, ![w].row.processed = FALSE]
    /\ noted' = noted \cup {Event(w)}
    /\ Goto(w, "commit")
    /\ UNCHANGED <<sub, msg, table, owner, effect, calm>>

\* RecordInboxError writes into the transaction that its caller's error then
\* rolls back.
RecordInboxError(w) ==
    /\ pc[w] = "failed" /\ ~tx[w].lost
    /\ tx' = [tx EXCEPT ![w].row.error = TRUE, ![w].row.processed = FALSE]
    /\ noted' = noted \cup {Event(w)}
    /\ Goto(w, "rollback")
    /\ UNCHANGED <<sub, msg, table, owner, effect, calm>>

MarkInboxProcessed(w) ==
    /\ pc[w] = "mark" /\ ~tx[w].lost
    /\ tx' = [tx EXCEPT ![w].row.processed = TRUE, ![w].row.error = FALSE]
    /\ Goto(w, "commit")
    /\ UNCHANGED <<sub, msg, table, owner, effect, noted, calm>>

\* What a commit makes visible: the row, when the transaction wrote it, and the
\* handler's writes.
Applied(w) ==
    /\ tx' = [tx EXCEPT ![w] = NoTx]
    /\ table' = [table EXCEPT ![Event(w)] =
                    IF tx[w].handled \/ owner[Event(w)] = w THEN tx[w].row ELSE @]
    /\ effect' = [effect EXCEPT ![Event(w)] = IF tx[w].handled THEN @ + 1 ELSE @]
    /\ owner' = [owner EXCEPT ![Event(w)] = IF @ = w THEN NoOwner ELSE @]

Commit(w) ==
    /\ pc[w] = "commit" /\ ~tx[w].lost
    /\ Applied(w)
    /\ Goto(w, "ack")
    /\ UNCHANGED <<sub, msg, noted, calm>>

\* The commit is applied and its answer is lost: exec returns an error.
CommitUnanswered(w) ==
    /\ Fault("db")
    /\ pc[w] = "commit" /\ ~tx[w].lost
    /\ Applied(w)
    /\ Goto(w, "nack")
    /\ UNCHANGED <<sub, msg, noted, calm>>

\* The server ends the session of a callback (failover, a terminated backend,
\* idle_in_transaction_session_timeout), also while the handler runs, and rolls
\* its transaction back: the key is free, and the callback does not know yet.
SessionLost(w) ==
    /\ Fault("session")
    /\ pc[w] \in InTx /\ ~tx[w].lost
    /\ tx' = [tx EXCEPT ![w].lost = TRUE]
    /\ owner' = [owner EXCEPT ![Event(w)] = IF @ = w THEN NoOwner ELSE @]
    /\ UNCHANGED <<sub, pc, msg, table, effect, noted, calm>>

\* Any statement, or the commit, may fail: a timeout, a lock timeout while
\* waiting for the key; in a session that is lost each of them does.
StatementFails(w) ==
    /\ pc[w] \in {"insert", "inserting", "read", "failed", "mark", "commit"}
    /\ tx[w].lost \/ Fault("db")
    /\ Goto(w, "rollback")
    /\ UNCHANGED <<sub, msg, tx, table, owner, effect, noted, calm>>

\* Mutant: the error is logged and not returned.
RollbackSilent(w) ==
    /\ pc[w] = "rollback"
    /\ owner' = [owner EXCEPT ![Event(w)] = IF @ = w THEN NoOwner ELSE @]
    /\ tx' = [tx EXCEPT ![w] = NoTx]
    /\ Goto(w, "ack")
    /\ UNCHANGED <<sub, msg, table, effect, noted, calm>>

\* Mutant: the connection goes on without a ROLLBACK.
RollbackMissing(w) ==
    /\ pc[w] = "rollback"
    /\ Goto(w, "nack")
    /\ UNCHANGED <<sub, msg, tx, table, owner, effect, noted, calm>>

\* exec: the deferred Rollback; the error goes up and the message is nacked.
Rollback(w) ==
    /\ pc[w] = "rollback"
    /\ owner' = [owner EXCEPT ![Event(w)] = IF @ = w THEN NoOwner ELSE @]
    /\ tx' = [tx EXCEPT ![w] = NoTx]
    /\ Goto(w, "nack")
    /\ UNCHANGED <<sub, msg, table, effect, noted, calm>>

\* A process dies: the database rolls its transactions back and the broker
\* delivers its messages again.
Crash(p) ==
    /\ Fault("crash")
    /\ LET dead == {w \in Callbacks : Home[w] = p}
       IN  /\ pc' = [w \in Callbacks |-> IF w \in dead THEN "idle" ELSE pc[w]]
           /\ tx' = [w \in Callbacks |-> IF w \in dead THEN NoTx ELSE tx[w]]
           /\ msg' = [w \in Callbacks |-> IF w \in dead THEN NoMessage ELSE msg[w]]
           /\ owner' = [e \in Events |-> IF owner[e] \in dead THEN NoOwner ELSE owner[e]]
           /\ sub' = [m \in Messages |->
                        IF sub[m] = "leased" /\ \E w \in dead : msg[w] = m
                        THEN "queued" ELSE sub[m]]
    /\ UNCHANGED <<table, effect, noted, calm>>

\* From here on no transient fault happens.
Calm ==
    /\ ~calm
    /\ calm' = TRUE
    /\ UNCHANGED <<sub, pc, msg, tx, table, owner, effect, noted>>

-----------------------------------------------------------------------------

Init ==
    /\ sub = [m \in Messages |-> "queued"]
    /\ pc = [w \in Callbacks |-> "idle"]
    /\ msg = [w \in Callbacks |-> NoMessage]
    /\ tx = [w \in Callbacks |-> NoTx]
    /\ table = [e \in Events |-> NoRow]
    /\ owner = [e \in Events |-> NoOwner]
    /\ effect = [e \in Events |-> 0]
    /\ noted = {}
    /\ calm = FALSE

\* The steps a callback takes by itself once it has a message.
Step(w) ==
    \/ Enter(w) \/ Begin(w) \/ BeginFails(w)
    \/ Insert(w) \/ Inserted(w) \/ Conflicts(w) \/ Read(w)
    \/ HandleOk(w) \/ HandleFails(w) \/ HandlePanics(w)
    \/ RecordInboxError(w) \/ MarkInboxProcessed(w)
    \/ Commit(w) \/ CommitUnanswered(w) \/ StatementFails(w) \/ Rollback(w)
    \/ Answer(w) \/ AckLost(w)

Next ==
    \/ \E w \in Callbacks, m \in Messages : Deliver(w, m)
    \/ \E w \in Callbacks : Step(w) \/ SessionLost(w)
    \/ \E p \in Procs : Crash(p)
    \/ Calm

Spec == Init /\ [][Next]_vars

\* Callbacks go on, the channel behind the semaphore and the database's queue for
\* a key serve their waiters in order, faults end some time, and the broker
\* delivers a message it keeps being able to deliver, whatever other messages come
\* back to it.
Fairness ==
    /\ WF_vars(Calm)
    /\ \A w \in Callbacks : WF_vars(Step(w)) /\ SF_vars(Enter(w)) /\ SF_vars(Inserted(w))
    /\ \A m \in Messages : SF_vars(\E w \in Callbacks : Deliver(w, m))

FairSpec == Spec /\ Fairness

-----------------------------------------------------------------------------
(* Properties.                                                              *)

\* The variables have their types; a callback has a message while it is at work on
\* one, and nothing of a transaction outlives it.
TypeOK ==
    /\ sub \in [Messages -> SubState]
    /\ pc \in [Callbacks -> PC]
    /\ msg \in [Callbacks -> Messages \cup {NoMessage}]
    /\ tx \in [Callbacks -> TxType]
    /\ table \in [Events -> Row]
    /\ owner \in [Events -> Callbacks \cup {NoOwner}]
    /\ effect \in [Events -> Nat]
    /\ noted \subseteq Events
    /\ calm \in BOOLEAN
    /\ \A w \in Callbacks : pc[w] = "idle" <=> msg[w] = NoMessage
    /\ \A w \in Callbacks : pc[w] \notin InTx => tx[w] = NoTx

\* The effect of an event is committed once, with its processed_at, however its
\* messages are duplicated, redelivered and interleaved.
EffectOnce ==
    \A e \in Events : effect[e] = IF table[e].processed THEN 1 ELSE 0

\* No message is lost: an acknowledged message has had its effect.
AckedWasProcessed ==
    \A m \in Messages : sub[m] = "acked" =>
        EventOf[m] \in Events /\ table[EventOf[m]].processed

\* The uncommitted key of inbox_events is a lock on the handler: of the callbacks
\* in the handler of one event, in whichever process they run, at most one has a
\* session that can still commit.  A handler whose session the server has ended
\* runs on beside the next one; what it writes in the session is gone.
HandlersExclude ==
    \A v, w \in Callbacks :
        (/\ pc[v] \in {"handle", "failed", "mark"} /\ ~tx[v].lost
         /\ pc[w] \in {"handle", "failed", "mark"} /\ ~tx[w].lost
         /\ Event(v) = Event(w)) => v = w

\* A committed row is a processed one.  Were it not, its next two deliveries
\* could both find processed_at NULL and run the handler side by side.
CommittedIsProcessed == \A e \in Events : table[e].exists => table[e].processed

\* The store's test of a failure followed by a success (integration_test.go, "error
\* should still be recorded"): an event whose failure RecordInboxError has noted
\* still shows it once it is processed.
FailureStaysRecorded ==
    \A e \in Events : (e \in noted /\ table[e].processed) => table[e].error

\* A message that can be processed is acknowledged in the end, also next to
\* messages that never can be.
EventuallySettled ==
    \A m \in Messages :
        (EventOf[m] # NoEvent /\ m \notin Poison) => <>(sub[m] = "acked")

\* The consumer keeps the promise of the inbox.
Contract == INSTANCE InboxContract WITH
    effects <- effect,
    settled <- {m \in Messages : sub[m] = "acked"}

ImplementsInbox == Contract!InboxSpec

-----------------------------------------------------------------------------
(* The inductive invariant behind the safety properties.                    *)

\* The key of an uncommitted row belongs to the transaction that inserted it.
OwnerInserted ==
    \A e \in Events, w \in Callbacks : owner[e] = w =>
        /\ pc[w] \in {"read", "handle", "failed", "mark", "commit", "rollback"}
        /\ Event(w) = e
        /\ ~table[e].exists

\* A transaction that is past the insert has the key or finds the row committed,
\* as long as the server keeps its session.
KeyIsSettled ==
    \A w \in Callbacks : ~tx[w].lost =>
        /\ pc[w] = "read" => owner[Event(w)] = w \/ table[Event(w)].exists
        /\ pc[w] \in {"handle", "failed", "mark"} =>
               owner[Event(w)] = w /\ tx[w].row.exists

\* What a transaction is about to commit, and what it has committed.
CommitIsWhole ==
    \A w \in Callbacks :
        /\ tx[w].handled => pc[w] \in {"mark", "commit", "rollback"}
        /\ pc[w] = "mark" => tx[w].handled
        /\ (pc[w] = "commit" /\ ~tx[w].lost) =>
               \/ /\ owner[Event(w)] = w /\ tx[w].handled
                  /\ tx[w].row.exists /\ tx[w].row.processed
               \/ owner[Event(w)] # w /\ ~tx[w].handled /\ table[Event(w)].processed
        /\ pc[w] = "ack" => table[Event(w)].processed

\* Only messages with their attributes get past buildInboxMessage.
Identified ==
    \A w \in Callbacks : pc[w] \in InTx \cup {"begin", "ack"} => Event(w) \in Events

RowsAreProcessed == \A e \in Events : table[e].exists <=> table[e].processed

IInv ==
    /\ TypeOK
    /\ OwnerInserted
    /\ KeyIsSettled
    /\ CommitIsWhole
    /\ Identified
    /\ RowsAreProcessed
    /\ EffectOnce
    /\ AckedWasProcessed
=============================================================================
