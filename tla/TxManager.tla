------------------------------ MODULE TxManager ------------------------------
(***************************************************************************)
(* managerImpl.exec of txmanager/manager.go: calls of WithinTx over a pool  *)
(* of connections and over rows that their transactions lock.  The function *)
(* a call runs may call WithinTx again with its context: a nested call,     *)
(* which begins a transaction of its own on a connection of its own, to any  *)
(* depth.                                                                   *)
(***************************************************************************)
EXTENDS Integers, FiniteSets

CONSTANTS
    Calls,          \* calls of WithinTx
    NoCall,
    Parent,         \* the call whose function makes this one, or NoCall
    Keys,           \* rows the functions write
    NoKey,
    MaxConns,       \* size of the pool
    DefaultTimeout, \* of Config: a timeout that is not positive is not set
    LockTimeout,    \* of the options of each call, in microseconds
    Serializable,   \* calls whose isolation level can fail the transaction
    Faults          \* which of "db", "app", "panic" happen

ASSUME TxAssumption ==
    /\ NoCall \notin Calls /\ NoKey \notin Keys
    /\ Parent \in [Calls -> Calls \cup {NoCall}]
    /\ \A S \in SUBSET Calls : S # {} => \E c \in S : Parent[c] \notin S
    /\ MaxConns \in Nat \ {0}
    /\ DefaultTimeout \in Int /\ LockTimeout \in [Calls -> Nat]
    /\ Serializable \subseteq Calls
    /\ Faults \subseteq {"db", "app", "panic"}

VARIABLES
    at,        \* where each call is
    conn,      \* calls that hold a connection
    want,      \* the row a call waits for, or NoKey
    err,       \* the last error the function of a call has seen
    result,    \* what exec has decided to return
    expired,   \* calls whose context is past its deadline
    lock,      \* the call whose transaction has locked the row
    effect,    \* what has become of the transaction in the database
    active     \* the gauge db.tx.active

vars == <<at, conn, want, err, result, expired, lock, effect, active>>

Place  == {"none", "begin", "setup", "run", "wait", "inner", "commit", "rollback", "done"}
\* A SQLSTATE that exec classifies, the error of a COMMIT without an answer,
\* or any other one; a panic takes the same way.
Error  == {"none", "other", "lost", "55P03", "40P01", "40001", "panic"}
Result == {"none", "nil", "error", "lost", "retryable", "panic"}
\* "aborted": the server only accepts a rollback; "orphaned": its connection
\* has gone, the server has not noticed; "indoubt": so too, with a COMMIT sent.
Effect == {"none", "open", "aborted", "orphaned", "indoubt", "applied", "gone"}

Open(c) == at[c] \notin {"none", "done"}

Goto(c, p)  == at' = [at EXCEPT ![c] = p]
Unlocked(c) == [k \in Keys |-> IF lock[k] = c THEN NoCall ELSE lock[k]]

-----------------------------------------------------------------------------
(* Options and the classification of errors.                               *)

\* Mutant: a timeout of zero is left alone.
SanitizedTimeoutAsGiven == DefaultTimeout

\* Config.sanitized replaces a DefaultTimeout that is not positive by 3 s.
SanitizedTimeout == IF DefaultTimeout <= 0 THEN 3 ELSE DefaultTimeout

\* applyTimeout: the context of a call has a deadline.
HasDeadline == SanitizedTimeout > 0

\* The lock timeout is set in whole milliseconds, when there is one.
SetsLockTimeout(c) == LockTimeout[c] \div 1000 > 0

\* Mutant: a COMMIT without an answer may be retried.
RetryableLost(e) == e \in {"40001", "40P01", "55P03", "lost"}

\* classifyPgError: serialization failure, deadlock, lock not available.
Retryable(e) == e \in {"40001", "40P01", "55P03"}

Failure(e) == IF Retryable(e) THEN "retryable" ELSE "error"

\* recordEnd and the deferred rollback that follows it.
Fail(c, e, r) ==
    /\ Goto(c, "rollback")
    /\ err' = [err EXCEPT ![c] = e]
    /\ result' = [result EXCEPT ![c] = r]
    /\ active' = active - 1

\* Exec returns: a nested call gives its error to the function that made it.
Back(c, e) ==
    /\ at' = [d \in Calls |-> IF d = c THEN "done" ELSE IF d = Parent[c] THEN "run" ELSE at[d]]
    /\ err' = [d \in Calls |-> IF d = c THEN "none" ELSE IF d = Parent[c] THEN e ELSE err[d]]
    /\ conn' = conn \ {c}

-----------------------------------------------------------------------------
(* The beginning of a call.                                                *)

\* Mutant: recordStart is left out.
CallUnrecorded(c) ==
    /\ at[c] = "none"
    /\ Parent[c] # NoCall => at[Parent[c]] = "run" /\ err[Parent[c]] # "panic"
    /\ at' = [d \in Calls |-> IF d = c THEN "begin" ELSE IF d = Parent[c] THEN "inner" ELSE at[d]]
    /\ expired' = expired \cup {d \in {c} : Parent[d] \in expired}
    /\ UNCHANGED <<conn, want, err, result, lock, effect, active>>

\* The context of a nested call has the deadline of its parent, or a nearer one.
Call(c) ==
    /\ at[c] = "none"
    /\ Parent[c] # NoCall => at[Parent[c]] = "run" /\ err[Parent[c]] # "panic"
    /\ at' = [d \in Calls |-> IF d = c THEN "begin" ELSE IF d = Parent[c] THEN "inner" ELSE at[d]]
    /\ expired' = expired \cup {d \in {c} : Parent[d] \in expired}
    /\ active' = active + 1
    /\ UNCHANGED <<conn, want, err, result, lock, effect>>

\* pool.BeginTx waits for a free connection.
Begin(c) ==
    /\ at[c] = "begin" /\ c \notin expired
    /\ Cardinality(conn) < MaxConns
    /\ conn' = conn \cup {c}
    /\ effect' = [effect EXCEPT ![c] = "open"]
    /\ Goto(c, IF SetsLockTimeout(c) THEN "setup" ELSE "run")
    /\ UNCHANGED <<want, err, result, expired, lock, active>>

BeginFails(c) ==
    /\ at[c] = "begin"
    /\ c \in expired \/ "db" \in Faults
    /\ Back(c, "other")
    /\ result' = [result EXCEPT ![c] = "error"]
    /\ active' = active - 1
    /\ UNCHANGED <<want, expired, lock, effect>>

\* set local lock_timeout; its error is returned without being classified.
Setup(c) ==
    /\ at[c] = "setup" /\ c \notin expired
    /\ Goto(c, "run")
    /\ UNCHANGED <<conn, want, err, result, expired, lock, effect, active>>

SetupFails(c) ==
    /\ at[c] = "setup"
    /\ c \in expired \/ "db" \in Faults
    /\ Fail(c, "other", "error")
    /\ UNCHANGED <<conn, want, expired, lock, effect>>

-----------------------------------------------------------------------------
(* The statements of the function.                                         *)

Running(c) == at[c] = "run" /\ effect[c] = "open" /\ c \notin expired /\ err[c] # "panic"

Take(c, k) ==
    /\ Running(c) /\ lock[k] = NoCall
    /\ lock' = [lock EXCEPT ![k] = c]
    /\ UNCHANGED <<at, conn, want, err, result, expired, effect, active>>

Wait(c, k) ==
    /\ Running(c) /\ lock[k] \notin {NoCall, c}
    /\ want' = [want EXCEPT ![c] = k]
    /\ Goto(c, "wait")
    /\ UNCHANGED <<conn, err, result, expired, lock, effect, active>>

Granted(c) ==
    /\ at[c] = "wait" /\ c \notin expired
    /\ lock[want[c]] = NoCall
    /\ lock' = [lock EXCEPT ![want[c]] = c]
    /\ want' = [want EXCEPT ![c] = NoKey]
    /\ Goto(c, "run")
    /\ UNCHANGED <<conn, err, result, expired, effect, active>>

\* The server sees a cycle of waits, but not that a function waits for the
\* call it has made.
Waiting == {c \in Calls : at[c] = "wait"}
Deadlocked(c) == \E S \in SUBSET Waiting : c \in S /\ S = {lock[want[d]] : d \in S}

\* Why the statement a call waits in, or its next one, fails.
FailsWith(c, e) ==
    \/ e = "55P03" /\ at[c] = "wait" /\ SetsLockTimeout(c)
    \/ e = "40P01" /\ Deadlocked(c)
    \/ e = "40001" /\ c \in Serializable /\ effect[c] = "open"
    \/ e = "other" /\ (effect[c] = "aborted" \/ c \in expired \/ "db" \in Faults)

StatementFails(c, e) ==
    /\ at[c] \in {"run", "wait"} /\ err[c] # "panic"
    /\ FailsWith(c, e)
    /\ err' = [err EXCEPT ![c] = e]
    /\ effect' = [effect EXCEPT ![c] = "aborted"]
    /\ want' = [want EXCEPT ![c] = NoKey]
    /\ Goto(c, "run")
    /\ UNCHANGED <<conn, result, expired, lock, active>>

-----------------------------------------------------------------------------
(* The end of a call.                                                      *)

\* fn returns nil, perhaps after an error that it has not passed on.
ReturnsNil(c) ==
    /\ at[c] = "run" /\ err[c] # "panic"
    /\ Goto(c, "commit")
    /\ UNCHANGED <<conn, want, err, result, expired, lock, effect, active>>

\* fn returns an error: its own, or one of a statement or of a nested call,
\* which is classified through all its wrappings.
ReturnsError(c, e) ==
    /\ at[c] = "run" /\ err[c] # "panic"
    /\ \/ e = err[c] /\ e # "none"
       \/ e = "other" /\ "app" \in Faults
    /\ Fail(c, e, Failure(e))
    /\ UNCHANGED <<conn, want, expired, lock, effect>>

\* Mutant: the panic is passed on but the end of the call is not recorded.
PanicsUnrecorded(c) ==
    /\ at[c] = "run"
    /\ err[c] = "panic" \/ "panic" \in Faults
    /\ Goto(c, "rollback")
    /\ err' = [err EXCEPT ![c] = "panic"]
    /\ result' = [result EXCEPT ![c] = "panic"]
    /\ UNCHANGED <<conn, want, expired, lock, effect, active>>

\* fn panics, or lets the panic of a nested call pass.  It is recovered,
\* recorded and raised again; the deferred rollback runs meanwhile.
Panics(c) ==
    /\ at[c] = "run"
    /\ err[c] = "panic" \/ "panic" \in Faults
    /\ Fail(c, "panic", "panic")
    /\ UNCHANGED <<conn, want, expired, lock, effect>>

\* tx.Commit gives the connection back to the pool.
Commit(c) ==
    /\ at[c] = "commit" /\ effect[c] = "open" /\ c \notin expired
    /\ Back(c, "none")
    /\ result' = [result EXCEPT ![c] = "nil"]
    /\ effect' = [effect EXCEPT ![c] = "applied"]
    /\ lock' = Unlocked(c)
    /\ active' = active - 1
    /\ UNCHANGED <<want, expired>>

\* What the server made of a COMMIT that failed.  An aborted transaction
\* answers ROLLBACK; without an answer the connection is closed.
AfterCommit(c, e) ==
    IF e # "lost" THEN "gone" ELSE IF effect[c] = "open" THEN "indoubt" ELSE "orphaned"

CommitFailsWith(c, e) ==
    \/ e = "other" /\ effect[c] = "aborted" /\ c \notin expired
    \/ e = "40001" /\ effect[c] = "open" /\ c \in Serializable /\ c \notin expired
    \/ e = "lost"  /\ (c \in expired \/ "db" \in Faults)

\* Mutant: the error of tx.Commit is logged and not returned.
CommitFailsSilently(c, e) ==
    /\ at[c] = "commit" /\ CommitFailsWith(c, e)
    /\ Back(c, "none")
    /\ result' = [result EXCEPT ![c] = "nil"]
    /\ effect' = [effect EXCEPT ![c] = AfterCommit(c, e)]
    /\ lock' = IF e = "lost" THEN lock ELSE Unlocked(c)
    /\ active' = active - 1
    /\ UNCHANGED <<want, expired>>

\* The deferred rollback finds the transaction closed.
CommitFails(c, e) ==
    /\ at[c] = "commit" /\ CommitFailsWith(c, e)
    /\ Back(c, e)
    /\ result' = [result EXCEPT ![c] = IF e = "lost" /\ ~Retryable(e) THEN e ELSE Failure(e)]
    /\ effect' = [effect EXCEPT ![c] = AfterCommit(c, e)]
    /\ lock' = IF e = "lost" THEN lock ELSE Unlocked(c)
    /\ active' = active - 1
    /\ UNCHANGED <<want, expired>>

\* Mutant: exec returns without the deferred rollback.
RollbackForgotten(c) ==
    /\ at[c] = "rollback"
    /\ at' = [d \in Calls |-> IF d = c THEN "done" ELSE IF d = Parent[c] THEN "run" ELSE at[d]]
    /\ err' = [d \in Calls |-> IF d = c THEN "none" ELSE IF d = Parent[c] THEN err[c] ELSE err[d]]
    /\ UNCHANGED <<conn, want, result, expired, lock, effect, active>>

\* tx.Rollback has the context of the call.  When that has expired, or the
\* database does not answer, the connection is closed and thrown away.
Rollback(c) ==
    /\ at[c] = "rollback"
    /\ Back(c, err[c])
    /\ \/ /\ c \notin expired
          /\ effect' = [effect EXCEPT ![c] = "gone"]
          /\ lock' = Unlocked(c)
       \/ /\ c \in expired \/ "db" \in Faults
          /\ effect' = [effect EXCEPT ![c] = "orphaned"]
          /\ UNCHANGED lock
    /\ UNCHANGED <<want, result, expired, active>>

-----------------------------------------------------------------------------
(* Time and the server.                                                    *)

\* A call with those that are nested in it, at any depth.
Nested ==
    [c \in Calls |-> {d \in Calls : \A S \in SUBSET Calls :
        c \in S /\ (\A e \in Calls : Parent[e] \in S => e \in S) => d \in S}]

\* The deadline of a call passes, and with it that of the calls nested in it.
Expire(c) ==
    /\ HasDeadline /\ Open(c) /\ c \notin expired
    /\ expired' = expired \cup {d \in Nested[c] : Open(d)}
    /\ UNCHANGED <<at, conn, want, err, result, lock, effect, active>>

\* The server ends a transaction whose connection has gone.
Resolve(c) ==
    /\ effect[c] \in {"orphaned", "indoubt"}
    /\ \E f \in {"gone"} \cup {g \in {"applied"} : effect[c] = "indoubt"} :
          effect' = [effect EXCEPT ![c] = f]
    /\ lock' = Unlocked(c)
    /\ UNCHANGED <<at, conn, want, err, result, expired, active>>

-----------------------------------------------------------------------------
Init ==
    /\ at = [c \in Calls |-> "none"]
    /\ conn = {}
    /\ want = [c \in Calls |-> NoKey]
    /\ err = [c \in Calls |-> "none"]
    /\ result = [c \in Calls |-> "none"]
    /\ expired = {}
    /\ lock = [k \in Keys |-> NoCall]
    /\ effect = [c \in Calls |-> "none"]
    /\ active = 0

\* What the goroutine of a call does once it has called.
Step(c) ==
    \/ Begin(c) \/ BeginFails(c) \/ Setup(c) \/ SetupFails(c)
    \/ \E k \in Keys : Take(c, k) \/ Wait(c, k)
    \/ Granted(c)
    \/ \E e \in Error : StatementFails(c, e)
    \/ ReturnsNil(c)
    \/ \E e \in Error : ReturnsError(c, e)
    \/ Panics(c)
    \/ Commit(c)
    \/ \E e \in Error : CommitFails(c, e)
    \/ Rollback(c)

Next == \E c \in Calls : Call(c) \/ Step(c) \/ Expire(c) \/ Resolve(c)

Spec == Init /\ [][Next]_vars

\* A call that waits for another one to give up a connection or a row.
Blocked(c) ==
    /\ c \notin expired
    /\ \/ at[c] = "begin" /\ Cardinality(conn) >= MaxConns
       \/ at[c] = "wait" /\ lock[want[c]] # NoCall /\ ~SetsLockTimeout(c) /\ ~Deadlocked(c)

\* Goroutines that are not blocked run, functions return, clocks advance and
\* the server notices that a connection has gone.  No fault has to happen.
FairSpec ==
    /\ Spec
    /\ \A c \in Calls : WF_vars(~Blocked(c) /\ Step(c)) /\ WF_vars(Expire(c)) /\ WF_vars(Resolve(c))

-----------------------------------------------------------------------------
(* Properties.                                                             *)

TypeOK ==
    /\ at \in [Calls -> Place]
    /\ conn \subseteq Calls /\ Cardinality(conn) <= MaxConns
    /\ want \in [Calls -> Keys \cup {NoKey}]
    /\ err \in [Calls -> Error]
    /\ result \in [Calls -> Result]
    /\ expired \subseteq Calls
    /\ lock \in [Keys -> Calls \cup {NoCall}]
    /\ effect \in [Calls -> Effect]
    /\ active \in Nat

\* What exec returns (manager.go:142-176) tells what happened: after nil the
\* transaction is applied; after an error or a panic it is not and will not
\* be, unless the answer to the COMMIT was lost.
OutcomeIsTruthful ==
    \A c \in Calls :
        /\ result[c] = "nil" => effect[c] = "applied"
        /\ result[c] \in {"error", "panic"} => effect[c] \notin {"applied", "indoubt"}

\* An error for which IsRetryable holds (errors.go:21-42) never hides a
\* transaction that is, or may yet be, applied: the caller may do it again.
RetryIsSafe ==
    \A c \in Calls : result[c] = "retryable" => effect[c] \notin {"applied", "indoubt"}

\* A call that has returned, in whatever way, holds no connection, and no row
\* except through a transaction that the server has yet to end
\* (manager.go:106-112).
NothingLeaks ==
    /\ \A c \in conn : Open(c)
    /\ \A k \in Keys : lock[k] # NoCall =>
          \/ lock[k] \in conn
          \/ effect[lock[k]] \in {"orphaned", "indoubt"}

\* The gauge counts the calls between their start and their end on every
\* path, panics included (metrics.go:49-77).
ActiveIsExact == active = Cardinality({c \in Calls : Open(c) /\ at[c] # "rollback"})

\* Whatever the calls wait for, the pool, a row, each other, they return, and
\* give back every connection and every row.
EverythingIsReturned ==
    <>[](/\ \A c \in Calls : ~Open(c)
         /\ conn = {} /\ \A k \in Keys : lock[k] = NoCall)

\* What the design (txmanager-design.md:191, 249) promises: a call whose error
\* is retryable has left nothing behind, since there are no nested calls.
RetryRepeatsNothing ==
    \A c \in Calls : Parent[c] # NoCall /\ result[Parent[c]] = "retryable" =>
        effect[c] # "applied"
=============================================================================
