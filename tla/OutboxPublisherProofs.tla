------------------------ MODULE OutboxPublisherProofs ------------------------
(***************************************************************************)
(* What holds of OutboxPublisher for any number of events and instances and *)
(* every configuration.                                                     *)
(***************************************************************************)
EXTENDS OutboxPublisher, BackoffProofs, FiniteSetTheorems

-----------------------------------------------------------------------------
(* Types.                                                                   *)

LEMMA TokenType ==
    ASSUME inc \in [Procs -> Nat], NEW p \in Procs
    PROVE  Token(p) \in Procs \X Nat /\ Token(p) # NoToken
BY TokenAssumption DEF Token

\* The statements keep the type of a row.
LEMMA RowOperations ==
    ASSUME NEW r \in RowType, NEW t \in Procs \X Nat, NEW next \in Int
    PROVE  /\ Marked(r, t) \in RowType
           /\ Rescheduled(r, t, next) \in RowType
<1>1. Marked(r, t) \in RowType
  <2>1. r.attempts + 1 \in Nat /\ "published" \in RowState
    BY DEF RowType, RowState
  <2>2. [r EXCEPT !.state = "published", !.attempts = r.attempts + 1,
                  !.token = NoToken, !.lockedFor = 0] \in RowType
    BY <2>1 DEF RowType
  <2> QED
    BY <2>2 DEF Marked
<1>2. Rescheduled(r, t, next) \in RowType
  <2>1. r.attempts + 1 \in Nat
    BY DEF RowType
  <2>2. [r EXCEPT !.attempts = r.attempts + 1, !.availableIn = next,
                  !.token = NoToken, !.lockedFor = 0] \in RowType
    BY <2>1 DEF RowType
  <2> QED
    BY <2>2 DEF Rescheduled
<1> QED
  BY <1>1, <1>2

LEMMA OlderType == ASSUME NEW r \in RowType PROVE Older(r) \in RowType
<1>1. Greater(r.availableIn - 1, -MaxSkew) \in Int
  BY ClockAssumption DEF Greater, RowType
<1>2. Lesser(r.lockedFor + 1, LockTTL + MaxSkew) \in Nat
  BY ClockAssumption, ConfigAssumption DEF Lesser, RowType
<1> QED
  BY <1>1, <1>2 DEF Older, RowType, RowState

LEMMA NextAvailableType ==
    ASSUME TypeOK, NEW p \in Procs, NEW e \in Events
    PROVE  NextAvailable(p, e) \in Int
<1>1. work[p][e].attempts \in Int
  BY DEF TypeOK, WorkType
<1>2. BackoffDuration(InitialBackoff, MaxBackoff, work[p][e].attempts) \in 1..MaxBackoff
  BY <1>1, ConfigAssumption, BackoffBounded
<1>3. Skew[p] \in Int
  BY ClockAssumption
<1> QED
  BY <1>2, <1>3, ConfigAssumption DEF NextAvailable

LEMMA NoWorkType == NoWork \in WorkType
BY DEF NoWork, WorkType, Stage

\* A worker that moves to another stage, or is done, keeps the type of work.
LEMMA WorkOperations ==
    ASSUME TypeOK, NEW p \in Procs, NEW e \in Events, NEW stage \in Stage
    PROVE  /\ SetStage(p, e, stage) => work' \in [Procs -> [Events -> WorkType]]
           /\ Done(p, e) => work' \in [Procs -> [Events -> WorkType]]
<1>1. work[p] \in [Events -> WorkType] /\ work[p][e] \in WorkType
  BY DEF TypeOK
<1>2. [work[p][e] EXCEPT !.stage = stage] \in WorkType
  BY <1>1 DEF WorkType
<1>3. /\ [work[p] EXCEPT ![e] = [work[p][e] EXCEPT !.stage = stage]]
            \in [Events -> WorkType]
      /\ [work[p] EXCEPT ![e] = NoWork] \in [Events -> WorkType]
  BY <1>1, <1>2, NoWorkType
<1>4. SetStage(p, e, stage) => work' \in [Procs -> [Events -> WorkType]]
  BY <1>3 DEF TypeOK, SetStage
<1>5. Done(p, e) => work' \in [Procs -> [Events -> WorkType]]
  BY <1>3 DEF TypeOK, Done
<1> QED
  BY <1>4, <1>5

LEMMA RecordedType ==
    ASSUME TypeOK, NEW p \in Procs, NEW e \in Events
    PROVE  /\ [row EXCEPT ![e] = Marked(@, Token(p))] \in [Events -> RowType]
           /\ [row EXCEPT ![e] = Rescheduled(@, Token(p), NextAvailable(p, e))]
                 \in [Events -> RowType]
<1>1. Token(p) \in Procs \X Nat
  BY TokenType DEF TypeOK
<1>2. row[e] \in RowType
  BY DEF TypeOK
<1>3. NextAvailable(p, e) \in Int
  BY NextAvailableType
<1>4. /\ Marked(row[e], Token(p)) \in RowType
      /\ Rescheduled(row[e], Token(p), NextAvailable(p, e)) \in RowType
  BY <1>1, <1>2, <1>3, RowOperations
<1> QED
  BY <1>4 DEF TypeOK

LEMMA LockType ==
    ASSUME TypeOK, NEW p \in Procs, NEW S \in SUBSET Events
    PROVE  Lock(S, p) \in [Events -> RowType]
<1>1. Token(p) \in Procs \X Nat
  BY TokenType DEF TypeOK
<1>2. ASSUME NEW r \in RowType, NEW t \in Procs \X Nat
      PROVE  [r EXCEPT !.token = t, !.lockedFor = 0] \in RowType
  BY DEF RowType
<1>3. \A e \in Events : row[e] \in RowType
  BY DEF TypeOK
<1>4. \A e \in Events :
        [row[e] EXCEPT !.token = Token(p), !.lockedFor = 0] \in RowType
  BY <1>1, <1>2, <1>3
<1> QED
  BY <1>3, <1>4 DEF Lock

LEMMA BatchesClaimable ==
    ASSUME NEW p \in Procs, NEW S \in Batches(p)
    PROVE  S \subseteq Claimable(p) /\ S \subseteq Events
BY DEF Batches, Claimable

LEMMA InitType == Init => TypeOK
<1> SUFFICES ASSUME Init PROVE TypeOK
  OBVIOUS
<1>1. NoRow \in RowType
  BY DEF NoRow, RowType, RowState
<1> QED
  BY <1>1, NoWorkType DEF Init, TypeOK, Status

LEMMA DeliveredType ==
    ASSUME NEW n \in Nat
    PROVE  Lesser(n + 1, DeliveryCap) \in Nat
BY BoundAssumption DEF Lesser

LEMMA TypeStep == TypeOK /\ [Next]_vars => TypeOK'
<1> SUFFICES ASSUME TypeOK, [Next]_vars PROVE TypeOK'
  OBVIOUS
<1>1. ASSUME NEW e \in Events, NEW d \in EnqueueDelays, Enqueue(e, d)
      PROVE  TypeOK'
  <2>1. [NoRow EXCEPT !.state = "pending", !.availableIn = d] \in RowType
    BY ClockAssumption DEF NoRow, RowType, RowState
  <2> QED
    BY <1>1, <2>1 DEF Enqueue, TypeOK
<1>2. ASSUME NEW p \in Procs, Claim(p) PROVE TypeOK'
  <2>1. PICK S \in Batches(p) :
          /\ row' = Lock(S, p)
          /\ work' = [work EXCEPT ![p] =
                [e \in Events |->
                    IF e \in S THEN [stage |-> "claimed", timer |-> 0,
                                     attempts |-> row[e].attempts]
                               ELSE NoWork]]
    BY <1>2 DEF Claim
  <2>2. row' \in [Events -> RowType]
    BY <2>1, BatchesClaimable, LockType
  <2>3. ASSUME NEW e \in Events
        PROVE  [stage |-> "claimed", timer |-> 0, attempts |-> row[e].attempts]
                  \in WorkType
    BY DEF TypeOK, RowType, WorkType, Stage
  <2>4. work' \in [Procs -> [Events -> WorkType]]
    BY <2>1, <2>3, NoWorkType DEF TypeOK
  <2> QED
    BY <1>2, <2>2, <2>4 DEF Claim, TypeOK, Status
<1>3. ASSUME NEW p \in Procs, ClaimUnanswered(p) PROVE TypeOK'
  <2>1. row' \in [Events -> RowType]
    BY <1>3, BatchesClaimable, LockType DEF ClaimUnanswered
  <2> QED
    BY <1>3, <2>1 DEF ClaimUnanswered, TypeOK
<1>4. ASSUME NEW p \in Procs, Finish(p) PROVE TypeOK'
  BY <1>4, NoWorkType DEF Finish, TypeOK, Status
<1>5. ASSUME NEW p \in Procs, NEW e \in Events, WorkerStep(p, e) PROVE TypeOK'
  <2> "sending" \in Stage /\ "acked" \in Stage /\ "sent" \in Stage /\ "failed" \in Stage
    BY DEF Stage
  <2>1. CASE Start(p, e)
    BY <2>1, WorkOperations DEF Start, TypeOK
  <2>2. CASE Accept(p, e)
    BY <2>2, WorkOperations, DeliveredType DEF Accept, TypeOK
  <2>3. CASE PublishOk(p, e)
    BY <2>3, WorkOperations DEF PublishOk, TypeOK
  <2>4. CASE PublishFails(p, e)
    BY <2>4, WorkOperations DEF PublishFails, TypeOK
  <2>5. CASE MarkPublished(p, e)
    BY <2>5, WorkOperations, RecordedType DEF MarkPublished, TypeOK
  <2>6. CASE Reschedule(p, e)
    BY <2>6, WorkOperations, RecordedType DEF Reschedule, TypeOK
  <2>7. CASE DbFails(p, e)
    <3>1. row' \in [Events -> RowType]
      BY <2>7, RecordedType DEF DbFails, TypeOK
    <3>2. work' \in [Procs -> [Events -> WorkType]]
      BY <2>7, WorkOperations DEF DbFails
    <3> QED
      BY <2>7, <3>1, <3>2 DEF DbFails, TypeOK
  <2> QED
    BY <1>5, <2>1, <2>2, <2>3, <2>4, <2>5, <2>6, <2>7 DEF WorkerStep
<1>6. ASSUME NEW p \in Procs, Cancel(p) \/ Restart(p) PROVE TypeOK'
  <2>1. CASE Cancel(p)
    BY <2>1 DEF Cancel, TypeOK, Status
  <2>2. CASE Restart(p)
    <3>1. inc' \in [Procs -> Nat]
      BY <2>2 DEF Restart, TypeOK
    <3>2. status' \in [Procs -> Status]
      BY <2>2 DEF Restart, TypeOK, Status
    <3> QED
      BY <2>2, <3>1, <3>2 DEF Restart, TypeOK
  <2> QED
    BY <1>6, <2>1, <2>2
<1>7. ASSUME NEW p \in Procs, Crash(p) PROVE TypeOK'
  <2>1. late' \in [Events -> Nat]
    BY <1>7 DEF Crash, TypeOK
  <2> QED
    BY <1>7, <2>1, NoWorkType DEF Crash, TypeOK, Status
<1>8. ASSUME NEW e \in Events, LateDelivery(e) PROVE TypeOK'
  BY <1>8, DeliveredType DEF LateDelivery, TypeOK
<1>9. CASE Tick
  <2>1. ASSUME NEW p \in Procs, NEW e \in Events
        PROVE  [work[p][e] EXCEPT !.timer = @ + 1] \in WorkType
    <3>1. work[p][e] \in WorkType
      BY DEF TypeOK
    <3>2. work[p][e].timer + 1 \in Nat
      BY <3>1 DEF WorkType
    <3> QED
      BY <3>1, <3>2 DEF WorkType
  <2>2. ASSUME NEW e \in Events PROVE Older(row[e]) \in RowType
    BY OlderType DEF TypeOK
  <2>3. row' \in [Events -> RowType]
    BY <1>9, <2>2 DEF Tick
  <2>4. work' \in [Procs -> [Events -> WorkType]]
    BY <1>9, <2>1 DEF Tick, TypeOK
  <2> QED
    BY <1>9, <2>3, <2>4 DEF Tick, TypeOK
<1>10. CASE UNCHANGED vars
  BY <1>10 DEF vars, TypeOK
<1> QED
  BY <1>1, <1>2, <1>3, <1>4, <1>5, <1>6, <1>7, <1>8, <1>9, <1>10 DEF Next

\* Rows, copies and counters keep their types in every reachable state.
THEOREM TypeCorrect == Spec => []TypeOK
BY InitType, TypeStep, PTL DEF Spec

-----------------------------------------------------------------------------
(* The inductive invariant.                                                 *)

LEMMA InitIInv == Init => IInv
<1> SUFFICES ASSUME Init PROVE IInv
  OBVIOUS
<1>1. TypeOK
  BY InitType
<1>2. /\ \A e \in Events : row[e] = NoRow /\ late[e] = 0
      /\ \A p \in Procs, e \in Events : work[p][e].stage = "none"
  BY DEF Init, NoWork
<1>3. NoRow.state = "none"
  BY DEF NoRow
<1> QED
  BY <1>1, <1>2, <1>3
     DEF IInv, AbsentLeavesNoTrace, PublishedIsUnlocked, AnsweredWasDelivered,
         OnlyDrainsHaveCopies, PublishedWasDelivered, HolderCopyIsCurrent

\* One worker moves: every other copy stays as it is.
LEMMA StageEffect ==
    ASSUME TypeOK, NEW p \in Procs, NEW e \in Events, NEW stage,
           SetStage(p, e, stage),
           NEW q \in Procs, NEW f \in Events
    PROVE  /\ work'[q][f].stage = IF q = p /\ f = e THEN stage ELSE work[q][f].stage
           /\ work'[q][f].attempts = work[q][f].attempts
<1>1. work[p][e] \in WorkType
  BY DEF TypeOK
<1>2. work'[p][e] = [work[p][e] EXCEPT !.stage = stage]
  BY DEF TypeOK, SetStage
<1>3. work'[p][e].stage = stage /\ work'[p][e].attempts = work[p][e].attempts
  BY <1>1, <1>2 DEF WorkType
<1>4. ~(q = p /\ f = e) => work'[q][f] = work[q][f]
  BY DEF TypeOK, SetStage
<1> QED
  BY <1>3, <1>4

LEMMA DoneEffect ==
    ASSUME TypeOK, NEW p \in Procs, NEW e \in Events, Done(p, e),
           NEW q \in Procs, NEW f \in Events
    PROVE  /\ q = p /\ f = e => work'[q][f].stage = "none"
           /\ ~(q = p /\ f = e) => work'[q][f] = work[q][f]
<1>1. work'[p][e] = NoWork
  BY DEF TypeOK, Done
<1>2. ~(q = p /\ f = e) => work'[q][f] = work[q][f]
  BY DEF TypeOK, Done
<1> QED
  BY <1>1, <1>2 DEF NoWork

\* A result is written by one instance under its own lease: either nothing
\* changes, or one locked row becomes unlocked with one more attempt.
Recorded(p, e) ==
    \/ row' = row
    \/ row' = [row EXCEPT ![e] = Marked(@, Token(p))]
    \/ row' = [row EXCEPT ![e] = Rescheduled(@, Token(p), NextAvailable(p, e))]

LEMMA RecordedEffect ==
    ASSUME TypeOK, NEW p \in Procs, NEW e \in Events, Recorded(p, e)
    PROVE  /\ \A f \in Events : f # e => row'[f] = row[f]
           /\ \/ row'[e] = row[e]
              \/ /\ row[e].token = Token(p) /\ row'[e].token = NoToken
                 /\ row'[e].attempts = row[e].attempts + 1
                 /\ row'[e].state \in {row[e].state, "published"}
<1>1. row[e] \in RowType
  BY DEF TypeOK
<1>2. Marked(row[e], Token(p)) = row[e] \/
        /\ row[e].token = Token(p) /\ Marked(row[e], Token(p)).token = NoToken
        /\ Marked(row[e], Token(p)).attempts = row[e].attempts + 1
        /\ Marked(row[e], Token(p)).state = "published"
  BY <1>1 DEF Marked, RowType
<1> DEFINE r == Rescheduled(row[e], Token(p), NextAvailable(p, e))
<1>3. r = row[e] \/
        /\ row[e].token = Token(p) /\ r.token = NoToken
        /\ r.attempts = row[e].attempts + 1
        /\ r.state = row[e].state
  BY <1>1 DEF Rescheduled, RowType
<1> QED
  BY <1>2, <1>3 DEF Recorded, TypeOK

LEMMA LockEffect ==
    ASSUME TypeOK, NEW p \in Procs, NEW S \in SUBSET Events, row' = Lock(S, p),
           NEW e \in Events
    PROVE  /\ row'[e].state = row[e].state /\ row'[e].attempts = row[e].attempts
           /\ e \in S => row'[e].token = Token(p)
           /\ e \notin S => row'[e] = row[e]
<1>1. row[e] \in RowType
  BY DEF TypeOK
<1> QED
  BY <1>1 DEF Lock, RowType

\* A worker takes its event one stage further.
LEMMA StageStep ==
    ASSUME IInv, TypeOK', NEW p \in Procs, NEW e \in Events, NEW stage,
           SetStage(p, e, stage), work[p][e].stage # "none",
           UNCHANGED <<row, status, inc>>,
           stage \in {"acked", "sent"} => delivered'[e] >= 1,
           \A f \in Events : delivered[f] >= 1 => delivered'[f] >= 1,
           \A f \in Events \ {e} : late'[f] = late[f]
    PROVE  IInv'
<1> USE DEF IInv
<1>1. \A q \in Procs, f \in Events :
          /\ work'[q][f].stage = IF q = p /\ f = e THEN stage ELSE work[q][f].stage
          /\ work'[q][f].attempts = work[q][f].attempts
  BY StageEffect
<1>2. row[e].state # "none" /\ Active(p)
  BY DEF AbsentLeavesNoTrace, OnlyDrainsHaveCopies
<1>3. AbsentLeavesNoTrace'
  BY <1>1, <1>2 DEF AbsentLeavesNoTrace
<1>4. PublishedIsUnlocked' /\ PublishedWasDelivered'
  BY DEF PublishedIsUnlocked, PublishedWasDelivered
<1>5. AnsweredWasDelivered'
  BY <1>1 DEF AnsweredWasDelivered
<1>6. OnlyDrainsHaveCopies'
  BY <1>1, <1>2 DEF OnlyDrainsHaveCopies, Active
<1>7. HolderCopyIsCurrent'
  BY <1>1 DEF HolderCopyIsCurrent, Token
<1> QED
  BY <1>3, <1>4, <1>5, <1>6, <1>7

\* A worker ends its event, with or without an effect on the row.
LEMMA RecordStep ==
    ASSUME IInv, TypeOK', NEW p \in Procs, NEW e \in Events,
           Recorded(p, e), Done(p, e), work[p][e].stage # "none",
           UNCHANGED <<status, inc, delivered, late>>,
           row'[e].state = "published" => delivered[e] >= 1
    PROVE  IInv'
<1> USE DEF IInv
<1>1. \A q \in Procs, f \in Events :
          /\ q = p /\ f = e => work'[q][f].stage = "none"
          /\ ~(q = p /\ f = e) => work'[q][f] = work[q][f]
  BY DoneEffect
<1>2. /\ \A f \in Events : f # e => row'[f] = row[f]
      /\ \/ row'[e] = row[e]
         \/ /\ row[e].token = Token(p) /\ row'[e].token = NoToken
            /\ row'[e].attempts = row[e].attempts + 1
            /\ row'[e].state \in {row[e].state, "published"}
  BY RecordedEffect
<1>3. row[e].state # "none" /\ row'[e].state # "none"
  BY <1>2 DEF AbsentLeavesNoTrace
<1>4. AbsentLeavesNoTrace'
  BY <1>1, <1>2, <1>3 DEF AbsentLeavesNoTrace
<1>5. PublishedIsUnlocked'
  BY <1>2 DEF PublishedIsUnlocked
<1>6. PublishedWasDelivered'
  BY <1>2 DEF PublishedWasDelivered
<1>7. AnsweredWasDelivered' /\ OnlyDrainsHaveCopies'
  BY <1>1 DEF AnsweredWasDelivered, OnlyDrainsHaveCopies, Active
<1>8. HolderCopyIsCurrent'
  <2> SUFFICES ASSUME NEW q \in Procs, NEW f \in Events,
                      work'[q][f].stage # "none", row'[f].token = Token(q)
               PROVE  row'[f].state = "pending" /\ row'[f].attempts = work'[q][f].attempts
    BY DEF HolderCopyIsCurrent, Token
  <2>1. work'[q][f] = work[q][f]
    BY <1>1
  <2>2. Token(q) # NoToken
    BY TokenType DEF TypeOK
  <2>3. row'[f] = row[f]
    BY <1>2, <2>2
  <2> QED
    BY <2>1, <2>3 DEF HolderCopyIsCurrent
<1> QED
  BY <1>4, <1>5, <1>6, <1>7, <1>8

\* Instance p locks the rows of S and gets copies of them, or nothing.
LEMMA ClaimStep ==
    ASSUME IInv, TypeOK', NEW p \in Procs, NEW S \in Batches(p),
           row' = Lock(S, p), ~Active(p),
           UNCHANGED <<inc, delivered, late>>,
           \A q \in Procs \ {p} : status'[q] = status[q] /\ work'[q] = work[q],
           \A f \in Events : work'[p][f].stage # "none" =>
               /\ f \in S /\ Active(p)'
               /\ work'[p][f].stage = "claimed"
               /\ work'[p][f].attempts = row[f].attempts
    PROVE  IInv'
<1> USE DEF IInv
<1>1. S \subseteq Events /\ \A f \in S : row[f].state = "pending"
  BY BatchesClaimable DEF Claimable
<1>2. \A f \in Events :
          /\ row'[f].state = row[f].state /\ row'[f].attempts = row[f].attempts
          /\ f \in S => row'[f].token = Token(p)
          /\ f \notin S => row'[f] = row[f]
  BY <1>1, LockEffect
<1>3. AbsentLeavesNoTrace'
  <2> SUFFICES ASSUME NEW f \in Events, row'[f].state = "none"
               PROVE  /\ row'[f] = NoRow /\ late'[f] = 0
                      /\ \A q \in Procs : work'[q][f].stage = "none"
    BY DEF AbsentLeavesNoTrace
  <2>1. f \notin S /\ row'[f] = row[f]
    BY <1>1, <1>2
  <2>2. \A q \in Procs : work'[q][f].stage = "none"
    BY <2>1 DEF AbsentLeavesNoTrace
  <2> QED
    BY <2>1, <2>2 DEF AbsentLeavesNoTrace
<1>4. PublishedIsUnlocked' /\ PublishedWasDelivered'
  BY <1>1, <1>2 DEF PublishedIsUnlocked, PublishedWasDelivered
<1>5. AnsweredWasDelivered'
  BY DEF AnsweredWasDelivered
<1>6. OnlyDrainsHaveCopies'
  BY DEF OnlyDrainsHaveCopies, Active
<1>7. HolderCopyIsCurrent'
  <2> SUFFICES ASSUME NEW q \in Procs, NEW f \in Events,
                      work'[q][f].stage # "none", row'[f].token = Token(q)
               PROVE  row'[f].state = "pending" /\ row'[f].attempts = work'[q][f].attempts
    BY DEF HolderCopyIsCurrent, Token
  <2>1. CASE q = p
    BY <2>1, <1>1, <1>2
  <2>2. CASE q # p
    <3>1. Token(q) # Token(p)
      BY <2>2 DEF Token
    <3>2. row'[f] = row[f] /\ work'[q][f] = work[q][f]
      BY <1>2, <2>2, <3>1
    <3> QED
      BY <3>2 DEF HolderCopyIsCurrent
  <2> QED
    BY <2>1, <2>2
<1> QED
  BY <1>3, <1>4, <1>5, <1>6, <1>7

LEMMA IInvStep == IInv /\ [Next]_vars => IInv'
<1> SUFFICES ASSUME IInv, [Next]_vars PROVE IInv'
  OBVIOUS
<1> USE DEF IInv
<1>0. TypeOK'
  BY TypeStep
<1>1. ASSUME NEW e \in Events, NEW d \in EnqueueDelays, Enqueue(e, d)
      PROVE  IInv'
  <2>1. /\ row'[e].state = "pending" /\ row'[e].token = NoToken
        /\ \A f \in Events : f # e => row'[f] = row[f]
    BY <1>1 DEF Enqueue, NoRow, TypeOK
  <2>2. \A p \in Procs : work[p][e].stage = "none"
    BY <1>1 DEF Enqueue, AbsentLeavesNoTrace
  <2>3. AbsentLeavesNoTrace' /\ PublishedIsUnlocked' /\ PublishedWasDelivered'
    BY <1>1, <2>1 DEF Enqueue, AbsentLeavesNoTrace, PublishedIsUnlocked,
                      PublishedWasDelivered
  <2>4. AnsweredWasDelivered' /\ OnlyDrainsHaveCopies'
    BY <1>1 DEF Enqueue, AnsweredWasDelivered, OnlyDrainsHaveCopies, Active
  <2>5. HolderCopyIsCurrent'
    BY <1>1, <2>1, <2>2 DEF Enqueue, HolderCopyIsCurrent, Token
  <2> QED
    BY <1>0, <2>3, <2>4, <2>5
<1>2. ASSUME NEW p \in Procs, Claim(p) PROVE IInv'
  <2>1. PICK S \in Batches(p) :
          /\ row' = Lock(S, p)
          /\ work' = [work EXCEPT ![p] =
                [e \in Events |->
                    IF e \in S THEN [stage |-> "claimed", timer |-> 0,
                                     attempts |-> row[e].attempts]
                               ELSE NoWork]]
    BY <1>2 DEF Claim
  <2>2. /\ ~Active(p) /\ Active(p)'
        /\ \A q \in Procs \ {p} : status'[q] = status[q] /\ work'[q] = work[q]
    BY <1>2, <2>1 DEF Claim, Active, TypeOK
  <2>3. ASSUME NEW f \in Events, work'[p][f].stage # "none"
        PROVE  /\ f \in S /\ work'[p][f].stage = "claimed"
               /\ work'[p][f].attempts = row[f].attempts
    BY <2>1, <2>3 DEF TypeOK, NoWork
  <2>4. UNCHANGED <<inc, delivered, late>>
    BY <1>2 DEF Claim
  <2> QED
    BY <1>0, <2>1, <2>2, <2>3, <2>4, ClaimStep
<1>3. ASSUME NEW p \in Procs, ClaimUnanswered(p) PROVE IInv'
  <2>1. PICK S \in Batches(p) : row' = Lock(S, p)
    BY <1>3 DEF ClaimUnanswered
  <2>2. ~Active(p) /\ UNCHANGED <<status, inc, work, delivered, late>>
    BY <1>3 DEF ClaimUnanswered, Active
  <2>3. \A f \in Events : work'[p][f].stage = "none"
    BY <2>2 DEF OnlyDrainsHaveCopies
  <2> QED
    BY <1>0, <2>1, <2>2, <2>3, ClaimStep
<1>4. ASSUME NEW p \in Procs, NEW e \in Events, WorkerStep(p, e) PROVE IInv'
  <2>1. CASE Start(p, e)
    BY <2>1, <1>0, StageStep DEF Start
  <2>2. CASE Accept(p, e)
    <3>1. /\ delivered'[e] >= 1
          /\ \A f \in Events : delivered[f] >= 1 => delivered'[f] >= 1
      BY <2>2, BoundAssumption DEF Accept, Lesser, TypeOK
    <3> QED
      BY <2>2, <3>1, <1>0, StageStep DEF Accept
  <2>3. CASE PublishOk(p, e)
    <3>1. delivered'[e] >= 1
      BY <2>3 DEF PublishOk, AnsweredWasDelivered
    <3> QED
      BY <2>3, <3>1, <1>0, StageStep DEF PublishOk
  <2>4. CASE PublishFails(p, e)
    <3>1. \A f \in Events \ {e} : late'[f] = late[f]
      BY <2>4 DEF PublishFails, TypeOK
    <3> QED
      BY <2>4, <3>1, <1>0, StageStep DEF PublishFails
  <2>6. ASSUME work[p][e].stage = "sent" \/ row'[e].state = row[e].state
        PROVE  row'[e].state = "published" => delivered[e] >= 1
    BY <2>6 DEF AnsweredWasDelivered, PublishedWasDelivered
  <2>7. row' = [row EXCEPT ![e] = Rescheduled(@, Token(p), NextAvailable(p, e))]
           => row'[e].state = row[e].state
    BY DEF Rescheduled, TypeOK, RowType
  <2>8. CASE MarkPublished(p, e)
    BY <2>8, <2>6, <1>0, RecordStep DEF MarkPublished, Recorded
  <2>9. CASE Reschedule(p, e)
    BY <2>9, <2>6, <2>7, <1>0, RecordStep DEF Reschedule, Recorded
  <2>10. CASE DbFails(p, e)
    <3>1. Recorded(p, e)
      BY <2>10 DEF DbFails, Recorded
    <3>2. work[p][e].stage = "sent" \/ row'[e].state = row[e].state
      BY <2>10, <2>7 DEF DbFails
    <3> QED
      BY <2>10, <2>6, <3>1, <3>2, <1>0, RecordStep DEF DbFails
  <2> QED
    BY <1>4, <2>1, <2>2, <2>3, <2>4, <2>8, <2>9, <2>10 DEF WorkerStep
<1>5. ASSUME NEW p \in Procs, Finish(p) \/ Crash(p) PROVE IInv'
  <2>1. /\ UNCHANGED <<row, inc, delivered>>
        /\ \A q \in Procs \ {p} : status'[q] = status[q]
        /\ \A q \in Procs, f \in Events :
              work'[q][f] = IF q = p THEN NoWork ELSE work[q][f]
    BY <1>5 DEF Finish, Crash, TypeOK
  <2>2. \A f \in Events : row[f].state = "none" => late'[f] = 0
    BY <1>5 DEF Finish, Crash, AbsentLeavesNoTrace
  <2>3. NoWork.stage = "none"
    BY DEF NoWork
  <2>4. AbsentLeavesNoTrace'
    BY <2>1, <2>2, <2>3 DEF AbsentLeavesNoTrace
  <2>5. PublishedIsUnlocked' /\ PublishedWasDelivered'
    BY <2>1 DEF PublishedIsUnlocked, PublishedWasDelivered
  <2>6. AnsweredWasDelivered' /\ OnlyDrainsHaveCopies'
    BY <2>1, <2>3 DEF AnsweredWasDelivered, OnlyDrainsHaveCopies, Active
  <2>7. HolderCopyIsCurrent'
    BY <2>1, <2>3 DEF HolderCopyIsCurrent, Token
  <2> QED
    BY <1>0, <2>4, <2>5, <2>6, <2>7
<1>6. ASSUME NEW p \in Procs, Cancel(p) \/ Restart(p) PROVE IInv'
  <2>1. /\ UNCHANGED <<row, work, delivered, late>>
        /\ \A q \in Procs \ {p} : inc'[q] = inc[q] /\ status'[q] = status[q]
    BY <1>6 DEF Cancel, Restart, TypeOK
  <2>2. Active(p)' <=> Active(p)
    BY <1>6 DEF Cancel, Restart, Active, TypeOK
  <2>3. inc'[p] = inc[p] \/ \A f \in Events : work[p][f].stage = "none"
    BY <1>6 DEF Cancel, Restart, OnlyDrainsHaveCopies, Active
  <2>4. AbsentLeavesNoTrace' /\ PublishedIsUnlocked' /\ PublishedWasDelivered'
    BY <2>1 DEF AbsentLeavesNoTrace, PublishedIsUnlocked, PublishedWasDelivered
  <2>5. AnsweredWasDelivered'
    BY <2>1 DEF AnsweredWasDelivered
  <2>6. OnlyDrainsHaveCopies'
    BY <2>1, <2>2 DEF OnlyDrainsHaveCopies, Active
  <2>7. HolderCopyIsCurrent'
    BY <2>1, <2>3 DEF HolderCopyIsCurrent, Token
  <2> QED
    BY <1>0, <2>4, <2>5, <2>6, <2>7
<1>7. ASSUME NEW e \in Events, LateDelivery(e) PROVE IInv'
  <2>1. \A f \in Events : delivered[f] >= 1 => delivered'[f] >= 1
    BY <1>7, BoundAssumption DEF LateDelivery, Lesser, TypeOK
  <2>2. \A f \in Events : row[f].state = "none" => late'[f] = 0
    BY <1>7 DEF LateDelivery, AbsentLeavesNoTrace, TypeOK
  <2>3. UNCHANGED <<row, status, inc, work>>
    BY <1>7 DEF LateDelivery
  <2> QED
    BY <1>0, <2>1, <2>2, <2>3
       DEF AbsentLeavesNoTrace, PublishedIsUnlocked, AnsweredWasDelivered,
           OnlyDrainsHaveCopies, PublishedWasDelivered, HolderCopyIsCurrent, Token, Active
<1>8. CASE Tick
  <2>1. \A f \in Events : /\ row'[f].state = row[f].state
                          /\ row'[f].attempts = row[f].attempts
                          /\ row'[f].token = row[f].token
                          /\ row[f].state # "pending" => row'[f] = row[f]
    BY <1>8 DEF Tick, Older, TypeOK, RowType
  <2>2. \A q \in Procs, f \in Events : /\ work'[q][f].stage = work[q][f].stage
                                       /\ work'[q][f].attempts = work[q][f].attempts
    BY <1>8 DEF Tick, TypeOK, WorkType
  <2>3. UNCHANGED <<status, inc, delivered, late>>
    BY <1>8 DEF Tick
  <2> QED
    BY <1>0, <2>1, <2>2, <2>3
       DEF AbsentLeavesNoTrace, PublishedIsUnlocked, AnsweredWasDelivered,
           OnlyDrainsHaveCopies, PublishedWasDelivered, HolderCopyIsCurrent, Token, Active
<1>9. CASE UNCHANGED vars
  BY <1>0, <1>9
     DEF vars, AbsentLeavesNoTrace, PublishedIsUnlocked, AnsweredWasDelivered,
         OnlyDrainsHaveCopies, PublishedWasDelivered, HolderCopyIsCurrent, Token, Active
<1> QED
  BY <1>1, <1>2, <1>3, <1>4, <1>5, <1>6, <1>7, <1>8, <1>9 DEF Next

LEMMA Invariance == Spec => []IInv
BY InitIInv, IInvStep, PTL DEF Spec

\* No event is lost: a row is marked published only after the broker has
\* accepted its message, under every interleaving of claims, expired leases,
\* late results, crashes and restarts.
THEOREM NoEventLost == Spec => []PublishedWasDelivered
BY Invariance, PTL DEF IInv

\* An instance whose lease is still on a row works on a current copy of it.
THEOREM HolderIsCurrent == Spec => []HolderCopyIsCurrent
BY Invariance, PTL DEF IInv

-----------------------------------------------------------------------------
(* What a step does to a row.                                               *)

\* A result is written to a pending row whose lease the writer holds.
EndsLease(e) ==
    /\ row[e].state = "pending" /\ row[e].token # NoToken
    /\ row'[e].token = NoToken /\ row'[e].attempts = row[e].attempts + 1
    /\ row'[e].state \in {"pending", "published"}

LEMMA RecordedEndsLease ==
    ASSUME IInv, NEW p \in Procs, NEW e \in Events, Recorded(p, e)
    PROVE  /\ \A f \in Events \ {e} : row'[f] = row[f]
           /\ row'[e] = row[e] \/ EndsLease(e)
<1> USE DEF IInv
<1>1. Token(p) # NoToken
  BY TokenType DEF TypeOK
<1>2. row[e].token = Token(p) => row[e].state = "pending"
  <2>1. row[e] \in RowType
    BY DEF TypeOK
  <2>2. row[e].state = "none" => row[e].token = NoToken
    BY DEF AbsentLeavesNoTrace, NoRow
  <2> QED
    BY <1>1, <2>1, <2>2 DEF PublishedIsUnlocked, RowType, RowState
<1> QED
  BY <1>1, <1>2, RecordedEffect DEF EndsLease

LEMMA LockedRow ==
    ASSUME IInv, NEW p \in Procs, NEW S \in Batches(p), row' = Lock(S, p),
           NEW f \in Events
    PROVE  \/ row'[f] = row[f]
           \/ /\ row[f].state = "pending"
              /\ row'[f].state = row[f].state /\ row'[f].attempts = row[f].attempts
<1>1. S \subseteq Events /\ \A e \in S : row[e].state = "pending"
  BY BatchesClaimable DEF Claimable
<1> QED
  BY <1>1, LockEffect DEF IInv

\* Every step leaves a row alone, stores it, locks or ages it, or ends its lease.
LEMMA RowStep ==
    ASSUME IInv, [Next]_vars, NEW f \in Events
    PROVE  \/ row'[f] = row[f]
           \/ /\ row[f].state = "none"
              /\ row'[f].state = "pending" /\ row'[f].attempts = row[f].attempts
           \/ /\ row[f].state = "pending"
              /\ row'[f].state = "pending" /\ row'[f].attempts = row[f].attempts
           \/ EndsLease(f)
<1> USE DEF IInv
<1>1. ASSUME NEW e \in Events, NEW d \in EnqueueDelays, Enqueue(e, d)
      PROVE  \/ row'[f] = row[f]
             \/ /\ row[f].state = "none"
                /\ row'[f].state = "pending" /\ row'[f].attempts = row[f].attempts
  BY <1>1 DEF Enqueue, AbsentLeavesNoTrace, NoRow, TypeOK
<1>2. ASSUME NEW p \in Procs, Claim(p) \/ ClaimUnanswered(p)
      PROVE  \/ row'[f] = row[f]
             \/ /\ row[f].state = "pending"
                /\ row'[f].state = row[f].state /\ row'[f].attempts = row[f].attempts
  <2>1. PICK S \in Batches(p) : row' = Lock(S, p)
    BY <1>2 DEF Claim, ClaimUnanswered
  <2> QED
    BY <2>1, LockedRow
<1>3. ASSUME NEW p \in Procs, NEW e \in Events, WorkerStep(p, e)
      PROVE  row'[f] = row[f] \/ EndsLease(f)
  <2>1. Recorded(p, e)
    BY <1>3 DEF WorkerStep, Start, Accept, PublishOk, PublishFails,
                MarkPublished, Reschedule, DbFails, Recorded
  <2> QED
    BY <2>1, RecordedEndsLease
<1>4. ASSUME NEW p \in Procs, Finish(p) \/ Cancel(p) \/ Crash(p) \/ Restart(p)
      PROVE  row'[f] = row[f]
  BY <1>4 DEF Finish, Cancel, Crash, Restart
<1>5. ASSUME NEW e \in Events, LateDelivery(e) PROVE row'[f] = row[f]
  BY <1>5 DEF LateDelivery
<1>6. CASE Tick
  BY <1>6 DEF Tick, Older, TypeOK, RowType
<1>7. CASE UNCHANGED vars
  BY <1>7 DEF vars
<1> QED
  BY <1>1, <1>2, <1>3, <1>4, <1>5, <1>6, <1>7 DEF Next

\* A published row never changes again, whatever results and claims come late.
THEOREM PublishedForGood == Spec => PublishedIsFinal
<1>1. IInv /\ [Next]_vars =>
        [\A e \in Events : row[e].state = "published" => row'[e] = row[e]]_vars
  BY RowStep DEF EndsLease
<1> QED
  BY <1>1, Invariance, PTL DEF Spec, PublishedIsFinal

\* An attempt is counted only by the holder of a lease, which thereby ends.
THEOREM AttemptEndsLease == Spec => OneResultPerLease
<1>1. IInv /\ [Next]_vars =>
        [\A e \in Events :
          row'[e].attempts # row[e].attempts =>
              /\ row'[e].attempts = row[e].attempts + 1
              /\ row[e].token # NoToken /\ row'[e].token = NoToken]_vars
  BY RowStep DEF EndsLease
<1> QED
  BY <1>1, Invariance, PTL DEF Spec, OneResultPerLease

-----------------------------------------------------------------------------
(* The publisher implements the outbox contract.                            *)

\* A step that leaves the state and the deliveries of every event alone is a
\* stutter of the contract.
LEMMA ContractStutter ==
    ASSUME \A f \in Events : row'[f].state = row[f].state, delivered' = delivered
    PROVE  UNCHANGED Contract!contractVars
BY DEF Contract!contractVars

\* The broker gets one more message of a stored event.
LEMMA ContractDeliver ==
    ASSUME IInv, NEW e \in Events, row[e].state # "none",
           \A f \in Events : row'[f].state = row[f].state,
           delivered' \in {delivered,
                           [delivered EXCEPT ![e] = Lesser(@ + 1, DeliveryCap)]}
    PROVE  Contract!Deliver(e) \/ UNCHANGED Contract!contractVars
<1>1. CASE delivered' = delivered
  BY <1>1, ContractStutter
<1>2. CASE delivered' = [delivered EXCEPT ![e] = Lesser(@ + 1, DeliveryCap)]
  <2>1. \A f \in Events : delivered'[f] >= 1 <=> f = e \/ delivered[f] >= 1
    BY <1>2, BoundAssumption DEF IInv, TypeOK, Lesser
  <2>2. {f \in Events : delivered'[f] >= 1} = {f \in Events : delivered[f] >= 1} \cup {e}
    BY <2>1
  <2>3. [f \in Events |-> row[f].state][e] # "none"
    OBVIOUS
  <2>4. [f \in Events |-> row'[f].state] = [f \in Events |-> row[f].state]
    OBVIOUS
  <2> QED
    BY <2>2, <2>3, <2>4 DEF Contract!Deliver
<1> QED
  BY <1>1, <1>2

\* A result that is recorded completes an event the broker has, or changes
\* nothing the contract speaks of.
LEMMA ContractRecord ==
    ASSUME IInv, IInv', NEW p \in Procs, NEW e \in Events, Recorded(p, e),
           delivered' = delivered
    PROVE  Contract!Complete(e) \/ UNCHANGED Contract!contractVars
<1>1. /\ \A f \in Events \ {e} : row'[f] = row[f]
      /\ row'[e] = row[e] \/ EndsLease(e)
  BY RecordedEndsLease
<1>2. CASE row'[e].state = row[e].state
  BY <1>1, <1>2, ContractStutter
<1>3. CASE row'[e].state # row[e].state
  <2>1. row[e].state = "pending" /\ row'[e].state = "published"
    BY <1>1, <1>3 DEF EndsLease
  <2>2. delivered[e] >= 1
    BY <2>1 DEF IInv, PublishedWasDelivered
  <2>3. [f \in Events |-> row'[f].state] =
          [[f \in Events |-> row[f].state] EXCEPT ![e] = "published"]
    BY <1>1, <2>1
  <2> QED
    BY <2>1, <2>2, <2>3 DEF Contract!Complete
<1> QED
  BY <1>2, <1>3

LEMMA ContractStep ==
    ASSUME IInv, IInv', [Next]_vars
    PROVE  Contract!ContractNext \/ UNCHANGED Contract!contractVars
<1> USE DEF IInv
<1>1. ASSUME NEW e \in Events, NEW d \in EnqueueDelays, Enqueue(e, d)
      PROVE  Contract!Store(e)
  <2>1. [f \in Events |-> row'[f].state] =
          [[f \in Events |-> row[f].state] EXCEPT ![e] = "pending"]
    BY <1>1 DEF Enqueue, NoRow, TypeOK
  <2> QED
    BY <1>1, <2>1 DEF Enqueue, Contract!Store
<1>2. ASSUME NEW p \in Procs, Claim(p) \/ ClaimUnanswered(p)
      PROVE  UNCHANGED Contract!contractVars
  <2>1. PICK S \in Batches(p) : row' = Lock(S, p)
    BY <1>2 DEF Claim, ClaimUnanswered
  <2>2. \A f \in Events : row'[f].state = row[f].state
    BY <2>1, LockedRow
  <2> QED
    BY <1>2, <2>2, ContractStutter DEF Claim, ClaimUnanswered
<1>3. ASSUME NEW p \in Procs, NEW e \in Events, WorkerStep(p, e)
      PROVE  \/ Contract!Deliver(e) \/ Contract!Complete(e)
             \/ UNCHANGED Contract!contractVars
  <2>1. CASE Accept(p, e)
    BY <2>1, ContractDeliver DEF Accept, AbsentLeavesNoTrace
  <2>2. CASE Start(p, e) \/ PublishOk(p, e) \/ PublishFails(p, e)
    BY <2>2, ContractStutter DEF Start, PublishOk, PublishFails
  <2>3. CASE MarkPublished(p, e) \/ Reschedule(p, e) \/ DbFails(p, e)
    BY <2>3, ContractRecord DEF MarkPublished, Reschedule, DbFails, Recorded
  <2> QED
    BY <1>3, <2>1, <2>2, <2>3 DEF WorkerStep
<1>4. ASSUME NEW p \in Procs, Finish(p) \/ Cancel(p) \/ Crash(p) \/ Restart(p)
      PROVE  UNCHANGED Contract!contractVars
  BY <1>4, ContractStutter DEF Finish, Cancel, Crash, Restart
<1>5. ASSUME NEW e \in Events, LateDelivery(e)
      PROVE  Contract!Deliver(e) \/ UNCHANGED Contract!contractVars
  <2>1. row[e].state # "none"
    BY <1>5 DEF LateDelivery, AbsentLeavesNoTrace
  <2> QED
    BY <1>5, <2>1, ContractDeliver DEF LateDelivery
<1>6. CASE Tick
  <2>1. \A f \in Events : row'[f].state = row[f].state
    BY <1>6 DEF Tick, Older, TypeOK, RowType
  <2> QED
    BY <1>6, <2>1, ContractStutter DEF Tick
<1>7. CASE UNCHANGED vars
  BY <1>7, ContractStutter DEF vars
<1> QED
  BY <1>1, <1>2, <1>3, <1>4, <1>5, <1>6, <1>7 DEF Next, Contract!ContractNext

LEMMA ContractStart == Init => Contract!ContractInit
<1> SUFFICES ASSUME Init PROVE Contract!ContractInit
  OBVIOUS
<1>1. [e \in Events |-> row[e].state] = [e \in Events |-> "none"]
  BY DEF Init, NoRow
<1>2. {e \in Events : delivered[e] >= 1} = {}
  BY DEF Init
<1> QED
  BY <1>1, <1>2 DEF Contract!ContractInit

\* The publisher is an implementation of the outbox contract: every behaviour
\* delivers an event before it completes it, and completes it once.
THEOREM PublisherImplementsContract == Spec => ImplementsContract
<1>1. IInv /\ IInv' /\ [Next]_vars => [Contract!ContractNext]_Contract!contractVars
  BY ContractStep
<1> QED
  BY <1>1, ContractStart, Invariance, PTL
     DEF Spec, ImplementsContract, Contract!ContractSpec

-----------------------------------------------------------------------------
(* One instance at a time works on an event.                                *)

\* The copies of an instance are finitely many, and so are parts of them.
LEMMA CopiesFinite ==
    ASSUME IInv, LeaseInv, NEW p \in Procs, NEW S \in SUBSET Copies(p)
    PROVE  IsFiniteSet(S) /\ Cardinality(S) \in Nat
<1>1. Copies(p) \subseteq {e \in Events : row[e].state # "none"}
  BY DEF IInv, AbsentLeavesNoTrace, Copies
<1>2. S \in SUBSET {e \in Events : row[e].state # "none"}
  BY <1>1
<1> QED
  BY <1>2, FS_Subset, FS_CardinalityType DEF LeaseInv

\* With a batch that fits in the lease, no clock sees the lease of an instance
\* expire while it has copies: by then its workers have started all of them and
\* every publish has met its deadline.
LEMMA LeaseLasts ==
    ASSUME Timely, IInv, LeaseInv, NEW p \in Procs, NEW e \in Copies(p),
           NEW q \in Procs
    PROVE  row[e].lockedFor < LockTTL - Skew[q]
<1>1. PICK rounds \in 1..BatchSize :
          /\ BatchSize <= rounds * Workers
          /\ \A r \in Procs : rounds * PublishTimeout < LockTTL - Skew[r]
  BY DEF Timely
<1>2. e \in Events /\ work[p][e].stage # "none"
  BY DEF Copies
<1>3. row[e].lockedFor \in Nat /\ work[p][e].timer \in Nat
  BY <1>2 DEF IInv, TypeOK, RowType, WorkType
<1>4. BatchOK(p)
  BY DEF LeaseInv
<1> DEFINE k == rounds - 1
           rest == StartedAfter(p, k * PublishTimeout)
<1>5. /\ k \in 0..BatchSize
      /\ k * PublishTimeout \in Nat
      /\ rounds * PublishTimeout = k * PublishTimeout + PublishTimeout
      /\ rounds * PublishTimeout \in Nat
      /\ rounds * Workers \in Nat
  BY <1>1, ConfigAssumption
<1>6. SUFFICES ASSUME row[e].lockedFor > rounds * PublishTimeout PROVE FALSE
  <2>1. Skew[q] \in Int
    BY ClockAssumption
  <2> QED
    BY <1>1, <1>3, <1>5, <2>1, ConfigAssumption
<1>7. row[e].lockedFor > k * PublishTimeout
  BY <1>3, <1>5, <1>6, ConfigAssumption
<1>8. rest = {} \/ Cardinality(rest) + rounds * Workers <= BatchSize
  <2>1. \/ rest = {} \/ Cardinality(rest) + (k + 1) * Workers <= BatchSize
    BY <1>4, <1>5, <1>7 DEF BatchOK
  <2>2. (k + 1) * Workers = rounds * Workers
    BY <1>1, ConfigAssumption
  <2> HIDE DEF rest, k
  <2> QED
    BY <2>1, <2>2
<1>9. rest = {}
  <2>1. rest \in SUBSET Copies(p)
    BY DEF StartedAfter
  <2>2. IsFiniteSet(rest) /\ Cardinality(rest) \in Nat
    BY <2>1, CopiesFinite
  <2> HIDE DEF rest, k
  <2>3. rest # {} => Cardinality(rest) = 0
    BY <1>1, <1>5, <1>8, <2>2, ConfigAssumption
  <2> QED
    BY <2>2, <2>3, FS_EmptySet
<1>10. row[e].lockedFor - work[p][e].timer <= k * PublishTimeout
  <2>1. ~(row[e].lockedFor - work[p][e].timer > k * PublishTimeout)
    BY <1>9 DEF StartedAfter
  <2> QED
    BY <1>3, <1>5, <2>1
<1>11. work[p][e].timer <= PublishTimeout
  BY <1>4 DEF BatchOK
<1> QED
  BY <1>3, <1>5, <1>6, <1>10, <1>11, ConfigAssumption

\* A locked row that an instance works on is not claimable for any other.
LEMMA HeldIsNotClaimable ==
    ASSUME Timely, IInv, LeaseInv, NEW p \in Procs, NEW e \in Copies(p),
           NEW q \in Procs
    PROVE  e \notin Claimable(q)
<1>1. row[e].token # NoToken
  BY TokenType DEF LeaseInv, BatchOK, IInv, TypeOK
<1>2. e \in Events
  BY DEF Copies
<1>3. row[e].lockedFor \in Nat /\ LockTTL - Skew[q] \in Int
  BY <1>2, ClockAssumption, ConfigAssumption DEF IInv, TypeOK, RowType
<1>4. ~Expired(q, e)
  BY <1>3, LeaseLasts DEF Expired
<1> QED
  BY <1>1, <1>4 DEF Claimable

\* Steps that take copies of an instance further, or drop them, and leave the
\* leases of the rest alone, keep the shape of its batch.
LEMMA BatchKept ==
    ASSUME IInv, LeaseInv, NEW p \in Procs, Copies(p)' \subseteq Copies(p),
           \A e \in Copies(p)' :
               /\ row'[e].token = row[e].token
               /\ row'[e].lockedFor = row[e].lockedFor
               /\ Token(p)' = Token(p)
               /\ work'[p][e].timer = work[p][e].timer
               /\ work'[p][e].stage = "claimed" => work[p][e].stage = "claimed"
    PROVE  BatchOK(p)'
<1>1. IsFiniteSet(Copies(p)) /\ Cardinality(Copies(p)) \in Nat
  BY CopiesFinite
<1>2. ASSUME NEW S \in SUBSET Copies(p), NEW U \in SUBSET S
      PROVE  /\ Cardinality(S) \in Nat /\ Cardinality(U) \in Nat
             /\ Cardinality(U) <= Cardinality(S)
  <2>1. IsFiniteSet(S) /\ Cardinality(S) \in Nat
    BY CopiesFinite
  <2>2. U \in SUBSET Copies(p)
    OBVIOUS
  <2> QED
    BY <2>1, <2>2, CopiesFinite, FS_Subset
<1>3. BatchOK(p)
  BY DEF LeaseInv
<1>4. Cardinality(Copies(p)') <= BatchSize
  BY <1>1, <1>2, <1>3, ConfigAssumption DEF BatchOK
<1>5. ASSUME NEW e \in Copies(p)'
      PROVE  /\ row'[e].token = Token(p)'
             /\ work'[p][e].timer <= PublishTimeout
             /\ work'[p][e].stage = "claimed" => work'[p][e].timer = 0
             /\ \A f \in Copies(p)' : row'[e].lockedFor = row'[f].lockedFor
  BY <1>3 DEF BatchOK
<1>6. ASSUME NEW e \in Copies(p)', NEW k \in 0..BatchSize,
             row'[e].lockedFor > k * PublishTimeout
      PROVE  \/ StartedAfter(p, k * PublishTimeout)' = {}
             \/ Cardinality(StartedAfter(p, k * PublishTimeout)')
                   + (k + 1) * Workers <= BatchSize
  <2> DEFINE S == StartedAfter(p, k * PublishTimeout)
  <2>1. S' \subseteq S /\ S \subseteq Copies(p)
    BY DEF StartedAfter
  <2>2. S = {} \/ Cardinality(S) + (k + 1) * Workers <= BatchSize
    BY <1>3, <1>6 DEF BatchOK
  <2>3. /\ Cardinality(S) \in Nat /\ Cardinality(S') \in Nat
        /\ Cardinality(S') <= Cardinality(S)
    BY <1>2, <2>1
  <2>4. (k + 1) * Workers \in Nat
    BY ConfigAssumption
  <2> HIDE DEF S
  <2>5. S' = {} \/ Cardinality(S') + (k + 1) * Workers <= BatchSize
    BY <2>1, <2>2, <2>3, <2>4, ConfigAssumption
  <2> QED
    BY <2>5 DEF S
<1> QED
  BY <1>4, <1>5, <1>6 DEF BatchOK

\* A claim takes no row another instance works on.
LEMMA LeaseClaimed ==
    ASSUME Timely, IInv, LeaseInv, NEW p \in Procs, NEW S \in Batches(p),
           row' = Lock(S, p), UNCHANGED inc,
           \A q \in Procs \ {p} : work'[q] = work[q],
           BatchOK(p)'
    PROVE  LeaseInv'
<1>1. S \in SUBSET Events /\ S \subseteq Claimable(p)
  BY BatchesClaimable
<1>2. ASSUME NEW q \in Procs, q # p PROVE BatchOK(q)'
  <2>1. Copies(q)' = Copies(q)
    BY <1>2 DEF Copies
  <2>2. \A e \in Copies(q) : row'[e] = row[e] /\ work'[q][e] = work[q][e]
    BY <1>1, <1>2, HeldIsNotClaimable, LockEffect DEF IInv, Copies
  <2>3. Token(q)' = Token(q)
    BY DEF Token
  <2> QED
    BY <2>1, <2>2, <2>3, BatchKept
<1>3. {e \in Events : row'[e].state # "none"} = {e \in Events : row[e].state # "none"}
  BY <1>1, LockEffect DEF IInv
<1> QED
  BY <1>2, <1>3 DEF LeaseInv

\* A fresh batch has at most BatchSize copies, none of them started.
LEMMA BatchClaimed ==
    ASSUME IInv, LeaseInv, NEW p \in Procs, NEW S \in Batches(p),
           row' = Lock(S, p), Token(p)' = Token(p),
           work'[p] = [e \in Events |->
               IF e \in S THEN [stage |-> "claimed", timer |-> 0,
                                attempts |-> row[e].attempts]
                          ELSE NoWork]
    PROVE  BatchOK(p)'
<1>1. S \in SUBSET Events /\ S \subseteq Claimable(p)
  BY BatchesClaimable
<1>2. Copies(p)' = S
  BY <1>1 DEF Copies, NoWork
<1>3. \A e \in S : /\ row'[e].token = Token(p) /\ row'[e].lockedFor = 0
                   /\ work'[p][e].timer = 0
  <2> SUFFICES ASSUME NEW e \in S
               PROVE  /\ row'[e].token = Token(p) /\ row'[e].lockedFor = 0
                      /\ work'[p][e].timer = 0
    OBVIOUS
  <2>1. row[e] \in RowType
    BY <1>1 DEF IInv, TypeOK
  <2>2. row'[e] = [row[e] EXCEPT !.token = Token(p), !.lockedFor = 0]
    BY <1>1 DEF Lock
  <2>3. row'[e].token = Token(p) /\ row'[e].lockedFor = 0
    BY <2>1, <2>2 DEF RowType
  <2>4. work'[p][e].timer = 0
    BY <1>1
  <2> QED
    BY <2>3, <2>4
<1>4. Cardinality(S) <= BatchSize
  <2>1. Claimable(p) \in SUBSET {e \in Events : row[e].state # "none"}
    BY DEF Claimable
  <2>2. IsFiniteSet(Claimable(p)) /\ Cardinality(Claimable(p)) \in Nat
    BY <2>1, FS_Subset, FS_CardinalityType DEF LeaseInv
  <2>3. Cardinality(S) = Lesser(BatchSize, Cardinality(Claimable(p)))
    BY DEF Batches
  <2> QED
    BY <2>2, <2>3, ConfigAssumption DEF Lesser
<1>5. \A k \in 0..BatchSize : ~(0 > k * PublishTimeout)
  BY ConfigAssumption
<1> QED
  BY <1>2, <1>3, <1>4, <1>5, ConfigAssumption DEF BatchOK

\* Time passes only while the workers are busy with publishes or have nothing
\* left to start, so a round that ends has started Workers copies.
LEMMA BatchOlder ==
    ASSUME Timely, IInv, LeaseInv, Tick, NEW p \in Procs
    PROVE  BatchOK(p)'
<1> DEFINE claimed == {e \in Copies(p) : work[p][e].stage = "claimed"}
<1>1. BatchOK(p) /\ p \in Prompt /\ Copies(p) \subseteq Events
  BY DEF LeaseInv, Timely, Copies
<1>2. ASSUME NEW e \in Copies(p)
      PROVE  /\ row[e].lockedFor \in Nat /\ work[p][e].timer \in Nat
             /\ row[e].token = Token(p)
             /\ row'[e].token = row[e].token
             /\ row'[e].lockedFor = row[e].lockedFor + 1
  <2>1. row[e] \in RowType /\ row[e].lockedFor \in Nat /\ work[p][e].timer \in Nat
    BY <1>1 DEF IInv, TypeOK, RowType, WorkType
  <2>2. row[e].token = Token(p) /\ Token(p) # NoToken
    BY <1>1, TokenType DEF BatchOK, IInv, TypeOK
  <2>3. row[e].state = "pending"
    BY <1>1, <2>2 DEF IInv, HolderCopyIsCurrent, Copies
  <2>4. row[e].lockedFor < LockTTL - Skew[p]
    BY LeaseLasts
  <2>5. Skew[p] \in -MaxSkew..MaxSkew
    BY ClockAssumption
  <2>6. Lesser(row[e].lockedFor + 1, LockTTL + MaxSkew) = row[e].lockedFor + 1
    BY <2>1, <2>4, <2>5, ClockAssumption, ConfigAssumption DEF Lesser
  <2>7. row'[e] = Older(row[e])
    BY <1>1 DEF Tick
  <2>8. row'[e].token = row[e].token /\ row'[e].lockedFor = row[e].lockedFor + 1
    BY <2>1, <2>2, <2>3, <2>6, <2>7 DEF Older, RowType
  <2> QED
    BY <2>1, <2>2, <2>8
<1>3. ASSUME NEW e \in Copies(p)
      PROVE  /\ work'[p][e].stage = work[p][e].stage
             /\ \/ /\ work[p][e].stage = "claimed" /\ ~FreeWorker(p)
                   /\ work'[p][e].timer = work[p][e].timer
                \/ /\ work[p][e].stage \in {"sending", "acked"}
                   /\ work[p][e].timer < PublishTimeout
                   /\ work'[p][e].timer = work[p][e].timer + 1
  <2>1. work[p][e] \in WorkType /\ work[p][e].stage # "none"
    BY <1>1 DEF IInv, TypeOK, Copies
  <2>2. ~OverdueStep(p, e)
    BY <1>1 DEF Tick
  <2>3. \/ work[p][e].stage = "claimed" /\ ~FreeWorker(p)
        \/ /\ work[p][e].stage \in {"sending", "acked"}
           /\ work[p][e].timer < PublishTimeout
    BY <1>1, <2>1, <2>2, ConfigAssumption DEF OverdueStep, WorkType, Stage
  <2>4. work'[p][e] = IF work[p][e].stage \in {"sending", "acked"}
                      THEN [work[p][e] EXCEPT !.timer = @ + 1] ELSE work[p][e]
    BY <1>1 DEF Tick
  <2> QED
    BY <2>1, <2>3, <2>4 DEF WorkType
<1>4. Copies(p)' = Copies(p)
  BY DEF Copies, Tick, IInv, TypeOK, WorkType
<1>5. Token(p)' = Token(p)
  BY DEF Tick, Token
<1>6. claimed # {} => Cardinality(claimed) + Workers <= Cardinality(Copies(p))
  <2>1. SUFFICES ASSUME claimed # {}
                 PROVE  Cardinality(claimed) + Workers <= Cardinality(Copies(p))
    OBVIOUS
  <2>2. Busy(p) \cup claimed = Copies(p) /\ Busy(p) \cap claimed = {}
    <3>1. Busy(p) \subseteq Copies(p)
      BY DEF Busy, Copies
    <3>2. \A e \in Copies(p) : e \in Busy(p) <=> e \notin claimed
      BY <1>1, <1>3 DEF Busy
    <3> QED
      BY <3>1, <3>2
  <2>3. /\ IsFiniteSet(Busy(p)) /\ Cardinality(Busy(p)) \in Nat
        /\ IsFiniteSet(claimed) /\ Cardinality(claimed) \in Nat
    BY <2>2, CopiesFinite
  <2>4. Cardinality(Copies(p)) = Cardinality(Busy(p)) + Cardinality(claimed)
    <3> HIDE DEF claimed
    <3>1. Cardinality(Busy(p) \cup claimed) =
            Cardinality(Busy(p)) + Cardinality(claimed) - Cardinality(Busy(p) \cap claimed)
      BY <2>3, FS_Union
    <3>2. Cardinality(Busy(p) \cap claimed) = 0
      BY <2>2, FS_EmptySet
    <3>3. Cardinality(Busy(p) \cup claimed) = Cardinality(Copies(p))
      BY <2>2
    <3> QED
      BY <2>3, <3>1, <3>2, <3>3
  <2>5. Cardinality(Busy(p)) >= Workers
    BY <1>3, <2>1, <2>3, ConfigAssumption DEF FreeWorker
  <2> HIDE DEF claimed
  <2> QED
    BY <2>3, <2>4, <2>5, ConfigAssumption
<1>7. ASSUME NEW e \in Copies(p), NEW k \in 0..BatchSize,
             row'[e].lockedFor > k * PublishTimeout
      PROVE  \/ StartedAfter(p, k * PublishTimeout)' = {}
             \/ Cardinality(StartedAfter(p, k * PublishTimeout)')
                   + (k + 1) * Workers <= BatchSize
  <2> DEFINE time == k * PublishTimeout
  <2>1. time \in Nat /\ k * Workers \in Nat
    BY ConfigAssumption
  <2>2. StartedAfter(p, time)' = StartedAfter(p, time)
    <3>1. \A f \in Copies(p) :
             row'[f].lockedFor - work'[p][f].timer > time
                \/ work[p][f].stage = "claimed"
             <=> row[f].lockedFor - work[p][f].timer > time
                    \/ work[p][f].stage = "claimed"
      <4> HIDE DEF time
      <4> QED
        BY <1>2, <1>3, <2>1
    <3> QED
      BY <1>3, <1>4, <3>1 DEF StartedAfter
  <2>3. CASE row[e].lockedFor > time
    BY <1>1, <2>2, <2>3 DEF BatchOK
  <2>4. CASE row[e].lockedFor = time
    <3>1. StartedAfter(p, time) = claimed
      <4>1. \A f \in Copies(p) : row[f].lockedFor = time
        BY <1>1, <2>4 DEF BatchOK
      <4>2. \A f \in Copies(p) : ~(row[f].lockedFor - work[p][f].timer > time)
        <5> HIDE DEF time
        <5> QED
          BY <1>2, <2>1, <4>1
      <4> QED
        BY <4>2 DEF StartedAfter
    <3>2. claimed \in SUBSET Copies(p) /\ Copies(p) \in SUBSET Copies(p)
      OBVIOUS
    <3>3. Cardinality(claimed) \in Nat /\ Cardinality(Copies(p)) \in Nat
      BY <3>2, CopiesFinite
    <3>4. Cardinality(Copies(p)) + k * Workers <= BatchSize
      <4>1. CASE k = 0
        BY <1>1, <3>3, <4>1, ConfigAssumption DEF BatchOK
      <4>2. CASE k > 0
        <5> DEFINE j == k - 1
        <5>1. /\ j \in 0..BatchSize /\ j * PublishTimeout \in Nat
              /\ time = j * PublishTimeout + PublishTimeout
              /\ (j + 1) * Workers = k * Workers
          BY <4>2, ConfigAssumption
        <5>2. StartedAfter(p, j * PublishTimeout) = Copies(p)
          <6>1. ASSUME NEW f \in Copies(p), work[p][f].stage # "claimed"
                PROVE  row[f].lockedFor - work[p][f].timer > j * PublishTimeout
            <7>1. row[f].lockedFor = time
              BY <1>1, <2>4 DEF BatchOK
            <7>2. work[p][f].timer < PublishTimeout
              BY <1>3, <6>1
            <7> HIDE DEF time, j
            <7> QED
              BY <1>2, <2>1, <5>1, <7>1, <7>2, ConfigAssumption
          <6> QED
            BY <6>1 DEF StartedAfter
        <5>3. row[e].lockedFor > j * PublishTimeout
          BY <2>4, <5>1, ConfigAssumption
        <5>4. Copies(p) = {} \/ Cardinality(Copies(p)) + (j + 1) * Workers <= BatchSize
          BY <1>1, <5>1, <5>2, <5>3 DEF BatchOK
        <5> HIDE DEF j
        <5> QED
          BY <5>1, <5>4
      <4> QED
        BY <4>1, <4>2
    <3>5. (k + 1) * Workers = k * Workers + Workers
      BY ConfigAssumption
    <3> HIDE DEF claimed
    <3>6. claimed = {} \/ Cardinality(claimed) + (k + 1) * Workers <= BatchSize
      BY <1>6, <2>1, <3>3, <3>4, <3>5, ConfigAssumption
    <3> QED
      BY <2>2, <3>1, <3>6
  <2> HIDE DEF time
  <2>5. row[e].lockedFor + 1 > time
    BY <1>2, <1>7 DEF time
  <2> QED
    BY <1>2, <2>1, <2>3, <2>4, <2>5
<1>8. ASSUME NEW e \in Copies(p)
      PROVE  /\ row'[e].token = Token(p)'
             /\ work'[p][e].timer <= PublishTimeout
             /\ work'[p][e].stage = "claimed" => work'[p][e].timer = 0
             /\ \A f \in Copies(p) : row'[e].lockedFor = row'[f].lockedFor
  BY <1>1, <1>2, <1>3, <1>5, ConfigAssumption DEF BatchOK
<1>9. Cardinality(Copies(p)) <= BatchSize
  BY <1>1 DEF BatchOK
<1> QED
  BY <1>4, <1>7, <1>8, <1>9 DEF BatchOK

LEMMA LeaseInvInit == Init => LeaseInv
<1> SUFFICES ASSUME Init PROVE LeaseInv
  OBVIOUS
<1>1. {e \in Events : row[e].state # "none"} = {}
  BY DEF Init, NoRow
<1>2. \A p \in Procs : Copies(p) = {}
  BY DEF Init, NoWork, Copies
<1>3. \A p \in Procs : BatchOK(p)
  BY <1>2, FS_EmptySet, ConfigAssumption DEF BatchOK
<1> QED
  BY <1>1, <1>3, FS_EmptySet DEF LeaseInv

LEMMA LeaseInvStep ==
    ASSUME Timely, IInv, LeaseInv, [Next]_vars
    PROVE  LeaseInv'
<1> USE DEF IInv
<1> DEFINE stored == {e \in Events : row[e].state # "none"}
<1>1. ASSUME NEW e \in Events, NEW d \in EnqueueDelays, Enqueue(e, d)
      PROVE  LeaseInv'
  <2>1. \A f \in Events : /\ f # e => row'[f] = row[f]
                          /\ row'[e].state = "pending"
    BY <1>1 DEF Enqueue, NoRow, TypeOK
  <2>2. stored' = stored \cup {e}
    BY <2>1
  <2>3. IsFiniteSet(stored')
    BY <2>2, FS_AddElement DEF LeaseInv
  <2>4. ASSUME NEW p \in Procs PROVE BatchOK(p)'
    <3>1. Copies(p)' = Copies(p) /\ e \notin Copies(p) /\ Token(p)' = Token(p)
      BY <1>1 DEF Enqueue, Copies, Token, AbsentLeavesNoTrace
    <3>2. \A f \in Copies(p) : row'[f] = row[f] /\ work'[p][f] = work[p][f]
      BY <1>1, <2>1, <3>1 DEF Enqueue, Copies
    <3> QED
      BY <3>1, <3>2, BatchKept
  <2> QED
    BY <2>3, <2>4 DEF LeaseInv
<1>2. ASSUME NEW p \in Procs, Claim(p) PROVE LeaseInv'
  <2>1. PICK S \in Batches(p) :
          /\ row' = Lock(S, p)
          /\ work' = [work EXCEPT ![p] =
                [e \in Events |->
                    IF e \in S THEN [stage |-> "claimed", timer |-> 0,
                                     attempts |-> row[e].attempts]
                               ELSE NoWork]]
    BY <1>2 DEF Claim
  <2>2. UNCHANGED inc /\ Token(p)' = Token(p)
    BY <1>2 DEF Claim, Token
  <2>3. /\ work'[p] = [e \in Events |->
               IF e \in S THEN [stage |-> "claimed", timer |-> 0,
                                attempts |-> row[e].attempts]
                          ELSE NoWork]
        /\ \A q \in Procs \ {p} : work'[q] = work[q]
    BY <2>1 DEF TypeOK
  <2>4. BatchOK(p)'
    BY <2>1, <2>2, <2>3, BatchClaimed
  <2> QED
    BY <2>1, <2>2, <2>3, <2>4, LeaseClaimed
<1>3. ASSUME NEW p \in Procs, ClaimUnanswered(p) PROVE LeaseInv'
  <2>1. PICK S \in Batches(p) : row' = Lock(S, p)
    BY <1>3 DEF ClaimUnanswered
  <2>2. Copies(p)' = {}
    BY <1>3 DEF ClaimUnanswered, Copies, OnlyDrainsHaveCopies, Active
  <2>3. BatchOK(p)'
    BY <2>2, BatchKept
  <2> QED
    BY <1>3, <2>1, <2>3, LeaseClaimed DEF ClaimUnanswered
<1>4. ASSUME NEW p \in Procs, NEW e \in Events, WorkerStep(p, e) PROVE LeaseInv'
  <2>1. Recorded(p, e) /\ UNCHANGED inc
    BY <1>4 DEF WorkerStep, Start, Accept, PublishOk, PublishFails,
                MarkPublished, Reschedule, DbFails, Recorded
  <2>2. /\ \A f \in Events : f # e => row'[f] = row[f]
        /\ \/ row'[e] = row[e]
           \/ /\ row[e].token = Token(p)
              /\ row[e].state # "none" /\ row'[e].state # "none"
    BY <2>1, RecordedEndsLease, RecordedEffect DEF EndsLease
  <2>3. stored' = stored
    BY <2>2
  <2>4. \A q \in Procs : \A f \in Copies(q)' :
            /\ f \in Copies(q)
            /\ work'[q][f].timer = work[q][f].timer
            /\ work'[q][f].stage = "claimed" => work[q][f].stage = "claimed"
            /\ q = p /\ f = e => row' = row
    <3>1. CASE Done(p, e)
      BY <3>1, DoneEffect DEF Copies
    <3>2. CASE /\ UNCHANGED row
               /\ work[p][e].stage # "none"
               /\ \E stage \in Stage \ {"claimed"} : SetStage(p, e, stage)
      <4>1. PICK stage \in Stage \ {"claimed"} : SetStage(p, e, stage)
        BY <3>2
      <4>2. \A q \in Procs, f \in Events :
              work'[q][f].stage = IF q = p /\ f = e THEN stage ELSE work[q][f].stage
        BY <4>1, StageEffect
      <4>3. \A q \in Procs, f \in Events : work'[q][f].timer = work[q][f].timer
        BY <4>1 DEF SetStage, TypeOK, WorkType
      <4> QED
        BY <3>2, <4>2, <4>3 DEF Copies
    <3> QED
      BY <1>4, <3>1, <3>2
         DEF WorkerStep, Start, Accept, PublishOk, PublishFails,
             MarkPublished, Reschedule, DbFails, Stage
  <2>5. ASSUME NEW q \in Procs PROVE BatchOK(q)'
    <3>1. Token(q)' = Token(q) /\ (q # p => Token(q) # Token(p))
      BY <2>1 DEF Token
    <3>2. \A f \in Copies(q)' : row'[f] = row[f]
      BY <2>2, <2>4, <3>1 DEF LeaseInv, BatchOK, Copies
    <3> QED
      BY <2>4, <3>1, <3>2, BatchKept
  <2> QED
    BY <2>3, <2>5 DEF LeaseInv
<1>5. ASSUME NEW p \in Procs, Finish(p) \/ Cancel(p) \/ Crash(p) \/ Restart(p)
      PROVE  LeaseInv'
  <2>1. /\ UNCHANGED row
        /\ \A q \in Procs, f \in Events : work'[q][f] \in {work[q][f], NoWork}
        /\ \A q \in Procs : inc'[q] = inc[q] \/ (status[q] = "down" /\ work' = work)
    <3>1. CASE Finish(p) \/ Crash(p)
      <4>1. \A q \in Procs, f \in Events :
              work'[q][f] = IF q = p THEN NoWork ELSE work[q][f]
        BY <3>1 DEF Finish, Crash, TypeOK
      <4>2. UNCHANGED <<row, inc>>
        BY <3>1 DEF Finish, Crash
      <4> QED
        BY <4>1, <4>2
    <3>2. CASE Cancel(p)
      BY <3>2 DEF Cancel
    <3>3. CASE Restart(p)
      BY <3>3 DEF Restart, TypeOK
    <3> QED
      BY <1>5, <3>1, <3>2, <3>3
  <2>2. ASSUME NEW q \in Procs PROVE BatchOK(q)'
    <3>1. \A f \in Copies(q)' : f \in Copies(q) /\ work'[q][f] = work[q][f]
      BY <2>1 DEF Copies, NoWork
    <3>2. Copies(q)' = {} \/ Token(q)' = Token(q)
      BY <2>1 DEF Copies, Token, OnlyDrainsHaveCopies, Active
    <3> QED
      BY <2>1, <3>1, <3>2, BatchKept
  <2> QED
    BY <2>1, <2>2 DEF LeaseInv
<1>6. CASE Tick
  <2>1. \A f \in Events : row'[f].state = row[f].state
    BY <1>6 DEF Tick, Older, TypeOK, RowType
  <2>2. stored' = stored
    BY <2>1
  <2> QED
    BY <1>6, <2>2, BatchOlder DEF LeaseInv
<1>7. CASE UNCHANGED <<row, inc, work>>
  <2>1. ASSUME NEW q \in Procs PROVE BatchOK(q)'
    BY <1>7, BatchKept DEF Copies, Token
  <2> QED
    BY <1>7, <2>1 DEF LeaseInv
<1> QED
  BY <1>1, <1>2, <1>3, <1>4, <1>5, <1>6, <1>7 DEF Next, LateDelivery, vars

\* Two instances never work on one event at the same time, if the steps around a
\* publish take no time and the rounds of publishes that a batch takes fit in
\* the lease: whatever crashes, restarts, lost answers, skewed clocks within the
\* lease and failed publishes happen.
THEOREM BatchInLease == Timely => (Spec => []SingleFlight)
<1> SUFFICES ASSUME Timely PROVE Spec => []SingleFlight
  OBVIOUS
<1>1. Init => LeaseInv
  BY LeaseInvInit
<1>2. IInv /\ LeaseInv /\ [Next]_vars => LeaseInv'
  BY LeaseInvStep
<1>3. LeaseInv /\ IInv => SingleFlight
  <2> SUFFICES ASSUME LeaseInv, NEW e \in Events, NEW p \in Procs, NEW q \in Procs,
                      work[p][e].stage # "none", work[q][e].stage # "none"
               PROVE  p = q
    BY DEF SingleFlight
  <2>1. Token(p) = Token(q)
    BY DEF LeaseInv, BatchOK, Copies
  <2> QED
    BY <2>1 DEF Token
<1> QED
  BY <1>1, <1>2, <1>3, Invariance, PTL DEF Spec
=============================================================================
