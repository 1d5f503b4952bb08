------------------------- MODULE InboxConsumerProofs -------------------------
(***************************************************************************)
(* What holds of InboxConsumer for any number of events, messages,          *)
(* processes and callbacks.                                                 *)
(***************************************************************************)
EXTENDS InboxConsumer, FiniteSetTheorems, TLAPS

-----------------------------------------------------------------------------
(* Types.                                                                   *)

LEMMA NoTxType == NoRow \in Row /\ NoTx \in TxType
BY DEF NoRow, NoTx, Row, TxType

\* What the statements do to a transaction keeps its type.
LEMMA TxOperations ==
    ASSUME NEW t \in TxType, NEW b \in BOOLEAN, NEW r \in Row
    PROVE  /\ [t EXCEPT !.seen = b] \in TxType
           /\ [t EXCEPT !.row = r] \in TxType
           /\ [t EXCEPT !.handled = TRUE] \in TxType
           /\ [t EXCEPT !.lost = TRUE] \in TxType
           /\ [t EXCEPT !.row.error = TRUE, !.row.processed = FALSE] \in TxType
           /\ [t EXCEPT !.row.processed = TRUE, !.row.error = FALSE] \in TxType
BY DEF TxType, Row

LEMMA VisibleType ==
    ASSUME TypeOK, NEW w \in Callbacks, Event(w) \in Events
    PROVE  Visible(w) \in Row
BY DEF Visible, TypeOK, NoRow, Row

LEMMA EffectType ==
    ASSUME NEW f \in [Events -> Nat], NEW e, NEW b
    PROVE  [f EXCEPT ![e] = IF b THEN @ + 1 ELSE @] \in [Events -> Nat]
<1>1. ASSUME e \in Events PROVE f[e] \in Nat /\ f[e] + 1 \in Nat
  BY <1>1
<1>2. CASE b
  <2>1. [f EXCEPT ![e] = f[e] + 1] \in [Events -> Nat]
    BY <1>1
  <2> QED
    BY <1>2, <2>1
<1>3. CASE ~b
  BY <1>3
<1> QED
  BY <1>2, <1>3

LEMMA InitType == Init => TypeOK
<1> SUFFICES ASSUME Init PROVE TypeOK
  OBVIOUS
<1>1. tx \in [Callbacks -> TxType] /\ table \in [Events -> Row]
  BY NoTxType DEF Init
<1>2. \A w \in Callbacks : tx[w] = NoTx /\ pc[w] = "idle" /\ msg[w] = NoMessage
  BY DEF Init
<1> QED
  BY <1>1, <1>2 DEF Init, TypeOK, SubState, PC

LEMMA TypeStep == TypeOK /\ Identified /\ [Next]_vars => TypeOK'
<1> SUFFICES ASSUME TypeOK, Identified, [Next]_vars PROVE TypeOK'
  OBVIOUS
<1> USE InboxAssumption, NoTxType DEF TypeOK, SubState, PC, InTx, Goto, Fault
<1>1. ASSUME NEW w \in Callbacks, NEW m \in Messages, Deliver(w, m) PROVE TypeOK'
  BY <1>1 DEF Deliver
<1>2. ASSUME NEW w \in Callbacks, Enter(w) PROVE TypeOK'
  BY <1>2 DEF Enter
<1>3. ASSUME NEW w \in Callbacks, Begin(w) PROVE TypeOK'
  BY <1>3 DEF Begin
<1>4. ASSUME NEW w \in Callbacks, BeginFails(w) PROVE TypeOK'
  BY <1>4 DEF BeginFails
<1>5. ASSUME NEW w \in Callbacks, Insert(w) PROVE TypeOK'
  <2>1. table[Event(w)].exists \in BOOLEAN
    BY <1>5 DEF Insert, Row, Identified
  <2>2. tx' \in [Callbacks -> TxType]
    BY <1>5, <2>1, TxOperations DEF Insert
  <2> QED
    BY <1>5, <2>2 DEF Insert
<1>6. ASSUME NEW w \in Callbacks, Inserted(w) PROVE TypeOK'
  BY <1>6 DEF Inserted, Event
<1>7. ASSUME NEW w \in Callbacks, Conflicts(w) PROVE TypeOK'
  BY <1>7 DEF Conflicts, Event
<1>8. ASSUME NEW w \in Callbacks, Read(w) PROVE TypeOK'
  <2>1. Visible(w) \in Row
    BY <1>8, VisibleType DEF Read, Identified
  <2>2. tx' \in [Callbacks -> TxType]
    BY <1>8, <2>1, TxOperations DEF Read
  <2> QED
    BY <1>8, <2>2 DEF Read
<1>9. ASSUME NEW w \in Callbacks, HandleOk(w) PROVE TypeOK'
  <2>1. tx' \in [Callbacks -> TxType]
    BY <1>9, TxOperations DEF HandleOk
  <2> QED
    BY <1>9, <2>1 DEF HandleOk, Identified
<1>10. ASSUME NEW w \in Callbacks, HandleFails(w) PROVE TypeOK'
  BY <1>10 DEF HandleFails
<1>11. ASSUME NEW w \in Callbacks, HandlePanics(w) PROVE TypeOK'
  BY <1>11 DEF HandlePanics
<1>12. ASSUME NEW w \in Callbacks, RecordInboxError(w) PROVE TypeOK'
  <2>1. tx' \in [Callbacks -> TxType]
    BY <1>12, TxOperations DEF RecordInboxError
  <2> QED
    BY <1>12, <2>1 DEF RecordInboxError, Identified
<1>13. ASSUME NEW w \in Callbacks, MarkInboxProcessed(w) PROVE TypeOK'
  <2>1. tx' \in [Callbacks -> TxType]
    BY <1>13, TxOperations DEF MarkInboxProcessed
  <2> QED
    BY <1>13, <2>1 DEF MarkInboxProcessed, Identified
<1>14. ASSUME NEW w \in Callbacks, Commit(w) PROVE TypeOK'
  <2>1. table' \in [Events -> Row]
    BY <1>14 DEF Commit, Applied, TxType
  <2>2. tx' \in [Callbacks -> TxType]
    BY <1>14 DEF Commit, Applied
  <2>3. effect' \in [Events -> Nat]
    BY <1>14, EffectType DEF Commit, Applied
  <2>4. owner' \in [Events -> Callbacks \cup {NoOwner}]
    BY <1>14 DEF Commit, Applied
  <2> QED
    BY <1>14, <2>1, <2>2, <2>3, <2>4 DEF Commit, Applied
<1>15. ASSUME NEW w \in Callbacks, CommitUnanswered(w) PROVE TypeOK'
  <2>1. table' \in [Events -> Row]
    BY <1>15 DEF CommitUnanswered, Applied, TxType
  <2>2. tx' \in [Callbacks -> TxType]
    BY <1>15 DEF CommitUnanswered, Applied
  <2>3. effect' \in [Events -> Nat]
    BY <1>15, EffectType DEF CommitUnanswered, Applied
  <2>4. owner' \in [Events -> Callbacks \cup {NoOwner}]
    BY <1>15 DEF CommitUnanswered, Applied
  <2> QED
    BY <1>15, <2>1, <2>2, <2>3, <2>4 DEF CommitUnanswered, Applied
<1>16. ASSUME NEW w \in Callbacks, StatementFails(w) PROVE TypeOK'
  BY <1>16 DEF StatementFails
<1>17. ASSUME NEW w \in Callbacks, Rollback(w) PROVE TypeOK'
  BY <1>17 DEF Rollback, Event
<1>18. ASSUME NEW w \in Callbacks, Answer(w) PROVE TypeOK'
  BY <1>18 DEF Answer, Event
<1>19. ASSUME NEW w \in Callbacks, AckLost(w) PROVE TypeOK'
  BY <1>19 DEF AckLost, Event
<1>20. ASSUME NEW p \in Procs, Crash(p) PROVE TypeOK'
  BY <1>20 DEF Crash
<1>21. CASE Calm
  BY <1>21 DEF Calm
<1>22. CASE UNCHANGED vars
  BY <1>22 DEF vars
<1>23. ASSUME NEW w \in Callbacks, SessionLost(w) PROVE TypeOK'
  <2>1. tx' \in [Callbacks -> TxType]
    BY <1>23, TxOperations DEF SessionLost
  <2>2. owner' \in [Events -> Callbacks \cup {NoOwner}]
    BY <1>23 DEF SessionLost
  <2>3. \A v \in Callbacks : pc[v] \notin InTx => tx'[v] = NoTx
    BY <1>23 DEF SessionLost
  <2> QED
    BY <1>23, <2>1, <2>2, <2>3 DEF SessionLost
<1> QED
  BY <1>1, <1>2, <1>3, <1>4, <1>5, <1>6, <1>7, <1>8, <1>9, <1>10, <1>11, <1>12,
     <1>13, <1>14, <1>15, <1>16, <1>17, <1>18, <1>19, <1>20, <1>21, <1>22, <1>23
     DEF Next, Step

-----------------------------------------------------------------------------
(* The inductive invariant.                                                 *)

LEMMA IInvStep == IInv /\ [Next]_vars => IInv'
<1> SUFFICES ASSUME IInv, [Next]_vars PROVE IInv'
  OBVIOUS
<1>1. TypeOK'
  BY TypeStep DEF IInv
<1> USE InboxAssumption, <1>1 DEF IInv, TypeOK, InTx, Goto, Event
<1>2. ASSUME NEW w \in Callbacks, NEW m \in Messages, Deliver(w, m) PROVE IInv'
  <2>1. OwnerInserted'
    BY <1>2 DEF Deliver, OwnerInserted
  <2>2. KeyIsSettled'
    BY <1>2 DEF Deliver, KeyIsSettled, OwnerInserted
  <2>3. CommitIsWhole'
    BY <1>2 DEF Deliver, CommitIsWhole, KeyIsSettled
  <2>4. Identified' /\ RowsAreProcessed' /\ EffectOnce' /\ AckedWasProcessed'
    BY <1>2 DEF Deliver, Identified, RowsAreProcessed, EffectOnce, AckedWasProcessed
  <2> QED
    BY <2>1, <2>2, <2>3, <2>4
<1>3. ASSUME NEW w \in Callbacks, Enter(w) PROVE IInv'
  <2>1. OwnerInserted'
    BY <1>3 DEF Enter, OwnerInserted
  <2>2. KeyIsSettled'
    BY <1>3 DEF Enter, KeyIsSettled, OwnerInserted
  <2>3. CommitIsWhole'
    BY <1>3 DEF Enter, CommitIsWhole, KeyIsSettled
  <2>4. Identified' /\ RowsAreProcessed' /\ EffectOnce' /\ AckedWasProcessed'
    BY <1>3 DEF Enter, Identified, RowsAreProcessed, EffectOnce, AckedWasProcessed
  <2> QED
    BY <2>1, <2>2, <2>3, <2>4
<1>4. ASSUME NEW w \in Callbacks, Begin(w) PROVE IInv'
  <2>1. OwnerInserted'
    BY <1>4 DEF Begin, OwnerInserted
  <2>2. KeyIsSettled'
    BY <1>4 DEF Begin, KeyIsSettled, OwnerInserted
  <2>3. CommitIsWhole'
    BY <1>4 DEF Begin, CommitIsWhole, KeyIsSettled, NoTx
  <2>4. Identified' /\ RowsAreProcessed' /\ EffectOnce' /\ AckedWasProcessed'
    BY <1>4 DEF Begin, Identified, RowsAreProcessed, EffectOnce, AckedWasProcessed
  <2> QED
    BY <2>1, <2>2, <2>3, <2>4
<1>5. ASSUME NEW w \in Callbacks, BeginFails(w) PROVE IInv'
  <2>1. OwnerInserted'
    BY <1>5 DEF BeginFails, OwnerInserted
  <2>2. KeyIsSettled'
    BY <1>5 DEF BeginFails, KeyIsSettled, OwnerInserted
  <2>3. CommitIsWhole'
    BY <1>5 DEF BeginFails, CommitIsWhole, KeyIsSettled
  <2>4. Identified' /\ RowsAreProcessed' /\ EffectOnce' /\ AckedWasProcessed'
    BY <1>5
       DEF BeginFails, Identified, RowsAreProcessed, EffectOnce, AckedWasProcessed
  <2> QED
    BY <2>1, <2>2, <2>3, <2>4
<1>6. ASSUME NEW w \in Callbacks, Insert(w) PROVE IInv'
  <2>1. OwnerInserted'
    BY <1>6 DEF Insert, OwnerInserted
  <2>2. KeyIsSettled'
    BY <1>6 DEF Insert, KeyIsSettled, OwnerInserted
  <2>3. CommitIsWhole'
    BY <1>6 DEF Insert, CommitIsWhole, KeyIsSettled
  <2>4. Identified' /\ RowsAreProcessed' /\ EffectOnce' /\ AckedWasProcessed'
    BY <1>6 DEF Insert, Identified, RowsAreProcessed, EffectOnce, AckedWasProcessed
  <2> QED
    BY <2>1, <2>2, <2>3, <2>4
<1>7. ASSUME NEW w \in Callbacks, Inserted(w) PROVE IInv'
  <2>1. OwnerInserted'
    BY <1>7 DEF Inserted, OwnerInserted, Identified
  <2>2. KeyIsSettled'
    BY <1>7 DEF Inserted, KeyIsSettled, OwnerInserted, Identified
  <2>3. CommitIsWhole'
    BY <1>7 DEF Inserted, CommitIsWhole, KeyIsSettled, Identified
  <2>4. Identified' /\ RowsAreProcessed' /\ EffectOnce' /\ AckedWasProcessed'
    BY <1>7
       DEF Inserted, Identified, RowsAreProcessed, EffectOnce, AckedWasProcessed
  <2> QED
    BY <2>1, <2>2, <2>3, <2>4
<1>8. ASSUME NEW w \in Callbacks, Conflicts(w) PROVE IInv'
  <2>1. OwnerInserted'
    BY <1>8 DEF Conflicts, OwnerInserted, Identified
  <2>2. KeyIsSettled'
    BY <1>8 DEF Conflicts, KeyIsSettled, OwnerInserted, Identified
  <2>3. CommitIsWhole'
    BY <1>8 DEF Conflicts, CommitIsWhole, KeyIsSettled, Identified
  <2>4. Identified' /\ RowsAreProcessed' /\ EffectOnce' /\ AckedWasProcessed'
    BY <1>8
       DEF Conflicts, Identified, RowsAreProcessed, EffectOnce, AckedWasProcessed
  <2> QED
    BY <2>1, <2>2, <2>3, <2>4
<1>9. ASSUME NEW w \in Callbacks, Read(w) PROVE IInv'
  <2>1. OwnerInserted'
    BY <1>9
       DEF Read, Visible, OwnerInserted, Identified, RowsAreProcessed, NoRow, TxType
  <2>2. KeyIsSettled'
    BY <1>9
       DEF Read, Visible, KeyIsSettled, OwnerInserted, Identified, RowsAreProcessed,
           NoRow, TxType
  <2>3. CommitIsWhole'
    <3>1. ~tx[w].handled /\ ~tx'[w].handled
      BY <1>9 DEF Read, CommitIsWhole, TxType
    <3>2. Visible(w).processed =>
            owner[Event(w)] # w /\ table[Event(w)].processed
      BY DEF Visible, NoRow
    <3> QED
      BY <1>9, <3>1, <3>2 DEF Read, CommitIsWhole
  <2>4. Identified' /\ RowsAreProcessed' /\ EffectOnce' /\ AckedWasProcessed'
    BY <1>9
       DEF Read, Visible, Identified, RowsAreProcessed, EffectOnce,
           AckedWasProcessed
  <2> QED
    BY <2>1, <2>2, <2>3, <2>4
<1>10. ASSUME NEW w \in Callbacks, HandleOk(w) PROVE IInv'
  <2>1. OwnerInserted'
    BY <1>10 DEF HandleOk, OwnerInserted
  <2>2. KeyIsSettled'
    BY <1>10 DEF HandleOk, KeyIsSettled, OwnerInserted, TxType, Row
  <2>3. CommitIsWhole'
    BY <1>10 DEF HandleOk, CommitIsWhole, KeyIsSettled, TxType, Row
  <2>4. Identified' /\ RowsAreProcessed' /\ EffectOnce' /\ AckedWasProcessed'
    BY <1>10
       DEF HandleOk, Identified, RowsAreProcessed, EffectOnce, AckedWasProcessed
  <2> QED
    BY <2>1, <2>2, <2>3, <2>4
<1>11. ASSUME NEW w \in Callbacks, HandleFails(w) PROVE IInv'
  <2>1. OwnerInserted'
    BY <1>11 DEF HandleFails, OwnerInserted
  <2>2. KeyIsSettled'
    BY <1>11 DEF HandleFails, KeyIsSettled, OwnerInserted
  <2>3. CommitIsWhole'
    BY <1>11 DEF HandleFails, CommitIsWhole, KeyIsSettled
  <2>4. Identified' /\ RowsAreProcessed' /\ EffectOnce' /\ AckedWasProcessed'
    BY <1>11
       DEF HandleFails, Identified, RowsAreProcessed, EffectOnce, AckedWasProcessed
  <2> QED
    BY <2>1, <2>2, <2>3, <2>4
<1>12. ASSUME NEW w \in Callbacks, HandlePanics(w) PROVE IInv'
  <2>1. OwnerInserted'
    BY <1>12 DEF HandlePanics, OwnerInserted
  <2>2. KeyIsSettled'
    BY <1>12 DEF HandlePanics, KeyIsSettled, OwnerInserted
  <2>3. CommitIsWhole'
    BY <1>12 DEF HandlePanics, CommitIsWhole, KeyIsSettled
  <2>4. Identified' /\ RowsAreProcessed' /\ EffectOnce' /\ AckedWasProcessed'
    BY <1>12
       DEF HandlePanics, Identified, RowsAreProcessed, EffectOnce, AckedWasProcessed
  <2> QED
    BY <2>1, <2>2, <2>3, <2>4
<1>13. ASSUME NEW w \in Callbacks, RecordInboxError(w) PROVE IInv'
  <2>1. OwnerInserted'
    BY <1>13 DEF RecordInboxError, OwnerInserted
  <2>2. KeyIsSettled'
    BY <1>13 DEF RecordInboxError, KeyIsSettled, OwnerInserted, TxType, Row
  <2>3. CommitIsWhole'
    BY <1>13 DEF RecordInboxError, CommitIsWhole, KeyIsSettled, TxType, Row
  <2>4. Identified' /\ RowsAreProcessed' /\ EffectOnce' /\ AckedWasProcessed'
    BY <1>13
       DEF RecordInboxError, Identified, RowsAreProcessed, EffectOnce,
           AckedWasProcessed
  <2> QED
    BY <2>1, <2>2, <2>3, <2>4
<1>14. ASSUME NEW w \in Callbacks, MarkInboxProcessed(w) PROVE IInv'
  <2>1. OwnerInserted'
    BY <1>14 DEF MarkInboxProcessed, OwnerInserted
  <2>2. KeyIsSettled'
    BY <1>14 DEF MarkInboxProcessed, KeyIsSettled, OwnerInserted, TxType, Row
  <2>3. CommitIsWhole'
    BY <1>14 DEF MarkInboxProcessed, CommitIsWhole, KeyIsSettled, TxType, Row
  <2>4. Identified' /\ RowsAreProcessed' /\ EffectOnce' /\ AckedWasProcessed'
    BY <1>14
       DEF MarkInboxProcessed, Identified, RowsAreProcessed, EffectOnce,
           AckedWasProcessed
  <2> QED
    BY <2>1, <2>2, <2>3, <2>4
<1>15. ASSUME NEW w \in Callbacks, Commit(w) PROVE IInv'
  <2>1. OwnerInserted'
    BY <1>15 DEF Commit, Applied, OwnerInserted, CommitIsWhole, Identified
  <2>2. KeyIsSettled'
    BY <1>15
       DEF Commit, Applied, KeyIsSettled, OwnerInserted, CommitIsWhole, Identified
  <2>3. CommitIsWhole'
    BY <1>15
       DEF Commit, Applied, CommitIsWhole, KeyIsSettled, OwnerInserted, Identified,
           TxType, Row, NoTx
  <2>4. Identified'
    BY <1>15 DEF Commit, Applied, Identified
  <2>5. RowsAreProcessed'
    BY <1>15 DEF Commit, Applied, RowsAreProcessed, CommitIsWhole, Identified
  <2>6. EffectOnce'
    BY <1>15
       DEF Commit, Applied, EffectOnce, CommitIsWhole, Identified, OwnerInserted,
           RowsAreProcessed
  <2>7. AckedWasProcessed'
    BY <1>15
       DEF Commit, Applied, AckedWasProcessed, CommitIsWhole, Identified, Row,
           TxType
  <2> QED
    BY <2>1, <2>2, <2>3, <2>4, <2>5, <2>6, <2>7
<1>16. ASSUME NEW w \in Callbacks, CommitUnanswered(w) PROVE IInv'
  <2>1. OwnerInserted'
    BY <1>16 DEF CommitUnanswered, Applied, OwnerInserted, CommitIsWhole, Identified
  <2>2. KeyIsSettled'
    BY <1>16
       DEF CommitUnanswered, Applied, KeyIsSettled, OwnerInserted, CommitIsWhole,
           Identified
  <2>3. CommitIsWhole'
    BY <1>16
       DEF CommitUnanswered, Applied, CommitIsWhole, KeyIsSettled, OwnerInserted,
           Identified, TxType, Row, NoTx
  <2>4. Identified'
    BY <1>16 DEF CommitUnanswered, Applied, Identified
  <2>5. RowsAreProcessed'
    BY <1>16
       DEF CommitUnanswered, Applied, RowsAreProcessed, CommitIsWhole, Identified
  <2>6. EffectOnce'
    BY <1>16
       DEF CommitUnanswered, Applied, EffectOnce, CommitIsWhole, Identified,
           OwnerInserted, RowsAreProcessed
  <2>7. AckedWasProcessed'
    BY <1>16
       DEF CommitUnanswered, Applied, AckedWasProcessed, CommitIsWhole, Identified,
           Row, TxType
  <2> QED
    BY <2>1, <2>2, <2>3, <2>4, <2>5, <2>6, <2>7
<1>17. ASSUME NEW w \in Callbacks, StatementFails(w) PROVE IInv'
  <2>1. OwnerInserted'
    BY <1>17 DEF StatementFails, OwnerInserted
  <2>2. KeyIsSettled'
    BY <1>17 DEF StatementFails, KeyIsSettled, OwnerInserted
  <2>3. CommitIsWhole'
    BY <1>17 DEF StatementFails, CommitIsWhole, KeyIsSettled
  <2>4. Identified' /\ RowsAreProcessed' /\ EffectOnce' /\ AckedWasProcessed'
    BY <1>17
       DEF StatementFails, Identified, RowsAreProcessed, EffectOnce,
           AckedWasProcessed
  <2> QED
    BY <2>1, <2>2, <2>3, <2>4
<1>18. ASSUME NEW w \in Callbacks, Rollback(w) PROVE IInv'
  <2>1. OwnerInserted'
    BY <1>18 DEF Rollback, OwnerInserted
  <2>2. KeyIsSettled'
    BY <1>18 DEF Rollback, KeyIsSettled, OwnerInserted
  <2>3. CommitIsWhole'
    BY <1>18 DEF Rollback, CommitIsWhole, KeyIsSettled, NoTx
  <2>4. Identified' /\ RowsAreProcessed' /\ EffectOnce' /\ AckedWasProcessed'
    BY <1>18
       DEF Rollback, Identified, RowsAreProcessed, EffectOnce, AckedWasProcessed
  <2> QED
    BY <2>1, <2>2, <2>3, <2>4
<1>19. ASSUME NEW w \in Callbacks, Answer(w) PROVE IInv'
  <2>1. OwnerInserted'
    BY <1>19 DEF Answer, OwnerInserted
  <2>2. KeyIsSettled'
    BY <1>19 DEF Answer, KeyIsSettled, OwnerInserted
  <2>3. CommitIsWhole'
    BY <1>19 DEF Answer, CommitIsWhole, KeyIsSettled
  <2>4. Identified' /\ RowsAreProcessed' /\ EffectOnce' /\ AckedWasProcessed'
    BY <1>19
       DEF Answer, Identified, RowsAreProcessed, EffectOnce, AckedWasProcessed,
           CommitIsWhole
  <2> QED
    BY <2>1, <2>2, <2>3, <2>4
<1>20. ASSUME NEW w \in Callbacks, AckLost(w) PROVE IInv'
  <2>1. OwnerInserted'
    BY <1>20 DEF AckLost, OwnerInserted
  <2>2. KeyIsSettled'
    BY <1>20 DEF AckLost, KeyIsSettled, OwnerInserted
  <2>3. CommitIsWhole'
    BY <1>20 DEF AckLost, CommitIsWhole, KeyIsSettled
  <2>4. Identified' /\ RowsAreProcessed' /\ EffectOnce' /\ AckedWasProcessed'
    BY <1>20
       DEF AckLost, Identified, RowsAreProcessed, EffectOnce, AckedWasProcessed
  <2> QED
    BY <2>1, <2>2, <2>3, <2>4
<1>21. ASSUME NEW p \in Procs, Crash(p) PROVE IInv'
  <2>1. OwnerInserted'
    BY <1>21 DEF Crash, OwnerInserted
  <2>2. KeyIsSettled'
    BY <1>21 DEF Crash, KeyIsSettled, OwnerInserted, Identified
  <2>3. CommitIsWhole'
    BY <1>21 DEF Crash, CommitIsWhole, KeyIsSettled, Identified, NoTx
  <2>4. Identified' /\ RowsAreProcessed' /\ EffectOnce' /\ AckedWasProcessed'
    BY <1>21 DEF Crash, Identified, RowsAreProcessed, EffectOnce, AckedWasProcessed
  <2> QED
    BY <2>1, <2>2, <2>3, <2>4
<1>22. CASE Calm \/ UNCHANGED vars
  BY <1>22 DEF Calm, vars, OwnerInserted, KeyIsSettled, CommitIsWhole,
                Identified, RowsAreProcessed, EffectOnce, AckedWasProcessed
<1>23. ASSUME NEW w \in Callbacks, SessionLost(w) PROVE IInv'
  <2>0. \A v \in Callbacks \ {w} : tx'[v] = tx[v]
    BY <1>23 DEF SessionLost
  <2>1. OwnerInserted'
    BY <1>23 DEF SessionLost, OwnerInserted
  <2>2. KeyIsSettled'
    BY <1>23, <2>0 DEF SessionLost, KeyIsSettled, Identified
  <2>3. CommitIsWhole'
    BY <1>23, <2>0 DEF SessionLost, CommitIsWhole, Identified
  <2>4. Identified' /\ RowsAreProcessed' /\ EffectOnce' /\ AckedWasProcessed'
    BY <1>23 DEF SessionLost, Identified, RowsAreProcessed, EffectOnce, AckedWasProcessed
  <2> QED
    BY <2>1, <2>2, <2>3, <2>4
<1> QED
  BY <1>1, <1>2, <1>3, <1>4, <1>5, <1>6, <1>7, <1>8, <1>9, <1>10, <1>11, <1>12,
     <1>13, <1>14, <1>15, <1>16, <1>17, <1>18, <1>19, <1>20, <1>21, <1>22, <1>23
     DEF Next, Step

LEMMA InitIInv == Init => IInv
<1> SUFFICES ASSUME Init PROVE IInv
  OBVIOUS
<1>1. TypeOK
  BY InitType
<1>2. \A w \in Callbacks : pc[w] = "idle" /\ ~tx[w].handled
  BY DEF Init, NoTx
<1>3. \A e \in Events : owner[e] \notin Callbacks
  BY InboxAssumption DEF Init
<1>4. \A e \in Events : ~table[e].exists /\ ~table[e].processed /\ effect[e] = 0
  BY DEF Init, NoRow
<1>5. \A m \in Messages : sub[m] # "acked"
  BY DEF Init
<1> QED
  BY <1>1, <1>2, <1>3, <1>4, <1>5
     DEF IInv, OwnerInserted, KeyIsSettled, CommitIsWhole, Identified, InTx,
         RowsAreProcessed, EffectOnce, AckedWasProcessed

LEMMA Invariance == Spec => []IInv
BY InitIInv, IInvStep, PTL DEF Spec

\* Every variable keeps its type, and nothing of a transaction outlives it.
THEOREM InboxTypeCorrect == Spec => []TypeOK
BY Invariance, PTL DEF IInv

\* The handler's effect is committed once per event, whatever is duplicated,
\* redelivered, rolled back or lost.
THEOREM EffectHappensOnce == Spec => []EffectOnce
BY Invariance, PTL DEF IInv

\* An acknowledged message belongs to a processed event.
THEOREM AckIsHonest == Spec => []AckedWasProcessed
BY Invariance, PTL DEF IInv

\* No row is ever committed with processed_at NULL.
THEOREM NoPendingRow == Spec => []CommittedIsProcessed
<1>1. IInv => CommittedIsProcessed
  BY DEF IInv, RowsAreProcessed, CommittedIsProcessed
<1> QED
  BY <1>1, Invariance, PTL

\* The inserted key is a lock on the handler of its event: whatever the server
\* does to sessions, one handler at most can still commit.
THEOREM HandlersAreExclusive == Spec => []HandlersExclude
<1>1. IInv => HandlersExclude
  BY DEF IInv, KeyIsSettled, HandlersExclude
<1> QED
  BY <1>1, Invariance, PTL

-----------------------------------------------------------------------------
(* Who waits for whom.                                                      *)

\* A callback waits for the key its insert conflicts with, or for a slot of Run's
\* semaphore; any other one that has a message goes on by itself.
WaitsForKey(w) ==
    /\ pc[w] = "inserting" /\ ~tx[w].lost
    /\ ~table[Event(w)].exists /\ owner[Event(w)] # NoOwner

WaitsForSlot(w) ==
    pc[w] = "waiting" /\ Cardinality(Holders(Home[w])) >= MaxConcurrency

GoesOn(w) ==
    w \in Callbacks /\ pc[w] # "idle" /\ ~WaitsForKey(w) /\ ~WaitsForSlot(w)

\* Who waits for a key waits for a callback that goes on, and who waits for a slot
\* waits for one that goes on or that waits for a key.
NoWaitCycle ==
    \A w \in Callbacks :
        /\ WaitsForKey(w) => GoesOn(owner[Event(w)])
        /\ WaitsForSlot(w) => \E v \in Holders(Home[w]) : GoesOn(v) \/ WaitsForKey(v)

\* The slots of the semaphores and the keys of inbox_events are never waited for
\* in a circle, with any number of processes, slots and duplicates: the owner of a
\* key is past its only wait, since a transaction inserts one key and a callback
\* takes its slot before it opens the transaction.
THEOREM CallbacksDoNotDeadlock == Spec => []NoWaitCycle
<1>1. ASSUME IInv, NEW w \in Callbacks, WaitsForKey(w)
      PROVE  GoesOn(owner[Event(w)])
  <2>1. Event(w) \in Events
    BY <1>1 DEF IInv, Identified, InTx, WaitsForKey
  <2>2. owner[Event(w)] \in Callbacks
    BY <1>1, <2>1 DEF IInv, TypeOK, WaitsForKey
  <2>3. pc[owner[Event(w)]] \in {"read", "handle", "failed", "mark", "commit", "rollback"}
    BY <1>1, <2>1, <2>2 DEF IInv, OwnerInserted
  <2>. QED
    BY <2>2, <2>3 DEF GoesOn, WaitsForKey, WaitsForSlot
<1>2. ASSUME IInv, NEW w \in Callbacks, WaitsForSlot(w)
      PROVE  \E v \in Holders(Home[w]) : GoesOn(v) \/ WaitsForKey(v)
  <2>1. Holders(Home[w]) # {}
    BY <1>2, FS_EmptySet, InboxAssumption DEF WaitsForSlot
  <2>2. PICK v \in Holders(Home[w]) : TRUE
    BY <2>1
  <2>3. v \in Callbacks /\ pc[v] \in InTx \cup {"begin"}
    BY <2>2 DEF Holders
  <2>4. pc[v] # "idle" /\ pc[v] # "waiting"
    BY <2>3 DEF InTx
  <2>. QED
    BY <2>2, <2>3, <2>4 DEF GoesOn, WaitsForSlot
<1>3. IInv => NoWaitCycle
  BY <1>1, <1>2 DEF NoWaitCycle
<1>. QED
  BY <1>3, Invariance, PTL

-----------------------------------------------------------------------------
(* Refinement.                                                              *)

SettledMessages == {m \in Messages : sub[m] = "acked"}

\* A commit applies the effect of an event for the first time, or changes
\* nothing the contract sees.
LEMMA CommitStep ==
    ASSUME IInv, NEW w \in Callbacks, pc[w] = "commit", ~tx[w].lost, Applied(w), sub' = sub
    PROVE  (\E e \in Events : Contract!Apply(e)) \/ UNCHANGED Contract!inboxVars
<1> USE DEF IInv
<1>1. Event(w) \in Events
  BY DEF Identified, InTx
<1>2. CASE tx[w].handled
  <2>1. effect[Event(w)] = 0
    BY <1>1, <1>2 DEF CommitIsWhole, OwnerInserted, RowsAreProcessed, EffectOnce
  <2>2. effect' = [effect EXCEPT ![Event(w)] = 1]
    BY <1>1, <1>2, <2>1 DEF Applied, TypeOK
  <2> QED
    BY <1>1, <2>1, <2>2 DEF Contract!Apply
<1>3. CASE ~tx[w].handled
  BY <1>3 DEF Applied, TypeOK, Contract!inboxVars
<1> QED
  BY <1>2, <1>3

\* An answer settles a message whose event has its effect, or nothing.
LEMMA AnswerStep ==
    ASSUME IInv, NEW w \in Callbacks, Answer(w)
    PROVE  (\E m \in Messages : Contract!Settle(m)) \/ UNCHANGED Contract!inboxVars
<1> USE DEF IInv
<1>1. msg[w] \in Messages /\ effect' = effect
  BY DEF Answer, TypeOK
<1>2. CASE pc[w] = "ack"
  <2>1. Event(w) \in Events /\ effect[Event(w)] = 1
    BY <1>2 DEF Identified, CommitIsWhole, EffectOnce
  <2>2. sub' = [sub EXCEPT ![msg[w]] = "acked"]
    BY <1>2 DEF Answer
  <2>3. SettledMessages' = SettledMessages \cup {msg[w]}
    BY <1>1, <2>2 DEF SettledMessages, TypeOK
  <2> QED
    BY <1>1, <2>1, <2>3 DEF Contract!Settle, SettledMessages, Event
<1>3. CASE pc[w] # "ack"
  <2>1. \A m \in Messages : sub'[m] = "acked" <=> sub[m] = "acked"
    BY <1>1, <1>3 DEF Answer, TypeOK
  <2> QED
    BY <1>1, <2>1 DEF Contract!inboxVars
<1> QED
  BY <1>2, <1>3

\* Every other step keeps the effects and the acknowledged messages.
LEMMA InboxStutter ==
    ASSUME effect' = effect,
           \A m \in Messages : sub'[m] = "acked" <=> sub[m] = "acked"
    PROVE  UNCHANGED Contract!inboxVars
BY DEF Contract!inboxVars

LEMMA InboxStep ==
    ASSUME IInv, [Next]_vars
    PROVE  Contract!InboxNext \/ UNCHANGED Contract!inboxVars
<1>1. ASSUME NEW w \in Callbacks, NEW m \in Messages, Deliver(w, m)
      PROVE  UNCHANGED Contract!inboxVars
  BY <1>1, InboxStutter DEF Deliver, IInv, TypeOK
<1>2. ASSUME NEW w \in Callbacks, Commit(w) \/ CommitUnanswered(w)
      PROVE  Contract!InboxNext \/ UNCHANGED Contract!inboxVars
  BY <1>2, CommitStep DEF Commit, CommitUnanswered, Contract!InboxNext
<1>3. ASSUME NEW w \in Callbacks, Answer(w)
      PROVE  Contract!InboxNext \/ UNCHANGED Contract!inboxVars
  BY <1>3, AnswerStep DEF Contract!InboxNext
<1>4. ASSUME NEW w \in Callbacks, AckLost(w)
      PROVE  UNCHANGED Contract!inboxVars
  BY <1>4, InboxStutter DEF AckLost, IInv, TypeOK
<1>5. ASSUME NEW w \in Callbacks,
             \/ Enter(w) \/ Begin(w) \/ BeginFails(w)
             \/ Insert(w) \/ Inserted(w) \/ Conflicts(w) \/ Read(w)
             \/ HandleOk(w) \/ HandleFails(w) \/ HandlePanics(w)
             \/ RecordInboxError(w) \/ MarkInboxProcessed(w)
             \/ StatementFails(w) \/ Rollback(w)
      PROVE  UNCHANGED Contract!inboxVars
  BY <1>5, InboxStutter
     DEF Enter, Begin, BeginFails, Insert, Inserted, Conflicts, Read, HandleOk,
         HandleFails, HandlePanics, RecordInboxError, MarkInboxProcessed,
         StatementFails, Rollback
<1>6. ASSUME NEW p \in Procs, Crash(p)
      PROVE  UNCHANGED Contract!inboxVars
  BY <1>6, InboxStutter DEF Crash
<1>7. CASE Calm \/ UNCHANGED vars
  BY <1>7, InboxStutter DEF Calm, vars
<1>8. ASSUME NEW w \in Callbacks, SessionLost(w)
      PROVE  UNCHANGED Contract!inboxVars
  BY <1>8, InboxStutter DEF SessionLost
<1> QED
  BY <1>1, <1>2, <1>3, <1>4, <1>5, <1>6, <1>7, <1>8 DEF Next, Step

LEMMA InboxStart == Init => Contract!InboxInit
BY DEF Init, Contract!InboxInit

\* The consumer is an implementation of the inbox contract.
THEOREM ConsumerImplementsInbox == Spec => ImplementsInbox
<1>1. IInv /\ [Next]_vars => [Contract!InboxNext]_Contract!inboxVars
  BY InboxStep
<1> QED
  BY <1>1, InboxStart, Invariance, PTL DEF Spec, ImplementsInbox, Contract!InboxSpec
=============================================================================
