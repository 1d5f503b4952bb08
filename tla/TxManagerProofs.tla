--------------------------- MODULE TxManagerProofs ---------------------------
(***************************************************************************)
(* The safety properties of TxManager for any number of calls, rows and     *)
(* connections, nested to any depth, and with any faults.  The places   *)
(* of a call tell what it holds and what may have become of its transaction *)
(* (CallOK); a call that has made another one stays in "inner" until that    *)
(* one is back (Nesting), which is why the return of a nested call may        *)
(* overwrite the place of its parent.                                        *)
(***************************************************************************)
EXTENDS TxManager, FiniteSetTheorems, TLAPS

\* TypeOK without the sizes.
Types ==
    /\ at \in [Calls -> Place]
    /\ conn \subseteq Calls
    /\ want \in [Calls -> Keys \cup {NoKey}]
    /\ err \in [Calls -> Error]
    /\ result \in [Calls -> Result]
    /\ expired \subseteq Calls
    /\ lock \in [Keys -> Calls \cup {NoCall}]
    /\ effect \in [Calls -> Effect]

\* The pool never has more connections out than it has.
PoolOK == IsFiniteSet(conn) /\ Cardinality(conn) <= MaxConns

Failures == {"error", "retryable", "panic"}

\* What a call that has returned may have left in the database.
Settled(c) ==
    /\ result[c] \in {"nil", "lost"} \cup Failures
    /\ result[c] = "nil" => effect[c] = "applied"
    /\ result[c] = "lost" => effect[c] \in {"indoubt", "orphaned", "gone", "applied"}
    /\ result[c] \in Failures => effect[c] \in {"none", "orphaned", "gone"}

InTx == {"setup", "run", "wait", "inner", "commit"}

CallOK(c) ==
    /\ at[c] \in {"none", "begin"} =>
          c \notin conn /\ effect[c] = "none" /\ result[c] = "none"
    /\ at[c] \in InTx =>
          c \in conn /\ effect[c] \in {"open", "aborted"} /\ result[c] = "none"
    /\ at[c] = "rollback" =>
          c \in conn /\ effect[c] \in {"open", "aborted"} /\ result[c] \in Failures
    /\ at[c] = "done" => c \notin conn /\ Settled(c)

\* A parent waits for its nested call, and has one at a time.
Nesting ==
    /\ \A c \in Calls : Open(c) /\ Parent[c] # NoCall => at[Parent[c]] = "inner"
    /\ \A c, d \in Calls :
          Open(c) /\ Open(d) /\ Parent[c] = Parent[d] /\ Parent[c] # NoCall => c = d

LocksOK ==
    \A k \in Keys : lock[k] # NoCall =>
        lock[k] \in conn \/ effect[lock[k]] \in {"orphaned", "indoubt"}

\* The calls that the gauge counts.
Active == {c \in Calls : Open(c) /\ at[c] # "rollback"}

GaugeOK == IsFiniteSet(Active) /\ active = Cardinality(Active)

TxInv ==
    /\ Types /\ PoolOK
    /\ \A c \in Calls : CallOK(c)
    /\ Nesting /\ LocksOK /\ GaugeOK

-----------------------------------------------------------------------------
(* What the constants, the sets and the nesting give to every step.         *)

LEMMA ParentIsAnother ==
    \A c \in Calls : Parent[c] # c /\ Parent[c] \in Calls \cup {NoCall}
<1> TAKE c \in Calls
<1>1. {c} \in SUBSET Calls /\ {c} # {}
  OBVIOUS
<1>2. \E d \in {c} : Parent[d] \notin {c}
  BY <1>1, TxAssumption
<1> QED
  BY <1>2, TxAssumption

LEMMA PoolShrinks ==
    ASSUME PoolOK, NEW c, conn' = conn \ {c}
    PROVE  PoolOK'
<1>1. IsFiniteSet(conn') /\ Cardinality(conn') <= Cardinality(conn)
  BY FS_RemoveElement, FS_CardinalityType DEF PoolOK
<1>2. Cardinality(conn) \in Nat /\ Cardinality(conn') \in Nat
  BY <1>1, FS_CardinalityType DEF PoolOK
<1>. QED
  BY <1>1, <1>2, TxAssumption DEF PoolOK

LEMMA PoolGrows ==
    ASSUME PoolOK, NEW c, conn' = conn \cup {c}, Cardinality(conn) < MaxConns
    PROVE  PoolOK'
<1>1. /\ IsFiniteSet(conn')
      /\ Cardinality(conn') = Cardinality(conn) \/ Cardinality(conn') = Cardinality(conn) + 1
  BY FS_AddElement DEF PoolOK
<1>2. Cardinality(conn) \in Nat
  BY FS_CardinalityType DEF PoolOK
<1>. QED
  BY <1>1, <1>2, TxAssumption DEF PoolOK

LEMMA GaugeUp ==
    ASSUME GaugeOK, NEW c, c \notin Active, Active' = Active \cup {c}, active' = active + 1
    PROVE  GaugeOK'
  BY FS_AddElement DEF GaugeOK

LEMMA GaugeDown ==
    ASSUME GaugeOK, NEW c \in Active, Active' = Active \ {c}, active' = active - 1
    PROVE  GaugeOK'
  BY FS_RemoveElement DEF GaugeOK

LEMMA GaugeSame ==
    ASSUME GaugeOK, Active' = Active, active' = active
    PROVE  GaugeOK'
  BY DEF GaugeOK

\* A nested call comes back: it has left, and its parent goes on.
LEMMA BackWorks ==
    ASSUME TxInv, NEW c \in Calls,
           at[c] \in {"begin", "commit", "rollback"}, NEW e \in Error, Back(c, e)
    PROVE  /\ at' \in [Calls -> Place] /\ err' \in [Calls -> Error]
           /\ PoolOK' /\ Nesting'
           /\ Active' = Active \ {c}
           /\ at'[c] = "done"
           /\ \A d \in Calls \ {c} : at'[d] = at[d] \/ (at[d] = "inner" /\ at'[d] = "run")
<1> USE DEF TxInv, Types, Place, Open
<1>1. at' \in [Calls -> Place] /\ err' \in [Calls -> Error] /\ at'[c] = "done"
  BY DEF Back, Error
<1>2. \A d \in Calls \ {c} : at'[d] = at[d] \/ (at[d] = "inner" /\ at'[d] = "run")
  <2>. TAKE d \in Calls \ {c}
  <2>1. CASE d = Parent[c]
    BY <2>1, TxAssumption DEF Back, Nesting
  <2>2. CASE d # Parent[c]
    BY <2>2 DEF Back
  <2>. QED
    BY <2>1, <2>2
<1>3. Nesting'
  <2>1. ASSUME NEW d \in Calls, Open(d)', Parent[d] # NoCall PROVE at'[Parent[d]] = "inner"
    <3>1. d # c /\ Open(d) /\ at[Parent[d]] = "inner" /\ Parent[d] \in Calls \ {c}
      BY <1>1, <1>2, <2>1, ParentIsAnother, TxAssumption DEF Nesting
    <3>2. Parent[d] # Parent[c]
      BY <2>1, <3>1 DEF Nesting
    <3>. QED
      BY <3>1, <3>2 DEF Back
  <2>2. \A d \in Calls : Open(d)' => Open(d)
    BY <1>1, <1>2
  <2>. QED
    BY <2>1, <2>2 DEF Nesting
<1>4. Active' = Active \ {c}
  BY <1>1, <1>2 DEF Active
<1>5. PoolOK'
  BY PoolShrinks DEF Back
<1>. QED
  BY <1>1, <1>2, <1>3, <1>4, <1>5

LEMMA TxInvInit == Init => TxInv
<1> SUFFICES ASSUME Init PROVE TxInv
  OBVIOUS
<1>1. Types /\ (\A c \in Calls : CallOK(c)) /\ Nesting /\ LocksOK
  BY DEF Init, Types, Place, Error, Result, Effect, CallOK, InTx, Nesting, Open, LocksOK
<1>2. Active = {} /\ conn = {}
  BY DEF Init, Active, Open
<1>3. PoolOK /\ GaugeOK
  BY <1>2, FS_EmptySet, TxAssumption DEF PoolOK, GaugeOK, Init
<1>. QED
  BY <1>1, <1>3 DEF TxInv

-----------------------------------------------------------------------------
(* The steps of a call.                                                     *)

\* A call begins: its parent, if it has one, begins to wait for it.
LEMMA CallWorks ==
    ASSUME TxInv, NEW c \in Calls, Call(c)
    PROVE  /\ at' \in [Calls -> Place] /\ at'[c] = "begin" /\ at[c] = "none"
           /\ \A d \in Calls \ {c} :
                 \/ at'[d] = at[d] /\ d # Parent[c]
                 \/ d = Parent[c] /\ at[d] = "run" /\ at'[d] = "inner"
<1> USE DEF TxInv, Types, Place
<1>1. at' \in [Calls -> Place] /\ at'[c] = "begin" /\ at[c] = "none"
  BY DEF Call
<1>2. ASSUME NEW d \in Calls \ {c}, d = Parent[c] PROVE at[d] = "run" /\ at'[d] = "inner"
  BY <1>2, TxAssumption DEF Call
<1>3. ASSUME NEW d \in Calls \ {c}, d # Parent[c] PROVE at'[d] = at[d]
  BY <1>3 DEF Call
<1>. QED
  BY <1>1, <1>2, <1>3

LEMMA CallKeeps ==
    ASSUME TxInv, NEW c \in Calls, Call(c)
    PROVE  TxInv'
<1> USE DEF TxInv, Types, Place, Error, Result, Effect, Open
<1>1. Types'
  BY CallWorks DEF Call
<1>2. \A d \in Calls : CallOK(d)'
  BY CallWorks DEF Call, CallOK, InTx, Settled, Failures
<1>3. Nesting'
  <2>1. ASSUME NEW d \in Calls, Open(d)', Parent[d] # NoCall PROVE at'[Parent[d]] = "inner"
    <3>1. CASE d = c
      BY <2>1, <3>1, CallWorks, ParentIsAnother
    <3>2. CASE d # c
      <4>1. Parent[d] \in Calls \ {c} /\ at[Parent[d]] = "inner"
        BY <2>1, <3>2, CallWorks, ParentIsAnother DEF Nesting
      <4>. QED
        BY <4>1, CallWorks
    <3>. QED
      BY <3>1, <3>2
  <2>2. ASSUME NEW d \in Calls \ {c}, Open(d), Parent[c] # NoCall PROVE Parent[d] # Parent[c]
    BY <2>2, CallWorks, ParentIsAnother DEF Nesting
  <2>3. \A d \in Calls \ {c} : Open(d)' => Open(d)
    BY CallWorks
  <2>. QED
    BY <2>1, <2>2, <2>3 DEF Nesting
<1>4. LocksOK' /\ PoolOK'
  BY DEF Call, LocksOK, PoolOK
<1>5. GaugeOK'
  <2>1. c \notin Active /\ Active' = Active \cup {c} /\ active' = active + 1
    BY CallWorks DEF Call, Active
  <2>. QED
    BY <2>1, GaugeUp
<1>. QED
  BY <1>1, <1>2, <1>3, <1>4, <1>5

LEMMA BeginKeeps ==
    ASSUME TxInv, NEW c \in Calls, Begin(c)
    PROVE  TxInv'
<1> USE DEF TxInv, Types, Place, Error, Result, Effect, Open
<1>1. Types'
  BY TxAssumption DEF Begin, Goto
<1>2. \A d \in Calls : CallOK(d)'
  BY DEF Begin, Goto, CallOK, InTx, Settled, Failures
<1>3. Nesting'
  BY ParentIsAnother, TxAssumption DEF Begin, Goto, Nesting
<1>4. LocksOK'
  BY TxAssumption DEF Begin, Goto, LocksOK, CallOK, InTx
<1>5. PoolOK'
  BY PoolGrows DEF Begin, Goto
<1>6. GaugeOK'
  <2>1. Active' = Active /\ active' = active
    BY DEF Begin, Goto, Active
  <2>. QED
    BY <2>1, GaugeSame
<1>. QED
  BY <1>1, <1>2, <1>3, <1>4, <1>5, <1>6

LEMMA SetupKeeps ==
    ASSUME TxInv, NEW c \in Calls, Setup(c)
    PROVE  TxInv'
<1> USE DEF TxInv, Types, Place, Error, Result, Effect, Open
<1>1. Types'
  BY TxAssumption DEF Setup, Goto
<1>2. \A d \in Calls : CallOK(d)'
  BY DEF Setup, Goto, CallOK, InTx, Settled, Failures
<1>3. Nesting'
  BY ParentIsAnother, TxAssumption DEF Setup, Goto, Nesting
<1>4. LocksOK'
  BY TxAssumption DEF Setup, Goto, LocksOK, CallOK, InTx
<1>5. PoolOK'
  BY DEF Setup, Goto, PoolOK
<1>6. GaugeOK'
  <2>1. Active' = Active /\ active' = active
    BY DEF Setup, Goto, Active
  <2>. QED
    BY <2>1, GaugeSame
<1>. QED
  BY <1>1, <1>2, <1>3, <1>4, <1>5, <1>6

LEMMA SetupFailsKeeps ==
    ASSUME TxInv, NEW c \in Calls, SetupFails(c)
    PROVE  TxInv'
<1> USE DEF TxInv, Types, Place, Error, Result, Effect, Open
<1>1. Types'
  BY TxAssumption DEF SetupFails, Fail, Goto
<1>2. \A d \in Calls : CallOK(d)'
  BY DEF SetupFails, Fail, Goto, CallOK, InTx, Settled, Failures
<1>3. Nesting'
  BY ParentIsAnother, TxAssumption DEF SetupFails, Fail, Goto, Nesting
<1>4. LocksOK'
  BY TxAssumption DEF SetupFails, Fail, Goto, LocksOK, CallOK, InTx
<1>5. PoolOK'
  BY DEF SetupFails, Fail, Goto, PoolOK
<1>6. GaugeOK'
  <2>1. c \in Active /\ Active' = Active \ {c} /\ active' = active - 1
    BY DEF SetupFails, Fail, Goto, Active
  <2>. QED
    BY <2>1, GaugeDown
<1>. QED
  BY <1>1, <1>2, <1>3, <1>4, <1>5, <1>6

LEMMA TakeKeeps ==
    ASSUME TxInv, NEW c \in Calls, NEW k \in Keys, Take(c, k)
    PROVE  TxInv'
<1> USE DEF TxInv, Types, Place, Error, Result, Effect, Open
<1>1. Types'
  BY TxAssumption DEF Take, Running
<1>2. \A d \in Calls : CallOK(d)'
  BY DEF Take, Running, CallOK, InTx, Settled, Failures
<1>3. Nesting'
  BY ParentIsAnother, TxAssumption DEF Take, Running, Nesting
<1>4. LocksOK'
  BY TxAssumption DEF Take, Running, LocksOK, CallOK, InTx
<1>5. PoolOK'
  BY DEF Take, Running, PoolOK
<1>6. GaugeOK'
  <2>1. Active' = Active /\ active' = active
    BY DEF Take, Running, Active
  <2>. QED
    BY <2>1, GaugeSame
<1>. QED
  BY <1>1, <1>2, <1>3, <1>4, <1>5, <1>6

LEMMA WaitKeeps ==
    ASSUME TxInv, NEW c \in Calls, NEW k \in Keys, Wait(c, k)
    PROVE  TxInv'
<1> USE DEF TxInv, Types, Place, Error, Result, Effect, Open
<1>1. Types'
  BY TxAssumption DEF Wait, Running, Goto
<1>2. \A d \in Calls : CallOK(d)'
  BY DEF Wait, Running, Goto, CallOK, InTx, Settled, Failures
<1>3. Nesting'
  BY ParentIsAnother, TxAssumption DEF Wait, Running, Goto, Nesting
<1>4. LocksOK'
  BY TxAssumption DEF Wait, Running, Goto, LocksOK, CallOK, InTx
<1>5. PoolOK'
  BY DEF Wait, Running, Goto, PoolOK
<1>6. GaugeOK'
  <2>1. Active' = Active /\ active' = active
    BY DEF Wait, Running, Goto, Active
  <2>. QED
    BY <2>1, GaugeSame
<1>. QED
  BY <1>1, <1>2, <1>3, <1>4, <1>5, <1>6

LEMMA GrantedKeeps ==
    ASSUME TxInv, NEW c \in Calls, Granted(c)
    PROVE  TxInv'
<1> USE DEF TxInv, Types, Place, Error, Result, Effect, Open
<1>1. Types'
  BY TxAssumption DEF Granted, Goto
<1>2. \A d \in Calls : CallOK(d)'
  BY DEF Granted, Goto, CallOK, InTx, Settled, Failures
<1>3. Nesting'
  BY ParentIsAnother, TxAssumption DEF Granted, Goto, Nesting
<1>4. LocksOK'
  BY TxAssumption DEF Granted, Goto, LocksOK, CallOK, InTx
<1>5. PoolOK'
  BY DEF Granted, Goto, PoolOK
<1>6. GaugeOK'
  <2>1. Active' = Active /\ active' = active
    BY DEF Granted, Goto, Active
  <2>. QED
    BY <2>1, GaugeSame
<1>. QED
  BY <1>1, <1>2, <1>3, <1>4, <1>5, <1>6

LEMMA StatementFailsKeeps ==
    ASSUME TxInv, NEW c \in Calls, NEW e \in Error, StatementFails(c, e)
    PROVE  TxInv'
<1> USE DEF TxInv, Types, Place, Error, Result, Effect, Open
<1>1. Types'
  BY TxAssumption DEF StatementFails, Goto
<1>2. \A d \in Calls : CallOK(d)'
  BY DEF StatementFails, Goto, CallOK, InTx, Settled, Failures
<1>3. Nesting'
  BY ParentIsAnother, TxAssumption DEF StatementFails, Goto, Nesting
<1>4. LocksOK'
  BY TxAssumption DEF StatementFails, Goto, LocksOK, CallOK, InTx
<1>5. PoolOK'
  BY DEF StatementFails, Goto, PoolOK
<1>6. GaugeOK'
  <2>1. Active' = Active /\ active' = active
    BY DEF StatementFails, Goto, Active
  <2>. QED
    BY <2>1, GaugeSame
<1>. QED
  BY <1>1, <1>2, <1>3, <1>4, <1>5, <1>6

LEMMA ReturnsNilKeeps ==
    ASSUME TxInv, NEW c \in Calls, ReturnsNil(c)
    PROVE  TxInv'
<1> USE DEF TxInv, Types, Place, Error, Result, Effect, Open
<1>1. Types'
  BY TxAssumption DEF ReturnsNil, Goto
<1>2. \A d \in Calls : CallOK(d)'
  BY DEF ReturnsNil, Goto, CallOK, InTx, Settled, Failures
<1>3. Nesting'
  BY ParentIsAnother, TxAssumption DEF ReturnsNil, Goto, Nesting
<1>4. LocksOK'
  BY TxAssumption DEF ReturnsNil, Goto, LocksOK, CallOK, InTx
<1>5. PoolOK'
  BY DEF ReturnsNil, Goto, PoolOK
<1>6. GaugeOK'
  <2>1. Active' = Active /\ active' = active
    BY DEF ReturnsNil, Goto, Active
  <2>. QED
    BY <2>1, GaugeSame
<1>. QED
  BY <1>1, <1>2, <1>3, <1>4, <1>5, <1>6

LEMMA ReturnsErrorKeeps ==
    ASSUME TxInv, NEW c \in Calls, NEW e \in Error, ReturnsError(c, e)
    PROVE  TxInv'
<1> USE DEF TxInv, Types, Place, Error, Result, Effect, Open
<1>1. Types'
  BY TxAssumption DEF ReturnsError, Fail, Failure, Goto
<1>2. \A d \in Calls : CallOK(d)'
  BY DEF ReturnsError, Fail, Failure, Goto, CallOK, InTx, Settled, Failures
<1>3. Nesting'
  BY ParentIsAnother, TxAssumption DEF ReturnsError, Fail, Failure, Goto, Nesting
<1>4. LocksOK'
  BY TxAssumption DEF ReturnsError, Fail, Failure, Goto, LocksOK, CallOK, InTx
<1>5. PoolOK'
  BY DEF ReturnsError, Fail, Failure, Goto, PoolOK
<1>6. GaugeOK'
  <2>1. c \in Active /\ Active' = Active \ {c} /\ active' = active - 1
    BY DEF ReturnsError, Fail, Failure, Goto, Active
  <2>. QED
    BY <2>1, GaugeDown
<1>. QED
  BY <1>1, <1>2, <1>3, <1>4, <1>5, <1>6

LEMMA PanicsKeeps ==
    ASSUME TxInv, NEW c \in Calls, Panics(c)
    PROVE  TxInv'
<1> USE DEF TxInv, Types, Place, Error, Result, Effect, Open
<1>1. Types'
  BY TxAssumption DEF Panics, Fail, Goto
<1>2. \A d \in Calls : CallOK(d)'
  BY DEF Panics, Fail, Goto, CallOK, InTx, Settled, Failures
<1>3. Nesting'
  BY ParentIsAnother, TxAssumption DEF Panics, Fail, Goto, Nesting
<1>4. LocksOK'
  BY TxAssumption DEF Panics, Fail, Goto, LocksOK, CallOK, InTx
<1>5. PoolOK'
  BY DEF Panics, Fail, Goto, PoolOK
<1>6. GaugeOK'
  <2>1. c \in Active /\ Active' = Active \ {c} /\ active' = active - 1
    BY DEF Panics, Fail, Goto, Active
  <2>. QED
    BY <2>1, GaugeDown
<1>. QED
  BY <1>1, <1>2, <1>3, <1>4, <1>5, <1>6

LEMMA ExpireKeeps ==
    ASSUME TxInv, NEW c \in Calls, Expire(c)
    PROVE  TxInv'
<1> USE DEF TxInv, Types, Place, Error, Result, Effect, Open
<1>1. Types'
  BY TxAssumption DEF Expire, Nested
<1>2. \A d \in Calls : CallOK(d)'
  BY DEF Expire, CallOK, InTx, Settled, Failures
<1>3. Nesting'
  BY ParentIsAnother, TxAssumption DEF Expire, Nesting
<1>4. LocksOK'
  BY TxAssumption DEF Expire, LocksOK, CallOK, InTx
<1>5. PoolOK'
  BY DEF Expire, PoolOK
<1>6. GaugeOK'
  <2>1. Active' = Active /\ active' = active
    BY DEF Expire, Active
  <2>. QED
    BY <2>1, GaugeSame
<1>. QED
  BY <1>1, <1>2, <1>3, <1>4, <1>5, <1>6

LEMMA ResolveKeeps ==
    ASSUME TxInv, NEW c \in Calls, Resolve(c)
    PROVE  TxInv'
<1> USE DEF TxInv, Types, Place, Error, Result, Effect, Open
<1>1. Types'
  BY TxAssumption DEF Resolve, Unlocked
<1>2. \A d \in Calls : CallOK(d)'
  BY DEF Resolve, Unlocked, CallOK, InTx, Settled, Failures
<1>3. Nesting'
  BY ParentIsAnother, TxAssumption DEF Resolve, Unlocked, Nesting
<1>4. LocksOK'
  BY TxAssumption DEF Resolve, Unlocked, LocksOK, CallOK, InTx
<1>5. PoolOK'
  BY DEF Resolve, Unlocked, PoolOK
<1>6. GaugeOK'
  <2>1. Active' = Active /\ active' = active
    BY DEF Resolve, Unlocked, Active
  <2>. QED
    BY <2>1, GaugeSame
<1>. QED
  BY <1>1, <1>2, <1>3, <1>4, <1>5, <1>6

LEMMA BeginFailsKeeps ==
    ASSUME TxInv, NEW c \in Calls, BeginFails(c)
    PROVE  TxInv'
<1> USE DEF TxInv, Types, Place, Error, Result, Effect, Open
<1>0. Back(c, "other") /\ at[c] \in {"begin", "commit", "rollback"}
  BY DEF BeginFails
<1>1. Types'
  BY <1>0, BackWorks DEF BeginFails, Back
<1>2. \A d \in Calls : CallOK(d)'
  <2>1. CallOK(c)'
    BY <1>0, BackWorks DEF BeginFails, Back, CallOK, InTx, Settled, Failures
  <2>2. ASSUME NEW d \in Calls \ {c} PROVE CallOK(d)'
    <3>1. /\ at'[d] = at[d] \/ (at[d] = "inner" /\ at'[d] = "run")
          /\ (d \in conn') = (d \in conn) /\ effect'[d] = effect[d] /\ result'[d] = result[d]
      BY <1>0, BackWorks DEF BeginFails, Back
    <3>. QED
      BY <3>1 DEF CallOK, InTx, Settled, Failures
  <2>. QED
    BY <2>1, <2>2
<1>3. LocksOK'
  BY TxAssumption DEF BeginFails, Back, LocksOK, CallOK, InTx
<1>4. GaugeOK'
  <2>1. c \in Active /\ active' = active - 1
    BY DEF BeginFails, Active
  <2>. QED
    BY <1>0, <2>1, BackWorks, GaugeDown
<1>. QED
  BY <1>0, <1>1, <1>2, <1>3, <1>4, BackWorks

LEMMA CommitKeeps ==
    ASSUME TxInv, NEW c \in Calls, Commit(c)
    PROVE  TxInv'
<1> USE DEF TxInv, Types, Place, Error, Result, Effect, Open
<1>0. Back(c, "none") /\ at[c] \in {"begin", "commit", "rollback"}
  BY DEF Commit
<1>1. Types'
  BY <1>0, BackWorks DEF Commit, Unlocked, Back
<1>2. \A d \in Calls : CallOK(d)'
  <2>1. CallOK(c)'
    BY <1>0, BackWorks DEF Commit, Unlocked, Back, CallOK, InTx, Settled, Failures
  <2>2. ASSUME NEW d \in Calls \ {c} PROVE CallOK(d)'
    <3>1. /\ at'[d] = at[d] \/ (at[d] = "inner" /\ at'[d] = "run")
          /\ (d \in conn') = (d \in conn) /\ effect'[d] = effect[d] /\ result'[d] = result[d]
      BY <1>0, BackWorks DEF Commit, Back
    <3>. QED
      BY <3>1 DEF CallOK, InTx, Settled, Failures
  <2>. QED
    BY <2>1, <2>2
<1>3. LocksOK'
  BY TxAssumption DEF Commit, Unlocked, Back, LocksOK, CallOK, InTx
<1>4. GaugeOK'
  <2>1. c \in Active /\ active' = active - 1
    BY DEF Commit, Active
  <2>. QED
    BY <1>0, <2>1, BackWorks, GaugeDown
<1>. QED
  BY <1>0, <1>1, <1>2, <1>3, <1>4, BackWorks

LEMMA CommitFailsKeeps ==
    ASSUME TxInv, NEW c \in Calls, NEW e \in Error, CommitFails(c, e)
    PROVE  TxInv'
<1> USE DEF TxInv, Types, Place, Error, Result, Effect, Open
<1>0. Back(c, e) /\ at[c] \in {"begin", "commit", "rollback"}
  BY DEF CommitFails
<1>1. Types'
  BY <1>0, BackWorks DEF CommitFails, CommitFailsWith, AfterCommit, Unlocked, Failure,
     Retryable, Back
<1>2. \A d \in Calls : CallOK(d)'
  <2>1. CallOK(c)'
    BY <1>0, BackWorks DEF CommitFails, CommitFailsWith, AfterCommit, Unlocked,
       Failure, Retryable, Back, CallOK, InTx, Settled, Failures
  <2>2. ASSUME NEW d \in Calls \ {c} PROVE CallOK(d)'
    <3>1. /\ at'[d] = at[d] \/ (at[d] = "inner" /\ at'[d] = "run")
          /\ (d \in conn') = (d \in conn) /\ effect'[d] = effect[d] /\ result'[d] = result[d]
      BY <1>0, BackWorks DEF CommitFails, Back
    <3>. QED
      BY <3>1 DEF CallOK, InTx, Settled, Failures
  <2>. QED
    BY <2>1, <2>2
<1>3. LocksOK'
  BY TxAssumption DEF CommitFails, CommitFailsWith, AfterCommit, Unlocked, Failure,
     Retryable, Back, LocksOK, CallOK, InTx
<1>4. GaugeOK'
  <2>1. c \in Active /\ active' = active - 1
    BY DEF CommitFails, Active
  <2>. QED
    BY <1>0, <2>1, BackWorks, GaugeDown
<1>. QED
  BY <1>0, <1>1, <1>2, <1>3, <1>4, BackWorks

LEMMA RollbackKeeps ==
    ASSUME TxInv, NEW c \in Calls, Rollback(c)
    PROVE  TxInv'
<1> USE DEF TxInv, Types, Place, Error, Result, Effect, Open
<1>0. Back(c, err[c]) /\ at[c] \in {"begin", "commit", "rollback"}
  BY DEF Rollback
<1>1. Types'
  BY <1>0, BackWorks DEF Rollback, Unlocked, Back
<1>2. \A d \in Calls : CallOK(d)'
  <2>1. CallOK(c)'
    BY <1>0, BackWorks DEF Rollback, Unlocked, Back, CallOK, InTx, Settled, Failures
  <2>2. ASSUME NEW d \in Calls \ {c} PROVE CallOK(d)'
    <3>1. /\ at'[d] = at[d] \/ (at[d] = "inner" /\ at'[d] = "run")
          /\ (d \in conn') = (d \in conn) /\ effect'[d] = effect[d] /\ result'[d] = result[d]
      BY <1>0, BackWorks DEF Rollback, Back
    <3>. QED
      BY <3>1 DEF CallOK, InTx, Settled, Failures
  <2>. QED
    BY <2>1, <2>2
<1>3. LocksOK'
  BY TxAssumption DEF Rollback, Unlocked, Back, LocksOK, CallOK, InTx
<1>4. GaugeOK'
  <2>1. c \notin Active /\ active' = active
    BY DEF Rollback, Active
  <2>2. Active' = Active \ {c}
    BY <1>0, BackWorks
  <2>3. Active \ {c} = Active
    BY <2>1
  <2>. QED
    BY <2>1, <2>2, <2>3, GaugeSame
<1>. QED
  BY <1>0, <1>1, <1>2, <1>3, <1>4, BackWorks

LEMMA TxInvNext == TxInv /\ [Next]_vars => TxInv'
<1> SUFFICES ASSUME TxInv, [Next]_vars PROVE TxInv'
  OBVIOUS
<1>1. ASSUME NEW c \in Calls, Step(c) PROVE TxInv'
  BY <1>1, BeginKeeps, BeginFailsKeeps, SetupKeeps, SetupFailsKeeps, TakeKeeps, WaitKeeps,
     GrantedKeeps, StatementFailsKeeps, ReturnsNilKeeps, ReturnsErrorKeeps, PanicsKeeps,
     CommitKeeps, CommitFailsKeeps, RollbackKeeps DEF Step
<1>2. CASE UNCHANGED vars
  BY <1>2 DEF vars, TxInv, Types, PoolOK, CallOK, Settled, Nesting, Open, LocksOK, GaugeOK,
     Active
<1>. QED
  BY <1>1, <1>2, CallKeeps, ExpireKeeps, ResolveKeeps DEF Next

LEMMA TxInvariant == Spec => []TxInv
  BY TxInvInit, TxInvNext, PTL DEF Spec

-----------------------------------------------------------------------------

\* Every variable keeps its type, and the pool its size.
THEOREM TxTypeCorrect == Spec => []TypeOK
<1>1. TxInv => TypeOK
  BY FS_CardinalityType DEF TxInv, Types, PoolOK, GaugeOK, TypeOK
<1>. QED
  BY <1>1, TxInvariant, PTL

\* What exec returns is what happened to the transaction: whatever the function
\* does, wherever the deadline falls and whichever answers are lost.
THEOREM OutcomeIsTold == Spec => []OutcomeIsTruthful
<1>1. TxInv => OutcomeIsTruthful
  BY DEF TxInv, Types, Place, CallOK, InTx, Settled, Failures, OutcomeIsTruthful
<1>. QED
  BY <1>1, TxInvariant, PTL

\* A retryable error comes from a transaction that is not, and never will be,
\* applied: the COMMIT whose answer is lost is not among them.
THEOREM RetriesAreSafe == Spec => []RetryIsSafe
<1>1. TxInv => RetryIsSafe
  BY DEF TxInv, Types, Place, CallOK, InTx, Settled, Failures, RetryIsSafe
<1>. QED
  BY <1>1, TxInvariant, PTL

\* Connections and rows are only held by calls that have not returned, or by a
\* transaction whose connection has gone and which the server is about to end.
THEOREM NothingIsLeaked == Spec => []NothingLeaks
<1>1. TxInv => NothingLeaks
  BY DEF TxInv, Types, Place, CallOK, Open, LocksOK, NothingLeaks
<1>. QED
  BY <1>1, TxInvariant, PTL

\* db.tx.active goes down once for each time it went up, on every path.
THEOREM GaugeIsExact == Spec => []ActiveIsExact
<1>1. TxInv => ActiveIsExact
  BY DEF TxInv, GaugeOK, Active, ActiveIsExact
<1>. QED
  BY <1>1, TxInvariant, PTL
=============================================================================
