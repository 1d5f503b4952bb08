------------------------- MODULE EventPipelineProofs -------------------------
(***************************************************************************)
(* The safety properties of EventPipeline for any number of events,         *)
(* aggregates, instances, workers and faults, with ordering on or off.      *)
(* The heart is LanesOK: with ordering on, what the broker has stored and    *)
(* what the library still holds make up what was handed over, until a lane  *)
(* is paused, and then nothing follows.                                      *)
(***************************************************************************)
EXTENDS EventPipeline, SequenceTheorems, TLAPS

\* What an instance knows of the rows is true of them.
RowsOK ==
    /\ \A e \in Events : row[e].lease # NoProc => row[e].state = "pending"
    /\ \A e \in Events : row[e].state = "published" => e \in accepted

WorkOK ==
    \A p \in Procs, e \in Events :
        /\ work[p][e] # "none" => row[e].state # "none"
        /\ work[p][e] = "sent" => e \in accepted

QueueOK ==
    \A p \in Procs, l \in Lanes : \A i \in DOMAIN queue[p][l] :
        row[queue[p][l][i].event].state # "none"

\* A process that has ended holds nothing.
EndedOK ==
    \A p \in Procs : status[p] \in {"exited", "crashed"} =>
        /\ \A e \in Events : work[p][e] = "none"
        /\ \A l \in Lanes : queue[p][l] = <<>>

Prefix(s, h) == Len(s) <= Len(h) /\ \A i \in 1..Len(s) : s[i] = h[i]

\* h is s followed by the events of q.
Follows(h, s, q) ==
    /\ Len(h) = Len(s) + Len(q)
    /\ \A i \in 1..Len(s) : h[i] = s[i]
    /\ \A i \in 1..Len(q) : h[Len(s) + i] = q[i].event

LaneOK(p, l) ==
    /\ Prefix(stored[p][l], handed[p][l])
    /\ l \in paused[p] => queue[p][l] = <<>>
    /\ (status[p] \in {"up", "flushing"} /\ l \notin paused[p]) =>
          Follows(handed[p][l], stored[p][l], queue[p][l])
    /\ (status[p] = "exited" /\ l \notin paused[p]) => stored[p][l] = handed[p][l]

LanesOK == Ordering => \A p \in Procs, l \in Lanes : LaneOK(p, l)

PipelineInv == TypeOK /\ RowsOK /\ WorkOK /\ QueueOK /\ EndedOK /\ LanesOK

Row   == [state : {"none", "pending", "published"}, lease : Procs \cup {NoProc}]
Stage == {"none", "claimed", "waiting", "sent", "failed"}

-----------------------------------------------------------------------------
(* Rows and sequences.                                                      *)

LEMMA RowState ==
    ASSUME NEW r \in Row, NEW s \in {"none", "pending", "published"}
    PROVE  /\ [r EXCEPT !.state = s] \in Row
           /\ [r EXCEPT !.state = s].state = s /\ [r EXCEPT !.state = s].lease = r.lease
  BY DEF Row

LEMMA RowLease ==
    ASSUME NEW r \in Row, NEW p \in Procs \cup {NoProc}
    PROVE  /\ [r EXCEPT !.lease = p] \in Row
           /\ [r EXCEPT !.lease = p].lease = p /\ [r EXCEPT !.lease = p].state = r.state
  BY DEF Row

\* A fault is one of MaxFaults.
LEMMA FaultCounts ==
    ASSUME TypeOK, NEW kind, Fault(kind)
    PROVE  faults' \in 0..MaxFaults
  BY PipelineAssumption DEF TypeOK, Fault

\* What is handed over comes after what was handed over before.
LEMMA AppendFollows ==
    ASSUME NEW h \in Seq(Events), NEW s \in Seq(Events), NEW q \in Seq(Message),
           Follows(h, s, q), NEW m \in Message, NEW e \in Events, m.event = e
    PROVE  /\ Follows(Append(h, e), s, Append(q, m))
           /\ Prefix(s, Append(h, e))
<1>1. /\ Len(Append(h, e)) = Len(h) + 1 /\ Len(Append(q, m)) = Len(q) + 1
      /\ Len(h) \in Nat /\ Len(q) \in Nat /\ Len(s) \in Nat
  OBVIOUS
<1>2. /\ \A i \in 1..Len(h) : Append(h, e)[i] = h[i]
      /\ \A i \in 1..Len(q) : Append(q, m)[i] = q[i]
      /\ Append(h, e)[Len(h) + 1] = e /\ Append(q, m)[Len(q) + 1] = m
  OBVIOUS
<1>3. \A i \in 1..Len(s) : Append(h, e)[i] = s[i]
  BY <1>1, <1>2 DEF Follows
<1>4. \A i \in 1..(Len(q) + 1) : Append(h, e)[Len(s) + i] = Append(q, m)[i].event
  <2>. TAKE i \in 1..(Len(q) + 1)
  <2>1. CASE i = Len(q) + 1
    BY <1>1, <1>2, <2>1 DEF Follows
  <2>2. CASE i \in 1..Len(q)
    BY <1>1, <1>2, <2>2 DEF Follows
  <2>3. i = Len(q) + 1 \/ i \in 1..Len(q)
    BY <1>1
  <2>. QED
    BY <2>1, <2>2, <2>3
<1>5. Len(Append(h, e)) = Len(s) + Len(Append(q, m)) /\ Len(s) <= Len(Append(h, e))
  BY <1>1 DEF Follows
<1>6. \A i \in 1..Len(Append(q, m)) : Append(h, e)[Len(s) + i] = Append(q, m)[i].event
  BY <1>1, <1>4
<1>7. \A i \in 1..Len(s) : s[i] = Append(h, e)[i]
  BY <1>3
<1>. QED
  BY <1>3, <1>5, <1>6, <1>7 DEF Follows, Prefix

\* The broker stores the first message, and the rest follows.
LEMMA StoreFollows ==
    ASSUME NEW h \in Seq(Events), NEW s \in Seq(Events), NEW q \in Seq(Message),
           Follows(h, s, q), q # <<>>
    PROVE  /\ Follows(h, Append(s, Head(q).event), Tail(q))
           /\ Prefix(Append(s, Head(q).event), h)
<1> DEFINE e == Head(q).event
<1>1. Len(q) \in Nat \ {0} /\ Head(q) = q[1] /\ q[1] \in Message
  OBVIOUS
<1>2. e \in Events /\ Len(s) \in Nat /\ Len(h) \in Nat
  BY <1>1 DEF Message
<1>3. /\ Len(Append(s, e)) = Len(s) + 1 /\ Append(s, e)[Len(s) + 1] = e
      /\ \A i \in 1..Len(s) : Append(s, e)[i] = s[i]
  BY <1>2
<1>4. Len(Tail(q)) = Len(q) - 1 /\ \A i \in 1..Len(Tail(q)) : Tail(q)[i] = q[i + 1]
  BY <1>1
<1>. HIDE DEF e
<1>5. h[Len(s) + 1] = e
  BY <1>1, <1>2 DEF Follows, e
<1>6. \A i \in 1..(Len(s) + 1) : Append(s, e)[i] = h[i]
  BY <1>2, <1>3, <1>5 DEF Follows
<1>7. \A i \in 1..Len(Tail(q)) : h[(Len(s) + 1) + i] = Tail(q)[i].event
  <2>. TAKE i \in 1..Len(Tail(q))
  <2>1. i + 1 \in 1..Len(q) /\ Len(s) + (i + 1) = (Len(s) + 1) + i
    BY <1>1, <1>2, <1>4
  <2>. QED
    BY <2>1, <1>4 DEF Follows
<1>8. Len(h) = (Len(s) + 1) + Len(Tail(q)) /\ Len(s) + 1 <= Len(h)
  BY <1>1, <1>2, <1>4 DEF Follows
<1>9. Follows(h, Append(s, e), Tail(q)) /\ Prefix(Append(s, e), h)
  BY <1>3, <1>6, <1>7, <1>8 DEF Follows, Prefix
<1>. QED
  BY <1>9 DEF e

LEMMA NothingFollows ==
    ASSUME NEW h \in Seq(Events), NEW s \in Seq(Events), NEW q \in Seq(Message),
           Follows(h, s, q), q = <<>>
    PROVE  s = h
<1>1. Len(q) = 0
  OBVIOUS
<1>2. Len(h) = Len(s) /\ \A i \in 1..Len(s) : s[i] = h[i]
  BY <1>1 DEF Follows
<1>. QED
  BY <1>2, SeqEqual

LEMMA ForgottenFollows ==
    ASSUME NEW q \in Seq(Message), NEW e
    PROVE  /\ Forgotten(q, e) \in Seq(Message)
           /\ Len(Forgotten(q, e)) = Len(q)
           /\ \A i \in 1..Len(q) : Forgotten(q, e)[i].event = q[i].event
           /\ q = <<>> => Forgotten(q, e) = <<>>
<1>1. DOMAIN q = 1..Len(q) /\ Len(q) \in Nat /\ \A i \in 1..Len(q) : q[i] \in Message
  OBVIOUS
<1>2. \A m \in Message : /\ [m EXCEPT !.awaited = FALSE] \in Message
                         /\ [m EXCEPT !.awaited = FALSE].event = m.event
  BY DEF Message
<1>3. \A i \in 1..Len(q) : /\ Forgotten(q, e)[i] \in Message
                           /\ Forgotten(q, e)[i].event = q[i].event
  BY <1>1, <1>2 DEF Forgotten
<1>4. Forgotten(q, e) \in [1..Len(q) -> Message]
  BY <1>1, <1>3 DEF Forgotten
<1>5. Forgotten(q, e) \in Seq(Message) /\ Len(Forgotten(q, e)) = Len(q)
  BY <1>1, <1>4
<1>6. q = <<>> => Forgotten(q, e) = <<>>
  BY <1>5
<1>. QED
  BY <1>3, <1>5, <1>6

LEMMA EmptyFollows == Follows(<<>>, <<>>, <<>>) /\ Prefix(<<>>, <<>>)
  BY DEF Follows, Prefix

LEMMA LaneOfEvent == \A e \in Events : Lane(e) \in Lanes
  BY DEF Lanes

-----------------------------------------------------------------------------
(* The steps.                                                               *)

LEMMA EnqueueKeeps ==
    ASSUME PipelineInv, NEW e \in Events, Enqueue(e)
    PROVE  PipelineInv'
<1> USE DEF PipelineInv
<1>1. row' = [row EXCEPT ![e] = [row[e] EXCEPT !.state = "pending"]] /\ row[e].state = "none"
  BY DEF Enqueue
<1>2. row \in [Events -> Row]
  BY DEF TypeOK, Row
<1>3. [row[e] EXCEPT !.state = "pending"] \in Row /\ row'[e].state = "pending"
      /\ row'[e].lease = row[e].lease
  BY <1>1, <1>2, RowState
<1>4. row' \in [Events -> Row] /\ \A f \in Events \ {e} : row'[f] = row[f]
  BY <1>1, <1>2, <1>3
<1>5. TypeOK'
  BY <1>4 DEF Enqueue, TypeOK, Row, libraryVars
<1>6. RowsOK' /\ WorkOK' /\ QueueOK'
  BY <1>1, <1>3, <1>4 DEF Enqueue, RowsOK, WorkOK, QueueOK, libraryVars, TypeOK, Message
<1>. QED
  BY <1>5, <1>6 DEF Enqueue, libraryVars, EndedOK, LanesOK, LaneOK

LEMMA ClaimKeeps ==
    ASSUME PipelineInv, NEW p \in Procs, NEW e \in Events, Claim(p, e)
    PROVE  PipelineInv'
<1> USE DEF PipelineInv
<1>0. faults' \in 0..MaxFaults
  <2>1. CASE faults' = faults
    BY <2>1 DEF TypeOK
  <2>2. CASE Fault("steal")
    BY <2>2, FaultCounts
  <2>. QED
    BY <2>1, <2>2 DEF Claim
<1>1. /\ row[e].state = "pending" /\ row' = [row EXCEPT ![e].lease = p]
      /\ work' = [work EXCEPT ![p][e] = "claimed"]
      /\ status[p] \in {"up", "flushing"}
      /\ UNCHANGED <<status, queue, paused, handed, stored, accepted, effects>>
  BY DEF Claim, Move, libraryVars
<1>2. /\ row'[e].state = "pending" /\ row' \in [Events -> Row]
      /\ \A f \in Events \ {e} : row'[f] = row[f]
  <2>1. row' = [row EXCEPT ![e] = [row[e] EXCEPT !.lease = p]] /\ row \in [Events -> Row]
    BY <1>1 DEF TypeOK, Row
  <2>2. /\ [row[e] EXCEPT !.lease = p] \in Row /\ [row[e] EXCEPT !.lease = p].state = "pending"
    BY <1>1, <2>1, RowLease
  <2>. QED
    BY <2>1, <2>2
<1>3. work' \in [Procs -> [Events -> Stage]]
  BY <1>1 DEF TypeOK, Stage
<1>4. TypeOK'
  BY <1>0, <1>1, <1>2, <1>3 DEF TypeOK, Row, Stage
<1>5. RowsOK' /\ QueueOK'
  BY <1>1, <1>2 DEF RowsOK, QueueOK, TypeOK, Message
<1>6. WorkOK' /\ EndedOK'
  BY <1>1, <1>2 DEF WorkOK, EndedOK, TypeOK
<1>. QED
  BY <1>1, <1>4, <1>5, <1>6 DEF LanesOK, LaneOK

LEMMA ClaimUnansweredKeeps ==
    ASSUME PipelineInv, NEW p \in Procs, NEW e \in Events, ClaimUnanswered(p, e)
    PROVE  PipelineInv'
<1> USE DEF PipelineInv
<1>0. faults' \in 0..MaxFaults
  BY FaultCounts DEF ClaimUnanswered
<1>1. /\ row[e].state = "pending" /\ row' = [row EXCEPT ![e] = [row[e] EXCEPT !.lease = p]]
      /\ row \in [Events -> Row]
      /\ UNCHANGED <<status, work, queue, paused, handed, stored, accepted, effects>>
  BY DEF ClaimUnanswered, libraryVars, TypeOK, Row
<1>2. /\ row'[e].state = "pending" /\ row' \in [Events -> Row]
      /\ \A f \in Events \ {e} : row'[f] = row[f]
  <2>1. /\ [row[e] EXCEPT !.lease = p] \in Row /\ [row[e] EXCEPT !.lease = p].state = "pending"
    BY <1>1, RowLease
  <2>. QED
    BY <1>1, <2>1
<1>3. TypeOK'
  BY <1>0, <1>1, <1>2 DEF TypeOK, Row
<1>4. RowsOK' /\ WorkOK' /\ QueueOK'
  BY <1>1, <1>2 DEF RowsOK, WorkOK, QueueOK, TypeOK, Message
<1>. QED
  BY <1>1, <1>3, <1>4 DEF EndedOK, LanesOK, LaneOK

\* A message is put behind those its lane still holds, unless the lane is paused.
LEMMA HandoverKeeps ==
    ASSUME PipelineInv, NEW p \in Procs, NEW e \in Events, Handover(p, e)
    PROVE  PipelineInv'
<1> USE DEF PipelineInv
<1>1. CASE Refused(p, e)
  <2>1. /\ work' = [work EXCEPT ![p][e] = "failed"] /\ work[p][e] = "claimed"
        /\ UNCHANGED <<row, status, queue, paused, handed, stored, accepted, effects, faults>>
    BY <1>1 DEF Handover, Move, At, libraryVars
  <2>2. TypeOK'
    BY <2>1 DEF TypeOK
  <2>3. WorkOK' /\ EndedOK'
    BY <2>1 DEF WorkOK, EndedOK, TypeOK
  <2>. QED
    BY <2>1, <2>2, <2>3 DEF RowsOK, QueueOK, LanesOK, LaneOK
<1>2. CASE ~Refused(p, e)
  <2> DEFINE l == Lane(e)
             m == [event |-> e, awaited |-> TRUE]
  <2>1. /\ work' = [work EXCEPT ![p][e] = "waiting"] /\ work[p][e] = "claimed"
        /\ queue' = [queue EXCEPT ![p][l] = Append(queue[p][l], m)]
        /\ handed' = [handed EXCEPT ![p][l] = Append(handed[p][l], e)]
        /\ l \notin paused[p]
        /\ UNCHANGED <<row, status, paused, stored, accepted, effects, faults>>
    BY <1>2, LaneOfEvent DEF Handover, Move, At, Refused, TypeOK
  <2>2. m \in Message /\ m.event = e /\ l \in Lanes
    BY LaneOfEvent DEF Message
  <2>. HIDE DEF m, l
  <2>3. /\ queue'[p][l] = Append(queue[p][l], m) /\ handed'[p][l] = Append(handed[p][l], e)
        /\ \A q \in Procs, k \in Lanes : <<q, k>> # <<p, l>> =>
              queue'[q][k] = queue[q][k] /\ handed'[q][k] = handed[q][k]
    BY <2>1, <2>2 DEF TypeOK
  <2>4. TypeOK'
    <3>1. work' \in [Procs -> [Events -> Stage]]
      BY <2>1 DEF TypeOK, Stage
    <3>2. queue' \in [Procs -> [Lanes -> Seq(Message)]]
      BY <2>1, <2>2 DEF TypeOK
    <3>3. handed' \in [Procs -> [Lanes -> Seq(Events)]]
      BY <2>1, <2>2 DEF TypeOK
    <3>. QED
      BY <2>1, <3>1, <3>2, <3>3 DEF TypeOK, Stage
  <2>5. WorkOK' /\ row[e].state # "none"
    BY <2>1 DEF WorkOK, TypeOK
  <2>6. status[p] \in {"up", "flushing"}
    BY <2>1 DEF EndedOK, TypeOK
  <2>7. EndedOK'
    BY <2>1, <2>3, <2>6 DEF EndedOK, TypeOK
  <2>8. QueueOK'
    <3>1. \A i \in DOMAIN Append(queue[p][l], m) :
             row[Append(queue[p][l], m)[i].event].state # "none"
      BY <2>2, <2>5 DEF QueueOK, TypeOK
    <3>. QED
      BY <2>1, <2>3, <3>1 DEF QueueOK
  <2>9. LanesOK'
    <3>. SUFFICES ASSUME Ordering, NEW q \in Procs, NEW k \in Lanes PROVE LaneOK(q, k)'
      BY DEF LanesOK
    <3>1. CASE <<q, k>> # <<p, l>>
      BY <2>1, <2>3, <3>1 DEF LanesOK, LaneOK
    <3>2. CASE <<q, k>> = <<p, l>>
      <4>1. Follows(handed[p][l], stored[p][l], queue[p][l])
        BY <2>1, <2>2, <2>6 DEF LanesOK, LaneOK
      <4>2. /\ Follows(handed'[p][l], stored[p][l], queue'[p][l])
            /\ Prefix(stored[p][l], handed'[p][l])
        <5>1. /\ handed[p][l] \in Seq(Events) /\ stored[p][l] \in Seq(Events)
              /\ queue[p][l] \in Seq(Message)
          BY <2>2 DEF TypeOK
        <5>. QED
          BY <2>2, <2>3, <4>1, <5>1, AppendFollows
      <4>. QED
        BY <2>1, <2>6, <3>2, <4>2 DEF LaneOK
    <3>. QED
      BY <3>1, <3>2
  <2>. QED
    BY <2>1, <2>4, <2>5, <2>7, <2>8, <2>9 DEF RowsOK
<1>. QED
  BY <1>1, <1>2

\* Whatever is stored was committed by a producer, and a lane goes on behind it.
LEMMA HeadOfLane ==
    ASSUME PipelineInv, NEW p \in Procs, NEW l \in Lanes, queue[p][l] # <<>>
    PROVE  /\ Head(queue[p][l]) \in Message /\ Head(queue[p][l]).event \in Events
           /\ row[Head(queue[p][l]).event].state # "none"
           /\ Tail(queue[p][l]) \in Seq(Message)
           /\ status[p] \in {"up", "flushing"}
           /\ \A i \in DOMAIN Tail(queue[p][l]) :
                 row[Tail(queue[p][l])[i].event].state # "none"
           /\ Ordering => /\ l \notin paused[p]
                          /\ Follows(handed[p][l], stored[p][l], queue[p][l])
<1>1. queue[p][l] \in Seq(Message)
  BY DEF PipelineInv, TypeOK
<1>2. /\ Head(queue[p][l]) = queue[p][l][1] /\ 1 \in DOMAIN queue[p][l]
      /\ Head(queue[p][l]) \in Message /\ Tail(queue[p][l]) \in Seq(Message)
      /\ \A i \in DOMAIN Tail(queue[p][l]) :
            i + 1 \in DOMAIN queue[p][l] /\ Tail(queue[p][l])[i] = queue[p][l][i + 1]
  BY <1>1
<1>3. status[p] \in {"up", "flushing"}
  BY DEF PipelineInv, EndedOK, TypeOK
<1>. QED
  BY <1>2, <1>3 DEF PipelineInv, QueueOK, LanesOK, LaneOK, Message

LEMMA BrokerStoresKeeps ==
    ASSUME PipelineInv, NEW p \in Procs, NEW l \in Lanes, BrokerStores(p, l)
    PROVE  PipelineInv'
<1> USE DEF PipelineInv
<1> DEFINE first == Head(queue[p][l])
<1>1. /\ queue[p][l] # <<>> /\ accepted' = accepted \cup {first.event}
      /\ stored' = [stored EXCEPT ![p][l] = Append(stored[p][l], first.event)]
      /\ queue' = [queue EXCEPT ![p][l] = Tail(queue[p][l])]
      /\ work' \in {work, [work EXCEPT ![p][first.event] = "sent"]}
      /\ UNCHANGED <<row, status, paused, handed, effects, faults>>
  BY DEF BrokerStores, Move, TypeOK
<1>2. /\ first.event \in Events /\ row[first.event].state # "none"
      /\ Tail(queue[p][l]) \in Seq(Message) /\ status[p] \in {"up", "flushing"}
  BY <1>1, HeadOfLane
<1>. HIDE DEF first
<1>3. /\ queue'[p][l] = Tail(queue[p][l])
      /\ stored'[p][l] = Append(stored[p][l], first.event)
      /\ \A q \in Procs, k \in Lanes : <<q, k>> # <<p, l>> =>
            queue'[q][k] = queue[q][k] /\ stored'[q][k] = stored[q][k]
  BY <1>1 DEF TypeOK
<1>4. /\ work' \in [Procs -> [Events -> Stage]]
      /\ \A q \in Procs, e \in Events :
            work'[q][e] = work[q][e] \/ (work'[q][e] = "sent" /\ q = p /\ e = first.event)
  <2>1. CASE work' = work
    BY <2>1 DEF TypeOK, Stage
  <2>2. CASE work' = [work EXCEPT ![p][first.event] = "sent"]
    BY <1>2, <2>2 DEF TypeOK, Stage
  <2>. QED
    BY <1>1, <2>1, <2>2
<1>10. TypeOK'
  <2>1. work' \in [Procs -> [Events -> Stage]]
    BY <1>4 DEF Stage
  <2>2. queue' \in [Procs -> [Lanes -> Seq(Message)]]
    BY <1>1, <1>2 DEF TypeOK
  <2>3. stored' \in [Procs -> [Lanes -> Seq(Events)]]
    BY <1>1, <1>2 DEF TypeOK
  <2>. QED
    BY <1>1, <1>2, <2>1, <2>2, <2>3 DEF TypeOK, Stage
<1>5. RowsOK'
  BY <1>1 DEF RowsOK
<1>6. WorkOK'
  BY <1>1, <1>2, <1>4 DEF WorkOK
<1>7. QueueOK'
  <2>. SUFFICES ASSUME NEW q \in Procs, NEW k \in Lanes, NEW i \in DOMAIN queue'[q][k]
                PROVE  row[queue'[q][k][i].event].state # "none"
    BY <1>1 DEF QueueOK
  <2>1. CASE <<q, k>> = <<p, l>>
    <3>1. q = p /\ k = l /\ queue'[q][k] = Tail(queue[p][l])
      BY <1>3, <2>1
    <3>2. \A j \in DOMAIN Tail(queue[p][l]) : row[Tail(queue[p][l])[j].event].state # "none"
      BY <1>1, HeadOfLane
    <3>. QED
      BY <3>1, <3>2
  <2>2. CASE <<q, k>> # <<p, l>>
    BY <1>3, <2>2 DEF QueueOK
  <2>. QED
    BY <2>1, <2>2
<1>8. EndedOK'
  BY <1>1, <1>2, <1>3, <1>4 DEF EndedOK
<1>9. LanesOK'
  <2>. SUFFICES ASSUME Ordering, NEW q \in Procs, NEW k \in Lanes PROVE LaneOK(q, k)'
    BY DEF LanesOK
  <2>1. CASE <<q, k>> # <<p, l>>
    BY <1>1, <1>3, <2>1 DEF LanesOK, LaneOK
  <2>2. CASE <<q, k>> = <<p, l>>
    <3>1. Follows(handed[p][l], stored[p][l], queue[p][l]) /\ l \notin paused[p]
      BY <1>1, HeadOfLane
    <3>2. /\ Follows(handed[p][l], stored'[p][l], queue'[p][l])
          /\ Prefix(stored'[p][l], handed[p][l])
      BY <1>1, <1>3, <3>1, StoreFollows DEF TypeOK, first
    <3>. QED
      BY <1>1, <1>2, <2>2, <3>1, <3>2 DEF LaneOK
  <2>. QED
    BY <2>1, <2>2
<1>. QED
  BY <1>5, <1>6, <1>7, <1>8, <1>9, <1>10

\* A failure empties and pauses its lane, when there is an order to keep.
LEMMA SendFailsKeeps ==
    ASSUME PipelineInv, NEW p \in Procs, NEW l \in Lanes, SendFails(p, l)
    PROVE  PipelineInv'
<1> USE DEF PipelineInv
<1> DEFINE first  == Head(queue[p][l])
           rest   == IF Ordering THEN <<>> ELSE Tail(queue[p][l])
           failed == IF Ordering THEN Waiters(p, l)
                     ELSE {e \in {first.event} : first.awaited}
<1>1. /\ queue[p][l] # <<>> /\ queue' = [queue EXCEPT ![p][l] = rest]
      /\ work' = [work EXCEPT ![p] =
                    [e \in Events |-> IF e \in failed THEN "failed" ELSE work[p][e]]]
      /\ \/ UNCHANGED <<accepted, stored>>
         \/ /\ accepted' = accepted \cup {first.event}
            /\ stored' = [stored EXCEPT ![p][l] = Append(stored[p][l], first.event)]
      /\ paused' = IF Ordering THEN [paused EXCEPT ![p] = paused[p] \cup {l}] ELSE paused
      /\ UNCHANGED <<row, status, handed, effects>>
  BY DEF SendFails, TypeOK
<1>2. /\ first \in Message /\ first.event \in Events /\ row[first.event].state # "none"
      /\ Tail(queue[p][l]) \in Seq(Message) /\ status[p] \in {"up", "flushing"}
      /\ \A i \in DOMAIN Tail(queue[p][l]) :
            row[Tail(queue[p][l])[i].event].state # "none"
  BY <1>1, HeadOfLane
<1>3. \A e \in failed : row[e].state # "none"
  BY <1>2 DEF Waiters, QueueOK
<1>. HIDE DEF failed, first
<1>4. /\ work' \in [Procs -> [Events -> Stage]]
      /\ \A q \in Procs, e \in Events :
            work'[q][e] = work[q][e] \/ (work'[q][e] = "failed" /\ q = p /\ e \in failed)
  BY <1>1 DEF TypeOK, Stage
<1>5. rest \in Seq(Message) /\ \A i \in DOMAIN rest : row[rest[i].event].state # "none"
  BY <1>2
<1>. HIDE DEF rest
<1>6. /\ queue'[p][l] = rest
      /\ \A q \in Procs, k \in Lanes : <<q, k>> # <<p, l>> =>
            /\ queue'[q][k] = queue[q][k] /\ stored'[q][k] = stored[q][k]
            /\ k \in paused'[q] <=> k \in paused[q]
  BY <1>1 DEF TypeOK
<1>7. TypeOK'
  <2>1. queue' \in [Procs -> [Lanes -> Seq(Message)]]
    BY <1>1, <1>5 DEF TypeOK
  <2>2. stored' \in [Procs -> [Lanes -> Seq(Events)]] /\ accepted' \subseteq Events
    <3>1. CASE UNCHANGED <<accepted, stored>>
      BY <3>1 DEF TypeOK
    <3>2. CASE /\ accepted' = accepted \cup {first.event}
               /\ stored' = [stored EXCEPT ![p][l] = Append(stored[p][l], first.event)]
      BY <1>2, <3>2 DEF TypeOK
    <3>. QED
      BY <1>1, <3>1, <3>2
  <2>3. paused' \in [Procs -> SUBSET Lanes]
    BY <1>1 DEF TypeOK
  <2>4. faults' \in 0..MaxFaults
    BY FaultCounts DEF SendFails
  <2>. QED
    BY <1>1, <1>4, <2>1, <2>2, <2>3, <2>4 DEF TypeOK, Stage
<1>8. RowsOK'
  BY <1>1 DEF RowsOK
<1>9. WorkOK'
  BY <1>1, <1>3, <1>4 DEF WorkOK
<1>10. QueueOK'
  BY <1>1, <1>5, <1>6 DEF QueueOK
<1>11. EndedOK'
  BY <1>1, <1>2, <1>4, <1>6 DEF EndedOK
<1>12. LanesOK'
  <2>. SUFFICES ASSUME Ordering, NEW q \in Procs, NEW k \in Lanes PROVE LaneOK(q, k)'
    BY DEF LanesOK
  <2>1. CASE <<q, k>> # <<p, l>>
    BY <1>1, <1>6, <2>1 DEF LanesOK, LaneOK
  <2>2. CASE <<q, k>> = <<p, l>>
    <3>1. l \in paused'[p] /\ queue'[p][l] = <<>>
      BY <1>1, <1>6 DEF rest, TypeOK
    <3>2. Prefix(stored'[p][l], handed[p][l])
      <4>1. Prefix(stored[p][l], handed[p][l])
        BY DEF LanesOK, LaneOK
      <4>2. Prefix(Append(stored[p][l], first.event), handed[p][l])
        <5>1. /\ handed[p][l] \in Seq(Events) /\ stored[p][l] \in Seq(Events)
              /\ queue[p][l] \in Seq(Message) /\ queue[p][l] # <<>>
          BY <1>1 DEF TypeOK
        <5>2. Follows(handed[p][l], stored[p][l], queue[p][l])
          BY <1>1, HeadOfLane
        <5>. QED
          BY <5>1, <5>2, StoreFollows DEF first
      <4>3. stored'[p][l] \in {stored[p][l], Append(stored[p][l], first.event)}
        BY <1>1 DEF TypeOK
      <4>. QED
        BY <4>1, <4>2, <4>3
    <3>. QED
      BY <1>1, <1>2, <2>2, <3>1, <3>2 DEF LaneOK
  <2>. QED
    BY <2>1, <2>2
<1>. QED
  BY <1>7, <1>8, <1>9, <1>10, <1>11, <1>12

\* The message stays in its lane.
LEMMA GiveUpKeeps ==
    ASSUME PipelineInv, NEW p \in Procs, NEW e \in Events, GiveUp(p, e)
    PROVE  PipelineInv'
<1> USE DEF PipelineInv
<1> DEFINE l == Lane(e)
           q0 == queue[p][l]
           q1 == Forgotten(q0, e)
<1>1. /\ work' = [work EXCEPT ![p][e] = "failed"] /\ work[p][e] = "waiting"
      /\ queue' = [queue EXCEPT ![p][l] = q1] /\ l \in Lanes
      /\ UNCHANGED <<row, status, paused, handed, stored, accepted, effects>>
  BY LaneOfEvent DEF GiveUp, At, Move, TypeOK
<1>2. q0 \in Seq(Message) /\ l \in Lanes
  BY LaneOfEvent DEF TypeOK
<1>3. /\ q1 \in Seq(Message) /\ Len(q1) = Len(q0) /\ (q0 = <<>> => q1 = <<>>)
      /\ \A i \in 1..Len(q0) : q1[i].event = q0[i].event
  BY <1>2, ForgottenFollows
<1>4. DOMAIN q1 = 1..Len(q0) /\ DOMAIN q0 = 1..Len(q0)
  BY <1>2, <1>3
<1>. HIDE DEF q1, l
<1>5. /\ queue'[p][l] = q1
      /\ \A q \in Procs, k \in Lanes : <<q, k>> # <<p, l>> => queue'[q][k] = queue[q][k]
  BY <1>1 DEF TypeOK
<1>6. TypeOK'
  <2>1. work' \in [Procs -> [Events -> Stage]]
    BY <1>1 DEF TypeOK, Stage
  <2>2. queue' \in [Procs -> [Lanes -> Seq(Message)]]
    BY <1>1, <1>3 DEF TypeOK
  <2>3. faults' \in 0..MaxFaults
    BY FaultCounts DEF GiveUp
  <2>. QED
    BY <1>1, <2>1, <2>2, <2>3 DEF TypeOK, Stage
<1>7. WorkOK'
  BY <1>1 DEF WorkOK, TypeOK
<1>8. QueueOK'
  BY <1>1, <1>2, <1>3, <1>4, <1>5 DEF QueueOK
<1>9. EndedOK'
  BY <1>1, <1>3, <1>5 DEF EndedOK, TypeOK
<1>10. LanesOK'
  <2>. SUFFICES ASSUME Ordering, NEW q \in Procs, NEW k \in Lanes PROVE LaneOK(q, k)'
    BY DEF LanesOK
  <2>1. CASE <<q, k>> # <<p, l>>
    BY <1>1, <1>5, <2>1 DEF LanesOK, LaneOK
  <2>2. CASE <<q, k>> = <<p, l>>
    <3>1. Follows(handed[p][l], stored[p][l], q0) => Follows(handed[p][l], stored[p][l], q1)
      BY <1>3 DEF Follows
    <3>. QED
      BY <1>1, <1>3, <1>5, <2>2, <3>1 DEF LanesOK, LaneOK
  <2>. QED
    BY <2>1, <2>2
<1>. QED
  BY <1>1, <1>6, <1>7, <1>8, <1>9, <1>10 DEF RowsOK

\* A result is written under a lease, and completes a row only when it was sent.
LEMMA RecordKeeps ==
    ASSUME PipelineInv, NEW p \in Procs, NEW e \in Events, Record(p, e)
    PROVE  PipelineInv'
<1> USE DEF PipelineInv
<1> DEFINE closed == [state |-> IF At(p, e, "sent") THEN "published" ELSE row[e].state,
                      lease |-> NoProc]
<1>1. /\ work' = [work EXCEPT ![p][e] = "none"] /\ work[p][e] \in {"sent", "failed"}
      /\ row' = IF row[e].lease # p THEN row ELSE [row EXCEPT ![e] = closed]
      /\ UNCHANGED <<status, queue, paused, handed, stored, accepted, effects, faults>>
  BY DEF Record, Move, libraryVars
<1>2. row \in [Events -> Row] /\ closed \in Row /\ closed.lease = NoProc
  BY DEF TypeOK, Row
<1>3. closed.state \in {"published", row[e].state} /\ (closed.state = "published" =>
         work[p][e] = "sent" \/ row[e].state = "published")
  BY DEF At
<1>4. row[e].lease = p => row[e].state = "pending"
  BY PipelineAssumption DEF RowsOK
<1>. HIDE DEF closed
<1>5. /\ row' \in [Events -> Row] /\ \A f \in Events \ {e} : row'[f] = row[f]
      /\ row'[e] = row[e] \/ (row'[e] = closed /\ row[e].lease = p)
  BY <1>1, <1>2
<1>6. TypeOK'
  <2>1. work' \in [Procs -> [Events -> Stage]]
    BY <1>1 DEF TypeOK, Stage
  <2>. QED
    BY <1>1, <1>5, <2>1 DEF TypeOK, Row, Stage
<1>7. RowsOK'
  BY <1>1, <1>2, <1>3, <1>5 DEF RowsOK, WorkOK
<1>8. \A f \in Events : row[f].state # "none" => row'[f].state # "none"
  BY <1>3, <1>5
<1>9. WorkOK'
  BY <1>1, <1>8 DEF WorkOK, TypeOK
<1>10. QueueOK'
  BY <1>1, <1>8 DEF QueueOK, TypeOK, Message
<1>11. EndedOK'
  BY <1>1 DEF EndedOK, TypeOK
<1>. QED
  BY <1>1, <1>6, <1>7, <1>9, <1>10, <1>11 DEF LanesOK, LaneOK

LEMMA RecordFailsKeeps ==
    ASSUME PipelineInv, NEW p \in Procs, NEW e \in Events, RecordFails(p, e)
    PROVE  PipelineInv'
<1> USE DEF PipelineInv
<1>0. faults' \in 0..MaxFaults
  BY FaultCounts DEF RecordFails
<1>1. /\ work' = [work EXCEPT ![p][e] = "none"]
      /\ UNCHANGED <<row, status, queue, paused, handed, stored, accepted, effects>>
  BY DEF RecordFails, Move, libraryVars
<1>2. TypeOK'
  BY <1>0, <1>1 DEF TypeOK
<1>3. WorkOK' /\ EndedOK'
  BY <1>1 DEF WorkOK, EndedOK, TypeOK
<1>. QED
  BY <1>1, <1>2, <1>3 DEF RowsOK, QueueOK, LanesOK, LaneOK

LEMMA FlushKeeps ==
    ASSUME PipelineInv, NEW p \in Procs, Flush(p)
    PROVE  PipelineInv'
<1>0. faults' \in 0..MaxFaults
  BY FaultCounts DEF Flush, PipelineInv
<1> USE DEF PipelineInv, Flush, libraryVars
<1>1. TypeOK'
  BY <1>0 DEF TypeOK
<1>2. EndedOK'
  BY DEF EndedOK, TypeOK
<1>3. LanesOK'
  BY DEF LanesOK, LaneOK, TypeOK
<1>. QED
  BY <1>1, <1>2, <1>3 DEF RowsOK, WorkOK, QueueOK

\* Flush has waited until the library holds nothing.
LEMMA ExitKeeps ==
    ASSUME PipelineInv, NEW p \in Procs, Exit(p)
    PROVE  PipelineInv'
<1> USE DEF PipelineInv, Exit, libraryVars
<1>1. TypeOK'
  BY DEF TypeOK
<1>2. EndedOK' /\ WorkOK'
  BY DEF EndedOK, WorkOK, TypeOK
<1>3. LanesOK'
  <2>. SUFFICES ASSUME Ordering, NEW q \in Procs, NEW k \in Lanes PROVE LaneOK(q, k)'
    BY DEF LanesOK
  <2>1. CASE q # p
    BY <2>1 DEF LanesOK, LaneOK, TypeOK
  <2>2. CASE q = p /\ k \notin paused[p]
    <3>1. /\ Follows(handed[p][k], stored[p][k], queue[p][k])
          /\ handed[p][k] \in Seq(Events) /\ stored[p][k] \in Seq(Events)
          /\ queue[p][k] \in Seq(Message) /\ queue[p][k] = <<>>
      BY <2>2 DEF LanesOK, LaneOK, TypeOK
    <3>2. stored[p][k] = handed[p][k]
      BY <3>1, NothingFollows
    <3>. QED
      BY <2>2, <3>2 DEF LanesOK, LaneOK, TypeOK
  <2>3. CASE q = p /\ k \in paused[p]
    BY <2>3 DEF LanesOK, LaneOK, TypeOK
  <2>. QED
    BY <2>1, <2>2, <2>3
<1>. QED
  BY <1>1, <1>2, <1>3 DEF RowsOK, QueueOK

LEMMA CrashKeeps ==
    ASSUME PipelineInv, NEW p \in Procs, Crash(p)
    PROVE  PipelineInv'
<1>0. faults' \in 0..MaxFaults
  BY FaultCounts DEF Crash, PipelineInv
<1> USE DEF PipelineInv, Crash
<1>1. \A l \in Lanes : queue'[p][l] = <<>>
  BY DEF TypeOK
<1>2. \A q \in Procs \ {p} : /\ queue'[q] = queue[q] /\ work'[q] = work[q]
                             /\ status'[q] = status[q]
  BY DEF TypeOK
<1>3. status'[p] = "crashed" /\ \A e \in Events : work'[p][e] = "none"
  BY DEF TypeOK
<1>4. TypeOK'
  <2>1. queue' \in [Procs -> [Lanes -> Seq(Message)]]
    BY DEF TypeOK
  <2>. QED
    BY <1>0, <2>1 DEF TypeOK
<1>5. EndedOK' /\ WorkOK'
  BY <1>1, <1>2, <1>3 DEF EndedOK, WorkOK
<1>6. QueueOK'
  BY <1>1, <1>2 DEF QueueOK
<1>7. LanesOK'
  <2>. SUFFICES ASSUME Ordering, NEW q \in Procs, NEW k \in Lanes PROVE LaneOK(q, k)'
    BY DEF LanesOK
  <2>. QED
    BY <1>1, <1>2, <1>3 DEF LanesOK, LaneOK
<1>. QED
  BY <1>4, <1>5, <1>6, <1>7 DEF RowsOK

LEMMA RestartKeeps ==
    ASSUME PipelineInv, NEW p \in Procs, Restart(p)
    PROVE  PipelineInv'
<1> USE DEF PipelineInv, Restart
<1>1. /\ status'[p] = "up" /\ paused'[p] = {}
      /\ \A l \in Lanes : handed'[p][l] = <<>> /\ stored'[p][l] = <<>>
      /\ UNCHANGED <<row, work, queue, accepted, effects, faults>>
  BY DEF TypeOK
<1>2. \A q \in Procs \ {p} : /\ handed'[q] = handed[q] /\ stored'[q] = stored[q]
                             /\ paused'[q] = paused[q] /\ status'[q] = status[q]
  BY DEF TypeOK
<1>3. TypeOK'
  <2>1. handed' \in [Procs -> [Lanes -> Seq(Events)]]
    BY DEF TypeOK
  <2>2. stored' \in [Procs -> [Lanes -> Seq(Events)]]
    BY DEF TypeOK
  <2>. QED
    BY <2>1, <2>2 DEF TypeOK
<1>4. EndedOK'
  BY <1>1, <1>2 DEF EndedOK
<1>5. LanesOK'
  <2>. SUFFICES ASSUME Ordering, NEW q \in Procs, NEW k \in Lanes PROVE LaneOK(q, k)'
    BY DEF LanesOK
  <2>1. CASE q = p
    <3>1. queue[p][k] = <<>>
      BY DEF EndedOK
    <3>. QED
      BY <1>1, <2>1, <3>1, EmptyFollows DEF LaneOK
  <2>2. CASE q # p
    BY <1>1, <1>2, <2>2 DEF LanesOK, LaneOK
  <2>. QED
    BY <2>1, <2>2
<1>. QED
  BY <1>1, <1>3, <1>4, <1>5 DEF RowsOK, WorkOK, QueueOK

LEMMA ConsumeKeeps ==
    ASSUME PipelineInv, NEW e \in Events, Consume(e)
    PROVE  PipelineInv'
<1> USE DEF PipelineInv, Consume, Inbox!Apply, outboxVars, libraryVars
<1>1. TypeOK'
  BY DEF TypeOK
<1>. QED
  BY <1>1 DEF RowsOK, WorkOK, QueueOK, EndedOK, LanesOK, LaneOK

LEMMA PipelineInvInit == Init => PipelineInv
<1> SUFFICES ASSUME Init PROVE PipelineInv
  OBVIOUS
<1>1. TypeOK
  BY PipelineAssumption DEF Init, TypeOK, EmptyLanes, Inbox!InboxInit
<1>2. RowsOK /\ WorkOK /\ QueueOK /\ EndedOK
  BY DEF Init, EmptyLanes, RowsOK, WorkOK, QueueOK, EndedOK
<1>3. LanesOK
  BY EmptyFollows DEF Init, EmptyLanes, LanesOK, LaneOK
<1>. QED
  BY <1>1, <1>2, <1>3 DEF PipelineInv

LEMMA PipelineInvNext == PipelineInv /\ [Next]_vars => PipelineInv'
<1> SUFFICES ASSUME PipelineInv, [Next]_vars PROVE PipelineInv'
  OBVIOUS
<1>1. CASE UNCHANGED vars
  BY <1>1 DEF vars, PipelineInv, TypeOK, RowsOK, WorkOK, QueueOK, EndedOK, LanesOK, LaneOK
<1>. QED
  BY <1>1, EnqueueKeeps, ClaimKeeps, ClaimUnansweredKeeps, HandoverKeeps, BrokerStoresKeeps,
     SendFailsKeeps, GiveUpKeeps, RecordKeeps, RecordFailsKeeps, FlushKeeps, ExitKeeps, CrashKeeps, RestartKeeps, ConsumeKeeps
     DEF Next, RelayStep

LEMMA PipelineInvariant == Spec => []PipelineInv
  BY PipelineInvInit, PipelineInvNext, PTL DEF Spec

-----------------------------------------------------------------------------

\* Every variable keeps its type.
THEOREM PipelineTypeCorrect == Spec => []TypeOK
<1>1. PipelineInv => TypeOK
  BY DEF PipelineInv
<1>. QED
  BY <1>1, PipelineInvariant, PTL

\* With ordering keys on, what the broker stores of an aggregate during the life
\* of a process is the beginning of what the relay has handed over: a message
\* that fails is not overtaken, whatever is retried, stolen or given up.
THEOREM OrderIsKept == Spec => []NothingOvertakesAFailure
<1>1. PipelineInv => NothingOvertakesAFailure
  <2>. SUFFICES ASSUME PipelineInv, Ordering, NEW p \in Procs, NEW l \in Lanes
                PROVE  /\ Len(stored[p][l]) <= Len(handed[p][l])
                       /\ \A i \in DOMAIN stored[p][l] : stored[p][l][i] = handed[p][l][i]
    BY DEF NothingOvertakesAFailure
  <2>1. DOMAIN stored[p][l] = 1..Len(stored[p][l])
    BY DEF PipelineInv, TypeOK
  <2>. QED
    BY <2>1 DEF PipelineInv, LanesOK, LaneOK, Prefix
<1>. QED
  BY <1>1, PipelineInvariant, PTL

\* A process that ends through Flush has given the broker everything it handed
\* over, but for the lanes whose send has failed.
THEOREM FlushIsComplete == Spec => []ExitLeavesNothingBehind
<1>1. PipelineInv => ExitLeavesNothingBehind
  BY DEF PipelineInv, LanesOK, LaneOK, ExitLeavesNothingBehind
<1>. QED
  BY <1>1, PipelineInvariant, PTL

-----------------------------------------------------------------------------
(* The refinement of the outbox contract.                                   *)

LEMMA OutboxStutter ==
    ASSUME PipelineInv, PipelineInv', accepted' = accepted,
           \A e \in Events : row'[e].state = row[e].state
    PROVE  UNCHANGED Outbox!contractVars
  BY DEF Outbox!contractVars

LEMMA OutboxDeliver ==
    ASSUME PipelineInv, NEW e \in Events, row[e].state # "none", row' = row,
           accepted' = accepted \cup {e}
    PROVE  Outbox!Deliver(e)
  BY DEF Outbox!Deliver

LEMMA OutboxRecord ==
    ASSUME PipelineInv, PipelineInv', NEW p \in Procs, NEW e \in Events, Record(p, e)
    PROVE  Outbox!Complete(e) \/ UNCHANGED Outbox!contractVars
<1>1. CASE row[e].lease = p /\ work[p][e] = "sent"
  <2>1. row[e].state = "pending" /\ e \in accepted
    BY <1>1, PipelineAssumption DEF PipelineInv, RowsOK, WorkOK
  <2>2. row' = [row EXCEPT ![e] = [state |-> "published", lease |-> NoProc]]
    BY <1>1 DEF Record, At
  <2>3. [f \in Events |-> row'[f].state] =
          [[f \in Events |-> row[f].state] EXCEPT ![e] = "published"]
    BY <2>2 DEF PipelineInv, TypeOK
  <2>. QED
    BY <2>1, <2>3 DEF Outbox!Complete, Record
<1>2. CASE ~(row[e].lease = p /\ work[p][e] = "sent")
  <2>1. \A f \in Events : row'[f].state = row[f].state
    BY <1>2 DEF Record, At, PipelineInv, TypeOK
  <2>. QED
    BY <2>1, OutboxStutter DEF Record
<1>. QED
  BY <1>1, <1>2

\* A claim changes leases only, answered or not.
LEMMA OutboxClaim ==
    ASSUME PipelineInv, PipelineInv', NEW p \in Procs, NEW e \in Events,
           Claim(p, e) \/ ClaimUnanswered(p, e)
    PROVE  UNCHANGED Outbox!contractVars
<1>1. row' = [row EXCEPT ![e] = [row[e] EXCEPT !.lease = p]] /\ row \in [Events -> Row]
  BY DEF Claim, ClaimUnanswered, PipelineInv, TypeOK, Row
<1>2. [row[e] EXCEPT !.lease = p].state = row[e].state
  BY <1>1, RowLease
<1>3. \A f \in Events : row'[f].state = row[f].state
  BY <1>1, <1>2
<1>. QED
  BY <1>3, OutboxStutter DEF Claim, ClaimUnanswered

LEMMA OutboxStep ==
    ASSUME PipelineInv, PipelineInv', [Next]_vars
    PROVE  Outbox!ContractNext \/ UNCHANGED Outbox!contractVars
<1>1. ASSUME NEW e \in Events, Enqueue(e) PROVE Outbox!Store(e)
  <2>1. \A f \in Events : row'[f].state = IF f = e THEN "pending" ELSE row[f].state
    <3>1. row' = [row EXCEPT ![e] = [row[e] EXCEPT !.state = "pending"]] /\ row \in [Events -> Row]
      BY <1>1 DEF Enqueue, PipelineInv, TypeOK, Row
    <3>2. [row[e] EXCEPT !.state = "pending"].state = "pending"
      BY <3>1, RowState
    <3>. QED
      BY <3>1, <3>2
  <2>2. [f \in Events |-> row'[f].state] =
          [[f \in Events |-> row[f].state] EXCEPT ![e] = "pending"]
    BY <2>1
  <2>. QED
    BY <1>1, <2>2 DEF Enqueue, Outbox!Store
<1>2. ASSUME NEW p \in Procs, NEW e \in Events, RelayStep(p, e)
      PROVE  Outbox!Complete(e) \/ UNCHANGED Outbox!contractVars
  <2>1. CASE Claim(p, e) \/ ClaimUnanswered(p, e)
    BY <2>1, OutboxClaim
  <2>2. CASE Record(p, e)
    BY <2>2, OutboxRecord
  <2>3. CASE Handover(p, e) \/ GiveUp(p, e) \/ RecordFails(p, e)
    BY <2>3, OutboxStutter DEF Handover, GiveUp, RecordFails
  <2>. QED
    BY <1>2, <2>1, <2>2, <2>3 DEF RelayStep
<1>3. ASSUME NEW p \in Procs, NEW l \in Lanes, BrokerStores(p, l) \/ SendFails(p, l)
      PROVE  Outbox!ContractNext \/ UNCHANGED Outbox!contractVars
  <2> DEFINE e == Head(queue[p][l]).event
  <2>1. /\ queue[p][l] # <<>> /\ row' = row
        /\ accepted' = accepted \/ accepted' = accepted \cup {e}
    <3>1. CASE BrokerStores(p, l)
      BY <3>1 DEF BrokerStores
    <3>2. CASE SendFails(p, l)
      BY <3>2 DEF SendFails
    <3>. QED
      BY <1>3, <3>1, <3>2
  <2>2. e \in Events /\ row[e].state # "none"
    BY <2>1, HeadOfLane
  <2>. HIDE DEF e
  <2>3. CASE accepted' = accepted
    BY <2>1, <2>3, OutboxStutter
  <2>4. CASE accepted' = accepted \cup {e}
    BY <2>1, <2>2, <2>4, OutboxDeliver DEF Outbox!ContractNext
  <2>. QED
    BY <2>1, <2>3, <2>4
<1>4. ASSUME NEW p \in Procs, Flush(p) \/ Exit(p) \/ Crash(p) \/ Restart(p)
      PROVE  UNCHANGED Outbox!contractVars
  BY <1>4, OutboxStutter DEF Flush, Exit, Crash, Restart
<1>5. ASSUME NEW e \in Events, Consume(e) PROVE UNCHANGED Outbox!contractVars
  BY <1>5, OutboxStutter DEF Consume, outboxVars
<1>6. CASE UNCHANGED vars
  BY <1>6, OutboxStutter DEF vars
<1>. QED
  BY <1>1, <1>2, <1>3, <1>4, <1>5, <1>6 DEF Next, Outbox!ContractNext

LEMMA OutboxStart == Init => Outbox!ContractInit
<1> SUFFICES ASSUME Init PROVE Outbox!ContractInit
  OBVIOUS
<1>1. [e \in Events |-> row[e].state] = [e \in Events |-> "none"]
  BY DEF Init
<1>. QED
  BY <1>1 DEF Init, Outbox!ContractInit

\* The relay over the ordering client library implements the outbox contract:
\* no event is completed that the broker has not stored, also when lanes are
\* paused, when the process flushes, and when the leases change hands.
THEOREM PipelineImplementsOutbox == Spec => ImplementsOutbox
<1>1. PipelineInv /\ PipelineInv' /\ [Next]_vars =>
         [Outbox!ContractNext]_Outbox!contractVars
  BY OutboxStep
<1>. QED
  BY <1>1, OutboxStart, PipelineInvariant, PTL
     DEF Spec, ImplementsOutbox, Outbox!ContractSpec

-----------------------------------------------------------------------------
(* From one service to the other.                                           *)

\* What the broker has is of a row that a producer has committed, and what the
\* consumer has done is of a message that the broker has.
OriginOK ==
    /\ \A e \in accepted : row[e].state # "none"
    /\ \A e \in Events : effects[e] = 1 => e \in accepted

\* The consumer's tables show nothing of an event whose business transaction has
\* not committed.
NoEffectWithoutEvent == \A e \in Events : effects[e] = 1 => row[e].state # "none"

\* By its contract the outbox loses no row, and the broker is given only rows.
LEMMA AcceptedStep ==
    ASSUME PipelineInv, PipelineInv', [Next]_vars, \A e \in accepted : row[e].state # "none"
    PROVE  accepted \subseteq accepted' /\ \A e \in accepted' : row'[e].state # "none"
<1> DEFINE state(e) == [f \in Events |-> row[f].state][e]
<1>1. accepted \subseteq Events /\ accepted' \subseteq Events
  BY DEF PipelineInv, TypeOK
<1>2. \A e \in Events : state(e) = row[e].state /\ state(e)' = row'[e].state
  OBVIOUS
<1>3. CASE UNCHANGED Outbox!contractVars
  <2>1. accepted' = accepted /\ \A e \in Events : state(e)' = state(e)
    BY <1>3 DEF Outbox!contractVars
  <2>. QED
    BY <1>1, <1>2, <2>1
<1>4. ASSUME NEW e \in Events, Outbox!Store(e)
      PROVE  accepted' = accepted /\ \A f \in Events : row[f].state # "none" => row'[f].state # "none"
  <2>1. accepted' = accepted /\ \A f \in Events : state(f)' = IF f = e THEN "pending" ELSE state(f)
    BY <1>4 DEF Outbox!Store
  <2>. QED
    BY <1>2, <2>1
<1>5. ASSUME NEW e \in Events, Outbox!Deliver(e)
      PROVE  /\ row[e].state # "none" /\ accepted' = accepted \cup {e}
             /\ \A f \in Events : row'[f].state = row[f].state
  <2>1. state(e) # "none" /\ accepted' = accepted \cup {e} /\ \A f \in Events : state(f)' = state(f)
    BY <1>5 DEF Outbox!Deliver
  <2>. QED
    BY <1>2, <2>1
<1>6. ASSUME NEW e \in Events, Outbox!Complete(e)
      PROVE  accepted' = accepted /\ \A f \in Events : row[f].state # "none" => row'[f].state # "none"
  <2>1. accepted' = accepted /\ \A f \in Events : state(f)' = IF f = e THEN "published" ELSE state(f)
    BY <1>6 DEF Outbox!Complete
  <2>. QED
    BY <1>2, <2>1
<1>7. CASE Outbox!ContractNext
  <2>1. PICK e \in Events : Outbox!Store(e) \/ Outbox!Deliver(e) \/ Outbox!Complete(e)
    BY <1>7 DEF Outbox!ContractNext
  <2>2. CASE Outbox!Store(e) \/ Outbox!Complete(e)
    <3>1. accepted' = accepted /\ \A f \in Events : row[f].state # "none" => row'[f].state # "none"
      BY <2>2, <1>4, <1>6
    <3>. QED
      BY <1>1, <3>1
  <2>3. CASE Outbox!Deliver(e)
    <3>1. /\ row[e].state # "none" /\ accepted' = accepted \cup {e}
          /\ \A f \in Events : row'[f].state = row[f].state
      BY <2>3, <1>5
    <3>. QED
      BY <1>1, <3>1
  <2>. QED
    BY <2>1, <2>2, <2>3
<1>. QED
  BY <1>3, <1>7, OutboxStep

\* The consumer does its work by its contract, and nobody else touches its tables.
LEMMA EffectStep ==
    ASSUME PipelineInv, [Next]_vars
    PROVE  \/ \E e \in accepted : Inbox!Apply(e)
           \/ effects' = effects
<1>1. ASSUME NEW e \in Events, Consume(e) PROVE e \in accepted /\ Inbox!Apply(e)
  BY <1>1 DEF Consume
<1>2. CASE UNCHANGED vars
  BY <1>2 DEF vars
<1>3. ASSUME NEW e \in Events, Enqueue(e) PROVE effects' = effects
  BY <1>3 DEF Enqueue
<1>4. ASSUME NEW p \in Procs, NEW e \in Events, RelayStep(p, e) PROVE effects' = effects
  BY <1>4 DEF RelayStep, Claim, ClaimUnanswered, Handover, GiveUp, Record, RecordFails
<1>5. ASSUME NEW p \in Procs, NEW l \in Lanes, BrokerStores(p, l) \/ SendFails(p, l)
      PROVE  effects' = effects
  BY <1>5 DEF BrokerStores, SendFails
<1>6. ASSUME NEW p \in Procs, Flush(p) \/ Exit(p) \/ Crash(p) \/ Restart(p)
      PROVE  effects' = effects
  BY <1>6 DEF Flush, Exit, Crash, Restart
<1>. QED
  BY <1>1, <1>2, <1>3, <1>4, <1>5, <1>6 DEF Next

LEMMA OriginStep ==
    ASSUME PipelineInv, PipelineInv', [Next]_vars, OriginOK
    PROVE  OriginOK'
<1>1. accepted \subseteq accepted' /\ \A e \in accepted' : row'[e].state # "none"
  BY AcceptedStep DEF OriginOK
<1>2. \A e \in Events : effects'[e] = 1 => e \in accepted
  <2>1. CASE effects' = effects
    BY <2>1 DEF OriginOK
  <2>2. ASSUME NEW f \in accepted, Inbox!Apply(f)
        PROVE  \A e \in Events : effects'[e] = 1 => e \in accepted
    BY <2>2 DEF OriginOK, Inbox!Apply, PipelineInv, TypeOK
  <2>. QED
    BY <2>1, <2>2, EffectStep
<1>. QED
  BY <1>1, <1>2 DEF OriginOK

\* No effect without an event: what the consuming service has done for an event
\* was committed by the producing one, whichever relay instance published it,
\* however often, and whether its lease, its client or its process survived.
THEOREM EffectsHaveEvents == Spec => []NoEffectWithoutEvent
<1>1. Init => OriginOK
  BY DEF Init, OriginOK, Inbox!InboxInit
<1>2. PipelineInv /\ PipelineInv' /\ OriginOK /\ [Next]_vars => OriginOK'
  BY OriginStep
<1>3. PipelineInv /\ OriginOK => NoEffectWithoutEvent
  BY DEF OriginOK, NoEffectWithoutEvent
<1>. QED
  BY <1>1, <1>2, <1>3, PipelineInvariant, PTL DEF Spec
=============================================================================
