-------------------------- MODULE ComponentsProofs --------------------------
(***************************************************************************)
(* The properties of the components that share no state with the others:    *)
(* Startup for any number of attempts to start, Tokens for any callers and   *)
(* any clock, Logger for any helpers, keys and labels.                       *)
(***************************************************************************)
EXTENDS Startup, Tokens, Logger, SequenceTheorems, WellFoundedInduction, TLAPS

-----------------------------------------------------------------------------
(* Startup.  What the current attempt holds follows from its next step; an   *)
(* attempt that is over has Ended, and one that is still to come is Fresh.    *)

Steps == {"pool", "gauge", "ping", "pubsub", "relay", "up", "stop", "unregister",
          "close", "down"}

StartupTypeOK ==
    /\ start \in Starts /\ step \in Steps
    /\ pool \in [Starts -> {"none", "open", "closed"}]
    /\ ping \in [Starts -> {"no", "ok", "failed"}]
    /\ gauge \subseteq Starts /\ backlog \subseteq Starts
    /\ pubsub \in [Starts -> {"none", "open", "closed"}]
    /\ topic \in [Starts -> {"live", "stopped"}]
    /\ relay \in [Starts -> {"none", "built", "running", "ended"}]

\* Nothing has been acquired yet.
Fresh(s) ==
    /\ pool[s] = "none" /\ pubsub[s] = "none" /\ topic[s] = "stopped"
    /\ relay[s] = "none" /\ s \notin gauge /\ s \notin backlog

\* Everything has been given back that ever is.
Ended(s) ==
    /\ pool[s] # "open" /\ pubsub[s] # "open" /\ topic[s] # "live"
    /\ s \in gauge => ping[s] = "failed" /\ pool[s] = "closed"
    /\ s \in backlog => relay[s] = "built"

\* What the current attempt holds before each step.
Holds ==
    /\ step = "pool" => Fresh(start)
    /\ step = "gauge" => start \notin gauge
    /\ step \in {"gauge", "ping", "pubsub"} =>
          pool[start] = "open" /\ pubsub[start] = "none" /\ topic[start] = "stopped"
    /\ step \in {"gauge", "ping", "pubsub", "relay"} =>
          relay[start] = "none" /\ start \notin backlog
    /\ step \in {"relay", "up", "stop"} => pool[start] = "open"
    /\ step \in {"unregister", "close"} =>
          pool[start] = "open" /\ pubsub[start] # "open" /\ topic[start] = "stopped"
    /\ step = "close" => start \notin gauge
    /\ step = "down" => Ended(start)
    /\ relay[start] = "running" => step = "up"
    /\ start \in backlog => relay[start] \in {"built", "running"}

StartupInv ==
    /\ StartupTypeOK
    /\ \A s \in Starts : s > start => Fresh(s)
    /\ \A s \in Starts : s < start => Ended(s)
    /\ Holds

-----------------------------------------------------------------------------

LEMMA StartupInvInit == StartupInit => StartupInv
  BY StartupAssumption DEF StartupInit, StartupInv, StartupTypeOK, Fresh, Ended, Holds,
     Starts, Steps

\* One step per operation; only the current attempt is touched.
LEMMA StartupInvNext == StartupInv /\ [StartupNext]_startVars => StartupInv'
<1> USE StartupAssumption DEF StartupInv
<1> SUFFICES ASSUME StartupInv, [StartupNext]_startVars PROVE StartupInv'
  OBVIOUS
<1> USE DEF StartupTypeOK, Fresh, Ended, Holds, Starts, Steps, Goto, Set
<1>1. CASE CreatePool
  BY <1>1 DEF CreatePool
<1>2. CASE RegisterGauge
  BY <1>2 DEF RegisterGauge
<1>3. CASE Ping
  BY <1>3 DEF Ping
<1>4. CASE UnregisterGauge
  BY <1>4 DEF UnregisterGauge
<1>5. CASE ClosePool
  BY <1>5 DEF ClosePool
<1>6. CASE CreateClient
  BY <1>6 DEF CreateClient
<1>7. CASE CloseClient
  BY <1>7 DEF CloseClient
<1>8. CASE CreateRelay
  <2>1. CASE UNCHANGED <<relay, backlog>> /\ step' = "stop"
    BY <1>8, <2>1 DEF CreateRelay
  <2>2. CASE /\ relay' = [relay EXCEPT ![start] = "built"] /\ step' = "up"
             /\ backlog' \in {backlog, backlog \cup {start}}
    BY <1>8, <2>2 DEF CreateRelay
  <2>. QED
    BY <1>8, <2>1, <2>2 DEF CreateRelay
<1>9. CASE RunRelay
  BY <1>9 DEF RunRelay
<1>10. CASE EndRelay
  BY <1>10 DEF EndRelay
<1>11. CASE Stop
  BY <1>11 DEF Stop
<1>12. CASE StartAgain
  BY <1>12 DEF StartAgain
<1>13. CASE UNCHANGED startVars
  BY <1>13 DEF startVars
<1>. QED
  BY <1>1, <1>2, <1>3, <1>4, <1>5, <1>6, <1>7, <1>8, <1>9, <1>10, <1>11, <1>12,
     <1>13 DEF StartupNext

LEMMA StartupInvariant == StartupSpec => []StartupInv
  BY StartupInvInit, StartupInvNext, PTL DEF StartupSpec

\* The callback of a pool's gauge never looks at a pool that has been closed,
\* but for the one whose first ping failed: NewComponent then closes the pool
\* and forgets the callback, and every other close comes after the cleanup has
\* removed it.
THEOREM GaugeIsSafe == StartupSpec => []GaugeSeesOpenPool
<1>1. StartupInv => GaugeSeesOpenPool
  BY DEF StartupInv, StartupTypeOK, Holds, Fresh, Ended, GaugeSeesOpenPool, Starts, Steps
<1>. QED
  BY <1>1, StartupInvariant, PTL

\* However far an attempt to start has come, and whatever was done with it, once
\* it is over no pool is open, no client, and no topic that buffers messages.
THEOREM StartCleansUp == StartupSpec => []StartLeavesNothing
<1>1. StartupInv => StartLeavesNothing
  BY DEF StartupInv, StartupTypeOK, Holds, Fresh, Ended, StartLeavesNothing, Starts, Steps
<1>. QED
  BY <1>1, StartupInvariant, PTL

-----------------------------------------------------------------------------
(* Tokens.  What a handler may see rests on the configuration that            *)
(* NewComponent lets through; what the callers are told rests on the source   *)
(* being made once.                                                           *)

\* The configurations stay what they were, and a component that was built has
\* a server that checks the audience unless it checks nothing.
Configured ==
    /\ client \in ClientConfigs /\ server \in ServerConfigs
    /\ built = "yes" => ServerValid

Situations == {"idle", "waiting", "acquiring", "sent", "failed", "init error"}

TokensInv ==
    /\ Configured
    /\ initErr \in BOOLEAN /\ at \in [Callers -> Situations]
    /\ (\E c \in Callers : at[c] # "idle") => built = "yes"
    /\ HandlerSeesValidClaims
    /\ CallersShareOutcome

-----------------------------------------------------------------------------

LEMMA TokensInvInit == TokensInit => TokensInv
<1> SUFFICES ASSUME TokensInit PROVE TokensInv
  OBVIOUS
<1>1. handled.by = "nobody"
  BY DEF TokensInit, NoRequest
<1>. QED
  BY <1>1 DEF TokensInit, TokensInv, Situations, Configured, HandlerSeesValidClaims,
     CallersShareOutcome

\* The decision of the server, for any header of any request.
LEMMA ServeChecks ==
    ASSUME Configured, built = "yes", NEW from, NEW headers, Serve(from, headers),
           server' = server
    PROVE  HandlerSeesValidClaims'
<1> DEFINE header == Extract(headers)
<1>1. CASE handled' = NoRequest
  BY <1>1 DEF HandlerSeesValidClaims, NoRequest
<1>2. CASE /\ handled' = [by |-> from, claims |-> header, at |-> now]
           /\ header.kind = "token" /\ (server.skip \/ ClaimsValid(header))
  BY <1>2 DEF HandlerSeesValidClaims, ClaimsValid, Configured, ServerValid, ServerConfigs
<1>3. CASE /\ handled' = [by |-> from, claims |-> NoHeader, at |-> now]
           /\ server.skip \/ ~server.required
  BY <1>3 DEF HandlerSeesValidClaims
<1>. QED
  BY <1>1, <1>2, <1>3 DEF Serve

LEMMA TokensInvNext == TokensInv /\ [TokensNext]_tokenVars => TokensInv'
<1> SUFFICES ASSUME TokensInv, [TokensNext]_tokenVars PROVE TokensInv'
  OBVIOUS
<1> USE TokensAssumption DEF TokensInv, Situations
<1>1. CASE NewComponent
  BY <1>1 DEF NewComponent, Configured, ClientValid, ServerValid, HandlerSeesValidClaims,
     CallersShareOutcome
<1>2. CASE Receive
  BY <1>2, ServeChecks DEF Receive, Configured, ServerValid, CallersShareOutcome
<1>3. CASE Tick
  BY <1>3 DEF Tick, Configured, ServerValid, HandlerSeesValidClaims, CallersShareOutcome
<1>4. ASSUME NEW c \in Callers, Call(c) PROVE TokensInv'
  <2>1. HandlerSeesValidClaims'
    BY <1>4, ServeChecks DEF Call, HandlerSeesValidClaims
  <2>2. at' \in [Callers -> Situations] /\ CallersShareOutcome'
    BY <1>4 DEF Call, Move, CallersShareOutcome
  <2>. QED
    BY <1>4, <2>1, <2>2 DEF Call, Configured, ServerValid
<1>5. ASSUME NEW c \in Callers, EnterOnce(c) PROVE TokensInv'
  BY <1>5 DEF EnterOnce, Configured, ServerValid, HandlerSeesValidClaims, CallersShareOutcome
<1>6. ASSUME NEW c \in Callers, MakeSource(c) PROVE TokensInv'
  <2>1. \A d \in Callers : at[d] \notin {"acquiring", "failed", "init error"}
    BY <1>6 DEF MakeSource, CallersShareOutcome
  <2>2. initErr' \in BOOLEAN
    BY <1>6 DEF MakeSource
  <2>. QED
    BY <1>6, <2>1, <2>2 DEF MakeSource, Configured, ServerValid, HandlerSeesValidClaims,
       CallersShareOutcome
<1>7. ASSUME NEW c \in Callers, PassOnce(c) PROVE TokensInv'
  <2>1. CASE initErr
    BY <1>7, <2>1 DEF PassOnce, Waiting, Move, Configured, ServerValid,
       HandlerSeesValidClaims, CallersShareOutcome
  <2>2. CASE ~initErr
    BY <1>7, <2>2 DEF PassOnce, Waiting, Move, Configured, ServerValid,
       HandlerSeesValidClaims, CallersShareOutcome
  <2>. QED
    BY <2>1, <2>2
<1>8. ASSUME NEW c \in Callers, Send(c) PROVE TokensInv'
  <2>1. HandlerSeesValidClaims'
    <3>1. built = "yes"
      BY <1>8 DEF Send
    <3>. QED
      BY <1>8, <3>1, ServeChecks DEF Send
  <2>2. at' \in [Callers -> Situations] /\ CallersShareOutcome'
    BY <1>8 DEF Send, Move, CallersShareOutcome
  <2>. QED
    BY <1>8, <2>1, <2>2 DEF Send, Configured, ServerValid
<1>9. ASSUME NEW c \in Callers, SendFails(c) PROVE TokensInv'
  BY <1>9 DEF SendFails, Move, Configured, ServerValid, HandlerSeesValidClaims,
     CallersShareOutcome
<1>10. CASE UNCHANGED tokenVars
  BY <1>10 DEF tokenVars, Configured, ServerValid, HandlerSeesValidClaims, CallersShareOutcome
<1>. QED
  BY <1>1, <1>2, <1>3, <1>4, <1>5, <1>6, <1>7, <1>8, <1>9, <1>10 DEF TokensNext

LEMMA TokensInvariant == TokensSpec => []TokensInv
  BY TokensInvInit, TokensInvNext, PTL DEF TokensSpec

\* Whatever a request carries, a handler that runs behind the middleware of a
\* component that NewComponent has built was given valid claims, or none where
\* the configuration asks for none.
THEOREM HandlerIsGuarded == TokensSpec => []HandlerSeesValidClaims
  BY TokensInvariant, PTL DEF TokensInv

\* The source is made once: the callers that wait in sync.Once and all later ones
\* are told the same.
THEOREM SourceIsShared == TokensSpec => []CallersShareOutcome
  BY TokensInvariant, PTL DEF TokensInv

-----------------------------------------------------------------------------
(* Logger.  An entry is Heard after n fields if each place has the last word   *)
(* the first n have for it; the loop keeps that, and the labels come last.     *)

\* An entry has these parts.
IsEntry(e) ==
    e = [msg |-> e.msg, trace_id |-> e.trace_id, span_id |-> e.span_id,
         caller |-> e.caller, payload |-> e.payload, labels |-> e.labels,
         http_request |-> e.http_request, error |-> e.error, extra |-> e.extra]

\* What a field does to the parts of the entry.
AddParts(acc, f, new) ==
    /\ IsEntry(new)
    /\ \A k \in Singles : f.key # k \/ Silent(f) => new[k] = acc[k]
    /\ f.key \in Singles /\ ~Silent(f) =>
          new[f.key] = IF f.key = "error" THEN Sprint(f) ELSE Text(f)
    /\ new.payload = IF f.key = "payload" THEN Over(f.val, acc.payload) ELSE acc.payload
    /\ new.labels = IF f.key = "labels" /\ ~Silent(f) THEN Over(f.val, acc.labels)
                    ELSE IF f.key \in LabelKeys \ CoreKeys
                    THEN Over(Only(f.key, Sprint(f)), acc.labels) ELSE acc.labels
    /\ new.extra = IF f.key \in PayloadKeys \ CoreKeys
                   THEN Over(Only(f.key, f.val), acc.extra) ELSE acc.extra

LEMMA AddsParts ==
    ASSUME NEW acc, IsEntry(acc), NEW f, Supported(f)
    PROVE  AddParts(acc, f, Add(acc, f))
<1> USE DEF IsEntry
<1> DEFINE new == Add(acc, f)
<1>0. LabelKeys \cap PayloadKeys = {}
  BY DEF PayloadKeys
<1>1. CASE f.key = "payload"
  <2>1. new = [acc EXCEPT !.payload = Over(f.val, acc.payload)]
    BY <1>1 DEF Add, Texts, CoreKeys
  <2> HIDE DEF new
  <2>2. ~Silent(f) /\ f.key \in CoreKeys /\ f.key \notin Singles
    BY <1>1 DEF Silent, CoreKeys, Singles
  <2> QED
    BY <1>1, <2>1, <2>2 DEF Singles, CoreKeys, AddParts, new
<1>2. CASE f.key = "labels"
  <2>1. new = IF Silent(f) THEN acc ELSE [acc EXCEPT !.labels = Over(f.val, acc.labels)]
    BY <1>2 DEF Add, Silent, Texts, CoreKeys
  <2> HIDE DEF new
  <2>2. f.key \in CoreKeys /\ f.key \notin Singles
    BY <1>2 DEF CoreKeys, Singles
  <2> QED
    BY <1>2, <2>1, <2>2 DEF Singles, CoreKeys, AddParts, new
<1>3. CASE f.key = "error"
  <2>1. new = IF Silent(f) THEN acc ELSE [acc EXCEPT !.error = Sprint(f)]
    BY <1>3 DEF Add, Silent, Texts, CoreKeys
  <2> HIDE DEF new
  <2>2. f.key \in CoreKeys /\ f.key \in Singles
    BY <1>3 DEF CoreKeys, Singles
  <2> QED
    BY <1>3, <2>1, <2>2 DEF Singles, CoreKeys, AddParts, new
<1>4. CASE f.key = "http_request"
  <2>1. new = IF Silent(f) THEN acc ELSE [acc EXCEPT !.http_request = Text(f)]
    BY <1>4 DEF Add, Silent, Texts, CoreKeys
  <2> HIDE DEF new
  <2>2. f.key \in CoreKeys /\ f.key \in Singles
    BY <1>4 DEF CoreKeys, Singles
  <2> QED
    BY <1>4, <2>1, <2>2 DEF Singles, CoreKeys, AddParts, new
<1>5. CASE f.key \in Texts
  <2>1. new = [acc EXCEPT ![f.key] = Text(f)]
    BY <1>5 DEF Add, Texts, CoreKeys
  <2> HIDE DEF new
  <2>2. f.key \in CoreKeys /\ f.key \in Singles /\ ~Silent(f)
    BY <1>5 DEF CoreKeys, Singles, Texts, Silent
  <2>3. f.key \notin {"payload", "labels", "error"}
    BY <1>5 DEF Texts
  <2> QED
    BY <1>5, <2>1, <2>2, <2>3 DEF Singles, CoreKeys, AddParts, Texts, new
<1>6. CASE f.key \in LabelKeys \ CoreKeys
  <2>1. new = [acc EXCEPT !.labels = Over(Only(f.key, Sprint(f)), acc.labels)]
    BY <1>0, <1>6 DEF Add, CoreKeys, Texts
  <2> HIDE DEF new
  <2>2. f.key \notin Singles /\ ~Silent(f) /\ f.key \notin {"payload", "labels"}
    BY <1>6 DEF CoreKeys, Singles, Silent
  <2> QED
    BY <1>0, <1>6, <2>1, <2>2 DEF Singles, CoreKeys, AddParts, new
<1>7. CASE f.key \in PayloadKeys \ CoreKeys
  <2>1. new = [acc EXCEPT !.extra = Over(Only(f.key, f.val), acc.extra)]
    BY <1>0, <1>7 DEF Add, CoreKeys, Texts
  <2> HIDE DEF new
  <2>2. f.key \notin Singles /\ ~Silent(f) /\ f.key \notin {"payload", "labels"}
    BY <1>7 DEF CoreKeys, Singles, Silent
  <2> QED
    BY <1>0, <1>7, <2>1, <2>2 DEF Singles, CoreKeys, AddParts, new
<1> QED
  BY <1>1, <1>2, <1>3, <1>4, <1>5, <1>6, <1>7 DEF Supported, AllowedKeys, CoreKeys, Texts


\* The places a field speaks of, and what it says there.
LEMMA SaysWhere ==
    ASSUME NEW f, Supported(f)
    PROVE  /\ \A p \in DOMAIN Says(f) : \E k :
                 p \in {<<"entry", k>>, <<"payload", k>>, <<"labels", k>>, <<"extra", k>>}
           /\ \A k : <<"entry", k>> \in DOMAIN Says(f) <=>
                        k = f.key /\ k \in Singles /\ ~Silent(f)
           /\ \A k : <<"payload", k>> \in DOMAIN Says(f) <=>
                        f.key = "payload" /\ k \in DOMAIN f.val
           /\ \A k : <<"labels", k>> \in DOMAIN Says(f) <=>
                        \/ f.key = "labels" /\ ~Silent(f) /\ k \in DOMAIN f.val /\ k # ""
                        \/ k = f.key /\ f.key \in LabelKeys \ CoreKeys
           /\ \A k : <<"extra", k>> \in DOMAIN Says(f) <=>
                        k = f.key /\ f.key \in PayloadKeys \ CoreKeys
           /\ f.key \in Singles /\ ~Silent(f) =>
                 Says(f)[<<"entry", f.key>>] = IF f.key = "error" THEN Sprint(f) ELSE Text(f)
           /\ f.key \in {"payload", "labels"} /\ ~Silent(f) =>
                 \A k : <<f.key, k>> \in DOMAIN Says(f) => Says(f)[<<f.key, k>>] = f.val[k]
           /\ f.key \in LabelKeys \ CoreKeys => Says(f)[<<"labels", f.key>>] = Sprint(f)
           /\ f.key \in PayloadKeys \ CoreKeys => Says(f)[<<"extra", f.key>>] = f.val
<1>0. /\ LabelKeys \cap PayloadKeys = {} /\ CoreKeys = Singles \cup {"payload", "labels"}
      /\ "payload" \notin Singles /\ "labels" \notin Singles
  BY DEF PayloadKeys, CoreKeys, Singles
<1>1. CASE Silent(f)
  <2>1. Says(f) = Nothing /\ DOMAIN Says(f) = {}
    BY <1>1 DEF Says, Nothing
  <2>2. f.key \in {"labels", "error", "http_request"} /\ f.key \in CoreKeys
    BY <1>1 DEF Silent, CoreKeys
  <2> QED
    BY <1>1, <2>1, <2>2
<1>2. CASE f.key = "payload"
  <2>1. ~Silent(f) /\ f.key \in CoreKeys /\ f.key \notin Singles
    BY <1>0, <1>2 DEF Silent
  <2>2. Says(f) = [p \in ({"payload"} \X DOMAIN f.val) \ {<<"labels", "">>} |-> f.val[p[2]]]
    BY <1>2, <2>1 DEF Says
  <2> DEFINE D == ({"payload"} \X DOMAIN f.val) \ {<<"labels", "">>}
  <2>3. \A p \in D : \E k : p = <<"payload", k>>
    <3>1. ASSUME NEW p \in {"payload"} \X DOMAIN f.val PROVE \E k : p = <<"payload", k>>
      <4>1. p[1] = "payload" /\ p = <<p[1], p[2]>>
        OBVIOUS
      <4> QED
        BY <4>1
    <3> QED
      BY <3>1
  <2>4. \A x, k : <<x, k>> \in D <=> x = "payload" /\ k \in DOMAIN f.val
    OBVIOUS
  <2>5. DOMAIN Says(f) = D /\ \A p \in D : Says(f)[p] = f.val[p[2]]
    BY <2>2
  <2>6. \A k : <<"payload", k>> \in D => Says(f)[<<"payload", k>>] = f.val[k]
    BY <2>5
  <2> HIDE DEF D
  <2>7. f.key \notin LabelKeys \ CoreKeys /\ f.key \notin PayloadKeys \ CoreKeys
    BY <2>1
  <2> QED
    BY <1>2, <2>1, <2>3, <2>4, <2>5, <2>6, <2>7
<1>3. CASE f.key = "labels" /\ ~Silent(f)
  <2>1. f.key \in CoreKeys /\ f.key \notin Singles
    BY <1>0, <1>3
  <2>2. Says(f) = [p \in ({"labels"} \X DOMAIN f.val) \ {<<"labels", "">>} |-> f.val[p[2]]]
    BY <1>3 DEF Says
  <2> DEFINE D == ({"labels"} \X DOMAIN f.val) \ {<<"labels", "">>}
  <2>3. \A p \in D : \E k : p = <<"labels", k>>
    <3>1. ASSUME NEW p \in {"labels"} \X DOMAIN f.val PROVE \E k : p = <<"labels", k>>
      <4>1. p[1] = "labels" /\ p = <<p[1], p[2]>>
        OBVIOUS
      <4> QED
        BY <4>1
    <3> QED
      BY <3>1
  <2>4. \A x, k : <<x, k>> \in D <=> x = "labels" /\ k \in DOMAIN f.val /\ k # ""
    OBVIOUS
  <2>5. DOMAIN Says(f) = D /\ \A p \in D : Says(f)[p] = f.val[p[2]]
    BY <2>2
  <2>6. \A k : <<"labels", k>> \in D => Says(f)[<<"labels", k>>] = f.val[k]
    BY <2>5
  <2> HIDE DEF D
  <2>7. f.key \notin LabelKeys \ CoreKeys /\ f.key \notin PayloadKeys \ CoreKeys
    BY <2>1
  <2> QED
    BY <1>3, <2>1, <2>3, <2>4, <2>5, <2>6, <2>7
<1>4. CASE f.key \in Singles /\ ~Silent(f)
  <2>1. f.key \in CoreKeys /\ f.key \notin {"payload", "labels"}
    BY <1>0, <1>4
  <2>2. Says(f) = Only(<<"entry", f.key>>, IF f.key = "error" THEN Sprint(f) ELSE Text(f))
    BY <1>4, <2>1 DEF Says
  <2> QED
    BY <1>4, <2>1, <2>2 DEF Only
<1>5. CASE f.key \in LabelKeys \ CoreKeys
  <2>1. ~Silent(f) /\ f.key \notin Singles /\ f.key \notin {"payload", "labels"}
    BY <1>0, <1>5 DEF Silent, CoreKeys
  <2>2. Says(f) = Only(<<"labels", f.key>>, Sprint(f))
    BY <1>5, <2>1 DEF Says
  <2> QED
    BY <1>0, <1>5, <2>1, <2>2 DEF Only
<1>6. CASE f.key \in PayloadKeys \ CoreKeys
  <2>1. /\ ~Silent(f) /\ f.key \notin Singles /\ f.key \notin {"payload", "labels"}
        /\ f.key \notin LabelKeys
    BY <1>0, <1>6 DEF Silent, CoreKeys
  <2>2. Says(f) = Only(<<"extra", f.key>>, f.val)
    BY <1>6, <2>1 DEF Says
  <2> QED
    BY <1>0, <1>6, <2>1, <2>2 DEF Only
<1> QED
  BY <1>0, <1>1, <1>2, <1>3, <1>4, <1>5, <1>6 DEF Supported, AllowedKeys

\* No label without a name is ever said.
LEMMA UnnamedUnsaid ==
    ASSUME NEW f, Supported(f)
    PROVE  <<"labels", "">> \notin DOMAIN Says(f)
<1>1. "" \notin LabelKeys
  BY LogAssumption DEF LabelKeys
<1>2. \A k : <<"labels", k>> \in DOMAIN Says(f) <=>
                 \/ f.key = "labels" /\ ~Silent(f) /\ k \in DOMAIN f.val /\ k # ""
                 \/ k = f.key /\ f.key \in LabelKeys \ CoreKeys
  BY SaysWhere
<1> QED
  BY <1>1, <1>2

\* The places of an entry.
LEMMA PlacesWhere ==
    ASSUME NEW e
    PROVE  /\ \A p \in PlacesOf(e) : \E k :
                 p \in {<<"entry", k>>, <<"payload", k>>, <<"labels", k>>, <<"extra", k>>}
           /\ \A k : /\ <<"entry", k>> \in PlacesOf(e) <=> k \in Singles
                     /\ <<"payload", k>> \in PlacesOf(e) <=> k \in DOMAIN e.payload
                     /\ <<"labels", k>> \in PlacesOf(e) <=> k \in DOMAIN e.labels
                     /\ <<"extra", k>> \in PlacesOf(e) <=> k \in DOMAIN e.extra
                     /\ At(e, <<"entry", k>>) = e[k]
                     /\ At(e, <<"payload", k>>) = e.payload[k]
                     /\ At(e, <<"labels", k>>) = e.labels[k]
                     /\ At(e, <<"extra", k>>) = e.extra[k]
  BY DEF PlacesOf, At

\* A map over another one.
LEMMA OverAt ==
    ASSUME NEW g, NEW h
    PROVE  \A k : /\ k \in DOMAIN Over(g, h) <=> k \in DOMAIN g \/ k \in DOMAIN h
                  /\ k \in DOMAIN g => Over(g, h)[k] = g[k]
                  /\ k \in DOMAIN h \ DOMAIN g => Over(g, h)[k] = h[k]
  BY DEF Over

\* A field writes what it says, and leaves the rest alone.
LEMMA AddSays ==
    ASSUME NEW acc, IsEntry(acc), NEW f, Supported(f)
    PROVE  LET new == Add(acc, f)
           IN  /\ IsEntry(new)
               /\ \A p \in DOMAIN Says(f) : p \in PlacesOf(new) /\ At(new, p) = Says(f)[p]
               /\ \A p \in PlacesOf(acc) \ DOMAIN Says(f) :
                     p \in PlacesOf(new) /\ (p # <<"labels", "">> => At(new, p) = At(acc, p))
               /\ PlacesOf(new) \subseteq PlacesOf(acc) \cup DOMAIN Says(f) \cup {<<"labels", "">>}
<1> DEFINE new == Add(acc, f)
<1>1. AddParts(acc, f, new)
  BY AddsParts
<1> HIDE DEF new
<1>2. /\ LabelKeys \cap PayloadKeys = {} /\ "payload" \in CoreKeys /\ "labels" \in CoreKeys
      /\ "payload" \notin Singles /\ "labels" \notin Singles
  BY DEF PayloadKeys, CoreKeys, Singles
<1>3. \A k, v : /\ \A x : x \in DOMAIN Only(k, v) <=> x = k
                /\ Only(k, v)[k] = v
  BY DEF Only
<1>a. f.key = "payload" => ~Silent(f)
  BY DEF Silent
<1>b. \A x, y, u, v : <<x, u>> = <<y, v>> <=> x = y /\ u = v
  OBVIOUS
<1>4. ASSUME NEW k
      PROVE  LET p == <<"entry", k>>
             IN  /\ p \in DOMAIN Says(f) => p \in PlacesOf(new) /\ At(new, p) = Says(f)[p]
                 /\ p \in PlacesOf(acc) \ DOMAIN Says(f) =>
                       p \in PlacesOf(new) /\ At(new, p) = At(acc, p)
                 /\ p \in PlacesOf(new) => p \in PlacesOf(acc) \cup DOMAIN Says(f)
  <2> DEFINE p == <<"entry", k>>
  <2>1. p \in DOMAIN Says(f) <=> k = f.key /\ k \in Singles /\ ~Silent(f)
    BY SaysWhere
  <2>2. p \in DOMAIN Says(f) => Says(f)[p] = IF f.key = "error" THEN Sprint(f) ELSE Text(f)
    BY <2>1, SaysWhere
  <2>3. /\ p \in PlacesOf(new) <=> k \in Singles
        /\ p \in PlacesOf(acc) <=> k \in Singles
        /\ At(new, p) = new[k] /\ At(acc, p) = acc[k]
    BY DEF PlacesOf, At
  <2> HIDE DEF p
  <2>4. /\ p \in DOMAIN Says(f) => p \in PlacesOf(new) /\ At(new, p) = Says(f)[p]
        /\ p \in PlacesOf(acc) \ DOMAIN Says(f) =>
              p \in PlacesOf(new) /\ At(new, p) = At(acc, p)
        /\ p \in PlacesOf(new) => p \in PlacesOf(acc) \cup DOMAIN Says(f)
    BY <1>1, <2>1, <2>2, <2>3 DEF AddParts
  <2> QED
    BY <2>4 DEF p
<1>5. ASSUME NEW k
      PROVE  LET p == <<"payload", k>>
             IN  /\ p \in DOMAIN Says(f) => p \in PlacesOf(new) /\ At(new, p) = Says(f)[p]
                 /\ p \in PlacesOf(acc) \ DOMAIN Says(f) =>
                       p \in PlacesOf(new) /\ At(new, p) = At(acc, p)
                 /\ p \in PlacesOf(new) => p \in PlacesOf(acc) \cup DOMAIN Says(f)
  <2> DEFINE p == <<"payload", k>>
  <2>1. p \in DOMAIN Says(f) <=> f.key = "payload" /\ k \in DOMAIN f.val
    BY SaysWhere
  <2>2. p \in DOMAIN Says(f) => Says(f)[p] = f.val[k]
    BY <2>1, SaysWhere, <1>a
  <2>3. /\ p \in PlacesOf(new) <=> k \in DOMAIN new.payload
        /\ p \in PlacesOf(acc) <=> k \in DOMAIN acc.payload
        /\ At(new, p) = new.payload[k] /\ At(acc, p) = acc.payload[k]
    BY DEF PlacesOf, At
  <2> HIDE DEF p
  <2>4. /\ p \in DOMAIN Says(f) => p \in PlacesOf(new) /\ At(new, p) = Says(f)[p]
        /\ p \in PlacesOf(acc) \ DOMAIN Says(f) =>
              p \in PlacesOf(new) /\ At(new, p) = At(acc, p)
        /\ p \in PlacesOf(new) => p \in PlacesOf(acc) \cup DOMAIN Says(f)
    <3>1. new.payload = IF f.key = "payload" THEN Over(f.val, acc.payload) ELSE acc.payload
      BY <1>1 DEF AddParts
    <3> QED
      BY <2>1, <2>2, <2>3, <3>1, OverAt
  <2> QED
    BY <2>4 DEF p
<1>6. ASSUME NEW k
      PROVE  LET p == <<"labels", k>>
             IN  /\ p \in DOMAIN Says(f) => p \in PlacesOf(new) /\ At(new, p) = Says(f)[p]
                 /\ p \in PlacesOf(acc) \ DOMAIN Says(f) =>
                       p \in PlacesOf(new) /\ (k # "" => At(new, p) = At(acc, p))
                 /\ p \in PlacesOf(new) => p \in PlacesOf(acc) \cup DOMAIN Says(f) \/ k = ""
  <2> DEFINE p == <<"labels", k>>
  <2>1. p \in DOMAIN Says(f) <=>
          \/ f.key = "labels" /\ ~Silent(f) /\ k \in DOMAIN f.val /\ k # ""
          \/ k = f.key /\ f.key \in LabelKeys \ CoreKeys
    <3>1. \A l : <<"labels", l>> \in DOMAIN Says(f) <=>
                    \/ f.key = "labels" /\ ~Silent(f) /\ l \in DOMAIN f.val /\ l # ""
                    \/ l = f.key /\ f.key \in LabelKeys \ CoreKeys
      BY SaysWhere
    <3> QED
      BY <3>1
  <2>2. p \in DOMAIN Says(f) => Says(f)[p] = IF f.key = "labels" THEN f.val[k] ELSE Sprint(f)
    BY <2>1, SaysWhere, <1>2
  <2>3. /\ p \in PlacesOf(new) <=> k \in DOMAIN new.labels
        /\ p \in PlacesOf(acc) <=> k \in DOMAIN acc.labels
        /\ At(new, p) = new.labels[k] /\ At(acc, p) = acc.labels[k]
    BY DEF PlacesOf, At
  <2> HIDE DEF p
  <2>4. /\ p \in DOMAIN Says(f) => p \in PlacesOf(new) /\ At(new, p) = Says(f)[p]
        /\ p \in PlacesOf(acc) \ DOMAIN Says(f) =>
              p \in PlacesOf(new) /\ (k # "" => At(new, p) = At(acc, p))
        /\ p \in PlacesOf(new) => p \in PlacesOf(acc) \cup DOMAIN Says(f) \/ k = ""
    <3>1. new.labels = IF f.key = "labels" /\ ~Silent(f) THEN Over(f.val, acc.labels)
                       ELSE IF f.key \in LabelKeys \ CoreKeys
                       THEN Over(Only(f.key, Sprint(f)), acc.labels) ELSE acc.labels
      BY <1>1 DEF AddParts
    <3>2. CASE f.key = "labels" /\ ~Silent(f)
      <4>1. new.labels = Over(f.val, acc.labels) /\ f.key \notin LabelKeys \ CoreKeys
        BY <1>2, <3>1, <3>2
      <4>2. /\ k \in DOMAIN new.labels <=> k \in DOMAIN f.val \/ k \in DOMAIN acc.labels
            /\ k \in DOMAIN f.val => new.labels[k] = f.val[k]
            /\ k \in DOMAIN acc.labels \ DOMAIN f.val => new.labels[k] = acc.labels[k]
        BY <4>1, OverAt
      <4>3. ASSUME p \in DOMAIN Says(f) PROVE p \in PlacesOf(new) /\ At(new, p) = Says(f)[p]
        BY <2>1, <2>2, <2>3, <3>2, <4>1, <4>2, <4>3
      <4>4. ASSUME p \in PlacesOf(acc) \ DOMAIN Says(f)
            PROVE  p \in PlacesOf(new) /\ (k # "" => At(new, p) = At(acc, p))
        BY <2>1, <2>3, <3>2, <4>1, <4>2, <4>4
      <4>5. ASSUME p \in PlacesOf(new)
            PROVE  p \in PlacesOf(acc) \cup DOMAIN Says(f) \/ k = ""
        BY <2>1, <2>3, <3>2, <4>1, <4>2, <4>5
      <4> QED
        BY <4>3, <4>4, <4>5
    <3>3. CASE f.key \in LabelKeys \ CoreKeys
      <4>1. new.labels = Over(Only(f.key, Sprint(f)), acc.labels) /\ f.key # "labels"
        BY <1>2, <3>1, <3>3
      <4>2. /\ k \in DOMAIN new.labels <=> k = f.key \/ k \in DOMAIN acc.labels
            /\ k = f.key => new.labels[k] = Sprint(f)
            /\ k \in DOMAIN acc.labels /\ k # f.key => new.labels[k] = acc.labels[k]
        BY <1>3, <4>1, OverAt
      <4> QED
        BY <2>1, <2>2, <2>3, <3>3, <4>1, <4>2
    <3>4. CASE ~(f.key = "labels" /\ ~Silent(f)) /\ f.key \notin LabelKeys \ CoreKeys
      BY <2>1, <2>2, <2>3, <3>1, <3>4
    <3> QED
      BY <3>2, <3>3, <3>4
  <2> QED
    BY <2>4 DEF p
<1>7. ASSUME NEW k
      PROVE  LET p == <<"extra", k>>
             IN  /\ p \in DOMAIN Says(f) => p \in PlacesOf(new) /\ At(new, p) = Says(f)[p]
                 /\ p \in PlacesOf(acc) \ DOMAIN Says(f) =>
                       p \in PlacesOf(new) /\ At(new, p) = At(acc, p)
                 /\ p \in PlacesOf(new) => p \in PlacesOf(acc) \cup DOMAIN Says(f)
  <2> DEFINE p == <<"extra", k>>
  <2>1. p \in DOMAIN Says(f) <=> k = f.key /\ f.key \in PayloadKeys \ CoreKeys
    BY SaysWhere
  <2>2. p \in DOMAIN Says(f) => Says(f)[p] = f.val
    BY <2>1, SaysWhere, <1>2
  <2>3. /\ p \in PlacesOf(new) <=> k \in DOMAIN new.extra
        /\ p \in PlacesOf(acc) <=> k \in DOMAIN acc.extra
        /\ At(new, p) = new.extra[k] /\ At(acc, p) = acc.extra[k]
    BY DEF PlacesOf, At
  <2> HIDE DEF p
  <2>4. /\ p \in DOMAIN Says(f) => p \in PlacesOf(new) /\ At(new, p) = Says(f)[p]
        /\ p \in PlacesOf(acc) \ DOMAIN Says(f) =>
              p \in PlacesOf(new) /\ At(new, p) = At(acc, p)
        /\ p \in PlacesOf(new) => p \in PlacesOf(acc) \cup DOMAIN Says(f)
    <3>1. new.extra = IF f.key \in PayloadKeys \ CoreKeys
                      THEN Over(Only(f.key, f.val), acc.extra) ELSE acc.extra
      BY <1>1 DEF AddParts
    <3>2. CASE f.key \in PayloadKeys \ CoreKeys
      BY <1>3, <2>1, <2>2, <2>3, <3>1, <3>2, OverAt
    <3>3. CASE f.key \notin PayloadKeys \ CoreKeys
      BY <2>1, <2>2, <2>3, <3>1, <3>3
    <3> QED
      BY <3>2, <3>3
  <2> QED
    BY <2>4 DEF p
<1>8. IsEntry(new)
  BY <1>1 DEF AddParts
<1>9. ASSUME NEW p \in DOMAIN Says(f) PROVE p \in PlacesOf(new) /\ At(new, p) = Says(f)[p]
  <2>1. PICK k : p \in {<<"entry", k>>, <<"payload", k>>, <<"labels", k>>, <<"extra", k>>}
    BY SaysWhere
  <2> QED
    BY <1>4, <1>5, <1>6, <1>7, <2>1
<1>10. ASSUME NEW p \in PlacesOf(acc) \ DOMAIN Says(f)
       PROVE  p \in PlacesOf(new) /\ (p # <<"labels", "">> => At(new, p) = At(acc, p))
  <2>1. PICK k : p \in {<<"entry", k>>, <<"payload", k>>, <<"labels", k>>, <<"extra", k>>}
    BY PlacesWhere
  <2> QED
    BY <1>4, <1>5, <1>6, <1>7, <2>1
<1>11. ASSUME NEW p \in PlacesOf(new)
       PROVE  p \in PlacesOf(acc) \cup DOMAIN Says(f) \cup {<<"labels", "">>}
  <2>1. PICK k : p \in {<<"entry", k>>, <<"payload", k>>, <<"labels", k>>, <<"extra", k>>}
    BY PlacesWhere
  <2> QED
    BY <1>4, <1>5, <1>6, <1>7, <2>1
<1> QED
  BY <1>8, <1>9, <1>10, <1>11 DEF new

-----------------------------------------------------------------------------
(* The loop.                                                                *)

\* A set of numbers that holds 0 and with n also n + 1 holds every number.
LEMMA Induction ==
    ASSUME NEW T \in SUBSET Nat, 0 \in T, \A n \in T : n + 1 \in T
    PROVE  T = Nat
<1> DEFINE less == {ss \in Nat \X Nat : ss[1] < ss[2]}
<1>1. IsWellFoundedOn(less, Nat)
  BY NatLessThanWellFounded DEF OpToRel
<1>2. SUFFICES ASSUME Nat \ T # {} PROVE FALSE
  OBVIOUS
<1> HIDE DEF less
<1>3. PICK m \in Nat \ T : \A n \in Nat \ T : <<n, m>> \notin less
  BY <1>1, <1>2, WFMin
<1>4. m - 1 \in Nat /\ m - 1 < m /\ (m - 1) + 1 = m
  OBVIOUS
<1>5. m - 1 \in T
  BY <1>3, <1>4 DEF less
<1> QED
  BY <1>4, <1>5

\* The entry after each of the first n fields.
Turns(s, n, acc) ==
    acc = [i \in 0..n |-> IF i = 0 THEN Blank ELSE Add(acc[i - 1], s[i])]

LEMMA FoldUnfolds ==
    ASSUME NEW s, Len(s) \in Nat
    PROVE  \E acc : Turns(s, Len(s), acc) /\ Fold(s) = acc[Len(s)]
<1> DEFINE T == {n \in Nat : \E acc : Turns(s, n, acc)}
<1>1. 0 \in T
  <2>1. Turns(s, 0, [i \in 0..0 |-> Blank])
    BY DEF Turns
  <2> QED
    BY <2>1
<1>2. ASSUME NEW n \in T PROVE n + 1 \in T
  <2>1. PICK acc : Turns(s, n, acc)
    OBVIOUS
  <2> DEFINE more == [i \in 0..(n + 1) |-> IF i = n + 1 THEN Add(acc[n], s[n + 1]) ELSE acc[i]]
  <2>2. ASSUME NEW i \in 0..(n + 1)
        PROVE  more[i] = IF i = 0 THEN Blank ELSE Add(more[i - 1], s[i])
    <3>1. CASE i = 0
      BY <2>1, <3>1 DEF Turns
    <3>2. CASE i = n + 1
      <4>1. n \in 0..(n + 1) /\ n # n + 1 /\ i # 0 /\ i - 1 = n
        BY <3>2
      <4>2. more[n] = acc[n]
        BY <4>1
      <4> QED
        BY <3>2, <4>1, <4>2
    <3>3. CASE i # 0 /\ i # n + 1
      <4>1. i \in 0..n /\ i - 1 \in 0..(n + 1) /\ i - 1 # n + 1
        BY <3>3
      <4>2. acc[i] = Add(acc[i - 1], s[i])
        BY <2>1, <3>3, <4>1 DEF Turns
      <4>3. more[i] = acc[i] /\ more[i - 1] = acc[i - 1]
        BY <3>3, <4>1
      <4> QED
        BY <3>3, <4>2, <4>3
    <3> QED
      BY <3>1, <3>2, <3>3
  <2>3. Turns(s, n + 1, more)
    <3>1. more = [i \in 0..(n + 1) |-> more[i]]
      OBVIOUS
    <3> HIDE DEF more
    <3>2. [i \in 0..(n + 1) |-> more[i]]
            = [i \in 0..(n + 1) |-> IF i = 0 THEN Blank ELSE Add(more[i - 1], s[i])]
      BY <2>2
    <3> QED
      BY <3>1, <3>2 DEF Turns
  <2> QED
    BY <2>3
<1>3. T = Nat
  <2> HIDE DEF T
  <2>1. T \in SUBSET Nat
    BY DEF T
  <2> QED
    BY <1>1, <1>2, <2>1, Induction
<1> DEFINE fold == CHOOSE acc : acc = [i \in 0..Len(s) |-> IF i = 0 THEN Blank
                                                            ELSE Add(acc[i - 1], s[i])]
<1>4. \E acc : acc = [i \in 0..Len(s) |-> IF i = 0 THEN Blank ELSE Add(acc[i - 1], s[i])]
  BY <1>3 DEF Turns
<1>5. fold = [i \in 0..Len(s) |-> IF i = 0 THEN Blank ELSE Add(fold[i - 1], s[i])]
  BY <1>4
<1>6. Fold(s) = fold[Len(s)]
  BY DEF Fold
<1> HIDE DEF fold
<1> QED
  BY <1>5, <1>6 DEF Turns

\* The last of the first n fields that speaks of p.
LastOf(s, n, p, l) ==
    /\ l \in 1..n /\ p \in DOMAIN Says(s[l])
    /\ \A j \in 1..n : p \in DOMAIN Says(s[j]) => j <= l

\* The entry holds what the first n fields said.
Heard(e, s, n) ==
    /\ IsEntry(e)
    /\ \A i \in 1..n : \A p \in DOMAIN Says(s[i]) :
          \E l \in 1..n : LastOf(s, n, p, l) /\ p \in PlacesOf(e) /\ At(e, p) = Says(s[l])[p]
    /\ \A p \in PlacesOf(e) :
          \/ \E i \in 1..n : p \in DOMAIN Says(s[i])
          \/ p = <<"labels", "">>
          \/ p[1] = "entry" /\ At(e, p) = ""

LEMMA BlankSilent ==
    ASSUME NEW p \in PlacesOf(Blank) PROVE p[1] = "entry" /\ At(Blank, p) = ""
<1>1. \A k : /\ <<"payload", k>> \notin PlacesOf(Blank)
             /\ <<"labels", k>> \notin PlacesOf(Blank)
             /\ <<"extra", k>> \notin PlacesOf(Blank)
  BY DEF PlacesOf, Blank, Nothing
<1>2. PICK k : p = <<"entry", k>>
  <2>1. PICK k : p \in {<<"entry", k>>, <<"payload", k>>, <<"labels", k>>, <<"extra", k>>}
    BY PlacesWhere
  <2> QED
    BY <1>1, <2>1
<1>3. k \in {"msg", "trace_id", "span_id", "caller", "http_request", "error"}
  BY <1>2, PlacesWhere DEF Singles, CoreKeys
<1>4. Blank[k] = ""
  <2>1. /\ Blank["msg"] = "" /\ Blank["trace_id"] = "" /\ Blank["span_id"] = ""
        /\ Blank["caller"] = "" /\ Blank["http_request"] = "" /\ Blank["error"] = ""
    BY DEF Blank
  <2> QED
    BY <1>3, <2>1
<1> QED
  BY <1>2, <1>4 DEF At

LEMMA BlankHeard == ASSUME NEW s PROVE Heard(Blank, s, 0)
<1>1. IsEntry(Blank)
  BY DEF IsEntry, Blank
<1>2. 1..0 = {}
  OBVIOUS
<1> QED
  BY <1>1, <1>2, BlankSilent DEF Heard

LEMMA NextHeard ==
    ASSUME NEW s, NEW n \in Nat, NEW e, Heard(e, s, n),
           \A i \in 1..(n + 1) : Supported(s[i])
    PROVE  Heard(Add(e, s[n + 1]), s, n + 1)
<1> DEFINE f == s[n + 1]
           new == Add(e, f)
<1>1. IsEntry(e) /\ Supported(f)
  <2>1. n + 1 \in 1..(n + 1)
    OBVIOUS
  <2> QED
    BY <2>1 DEF Heard
<1>2. /\ IsEntry(new)
      /\ \A p \in DOMAIN Says(f) : p \in PlacesOf(new) /\ At(new, p) = Says(f)[p]
      /\ \A p \in PlacesOf(e) \ DOMAIN Says(f) :
            p \in PlacesOf(new) /\ (p # <<"labels", "">> => At(new, p) = At(e, p))
      /\ PlacesOf(new) \subseteq PlacesOf(e) \cup DOMAIN Says(f) \cup {<<"labels", "">>}
  BY <1>1, AddSays
<1> HIDE DEF new
<1>3. \A i \in 1..n : s[i] = s[i] /\ i \in 1..(n + 1) /\ n + 1 \in 1..(n + 1)
  OBVIOUS
<1>4. ASSUME NEW p \in DOMAIN Says(f)
      PROVE  \E l \in 1..(n + 1) : LastOf(s, n + 1, p, l) /\ p \in PlacesOf(new)
                                     /\ At(new, p) = Says(s[l])[p]
  <2>1. LastOf(s, n + 1, p, n + 1)
    BY DEF LastOf
  <2>2. n + 1 \in 1..(n + 1)
    OBVIOUS
  <2> QED
    BY <1>2, <2>1, <2>2
<1>5. ASSUME NEW i \in 1..n, NEW p \in DOMAIN Says(s[i]), p \notin DOMAIN Says(f)
      PROVE  \E l \in 1..(n + 1) : LastOf(s, n + 1, p, l) /\ p \in PlacesOf(new)
                                     /\ At(new, p) = Says(s[l])[p]
  <2>1. PICK l \in 1..n : LastOf(s, n, p, l) /\ p \in PlacesOf(e) /\ At(e, p) = Says(s[l])[p]
    BY DEF Heard
  <2>2. l \in 1..(n + 1) /\ \A j \in 1..(n + 1) : j \in 1..n \/ j = n + 1
    OBVIOUS
  <2>3. LastOf(s, n + 1, p, l)
    BY <1>5, <2>1, <2>2 DEF LastOf
  <2>4. p # <<"labels", "">>
    BY <1>3, UnnamedUnsaid
  <2> QED
    BY <1>2, <1>5, <2>1, <2>2, <2>3, <2>4
<1>6. ASSUME NEW p \in PlacesOf(new)
      PROVE  \/ \E i \in 1..(n + 1) : p \in DOMAIN Says(s[i])
             \/ p = <<"labels", "">>
             \/ p[1] = "entry" /\ At(new, p) = ""
  <2>1. n + 1 \in 1..(n + 1)
    OBVIOUS
  <2>2. CASE p \in DOMAIN Says(f) \/ p = <<"labels", "">>
    BY <2>1, <2>2
  <2>3. CASE p \notin DOMAIN Says(f) /\ p # <<"labels", "">>
    <3>1. p \in PlacesOf(e) /\ At(new, p) = At(e, p)
      BY <1>2, <2>3
    <3>2. \/ \E i \in 1..n : p \in DOMAIN Says(s[i])
          \/ p[1] = "entry" /\ At(e, p) = ""
      BY <2>3, <3>1 DEF Heard
    <3> QED
      BY <1>3, <3>1, <3>2
  <2> QED
    BY <2>2, <2>3
<1>7. \A i \in 1..(n + 1) : i \in 1..n \/ i = n + 1
  OBVIOUS
<1>8. \A i \in 1..(n + 1) : \A p \in DOMAIN Says(s[i]) :
         \E l \in 1..(n + 1) : LastOf(s, n + 1, p, l) /\ p \in PlacesOf(new)
                                 /\ At(new, p) = Says(s[l])[p]
  BY <1>4, <1>5, <1>7
<1> QED
  BY <1>2, <1>6, <1>8 DEF Heard, new

LEMMA FoldHeard ==
    ASSUME NEW s, Len(s) \in Nat, \A i \in 1..Len(s) : Supported(s[i])
    PROVE  Heard(Fold(s), s, Len(s))
<1>1. PICK acc : Turns(s, Len(s), acc) /\ Fold(s) = acc[Len(s)]
  BY FoldUnfolds
<1> DEFINE T == {n \in Nat : n <= Len(s) => Heard(acc[n], s, n)}
<1>2. 0 \in T
  <2>1. 0 \in 0..Len(s)
    OBVIOUS
  <2>2. acc[0] = Blank
    BY <1>1, <2>1 DEF Turns
  <2> QED
    BY <2>2, BlankHeard
<1>3. ASSUME NEW n \in T PROVE n + 1 \in T
  <2>1. SUFFICES ASSUME n + 1 <= Len(s) PROVE Heard(acc[n + 1], s, n + 1)
    OBVIOUS
  <2>2. n + 1 \in 0..Len(s) /\ n + 1 # 0 /\ (n + 1) - 1 = n /\ n <= Len(s) /\ n + 1 \in 1..Len(s)
    BY <2>1
  <2>3. acc[n + 1] = Add(acc[n], s[n + 1])
    BY <1>1, <2>2 DEF Turns
  <2>4. Heard(acc[n], s, n)
    BY <2>2
  <2>5. \A i \in 1..(n + 1) : Supported(s[i])
    <3>1. \A i \in 1..(n + 1) : i \in 1..Len(s)
      BY <2>1
    <3> QED
      BY <3>1
  <2> QED
    BY <2>2, <2>3, <2>4, <2>5, NextHeard
<1>4. T = Nat
  <2> HIDE DEF T
  <2>1. T \in SUBSET Nat
    BY DEF T
  <2> QED
    BY <1>2, <1>3, <2>1, Induction
<1> QED
  BY <1>1, <1>4

-----------------------------------------------------------------------------
(* The labels, and the entry that is written.                               *)

\* A label nobody gave, in an entry with this caller.
InheritedFrom(caller, k) ==
    IF k = "caller" /\ caller # "" THEN caller
    ELSE IF k = "instance_id" /\ InstanceID # "" THEN InstanceID
    ELSE StaticLabels[k]

LEMMA ComposedLabels ==
    ASSUME NEW acc
    PROVE  LET labels == ComposeLabels(acc)
           IN  /\ \A k \in DOMAIN acc.labels \ {""} :
                     k \in DOMAIN labels /\ labels[k] = acc.labels[k]
               /\ \A k \in DOMAIN labels : k \notin DOMAIN acc.labels \ {""} =>
                     labels[k] = InheritedFrom(acc.caller, k)
               /\ DOMAIN StaticLabels \subseteq DOMAIN labels
<1> DEFINE named    == [k \in DOMAIN acc.labels \ {""} |-> acc.labels[k]]
           caller   == IF acc.caller # "" THEN Only("caller", acc.caller) ELSE Nothing
           instance == IF InstanceID # "" THEN Only("instance_id", InstanceID) ELSE Nothing
           rest     == Over(caller, Over(instance, StaticLabels))
<1>1. ComposeLabels(acc) = Over(named, rest)
  BY DEF ComposeLabels
<1>2. /\ DOMAIN named = DOMAIN acc.labels \ {""}
      /\ \A k \in DOMAIN acc.labels \ {""} : named[k] = acc.labels[k]
  OBVIOUS
<1>3. /\ \A k : k \in DOMAIN caller <=> k = "caller" /\ acc.caller # ""
      /\ acc.caller # "" => caller["caller"] = acc.caller
  BY DEF Only, Nothing
<1>4. /\ \A k : k \in DOMAIN instance <=> k = "instance_id" /\ InstanceID # ""
      /\ InstanceID # "" => instance["instance_id"] = InstanceID
  BY DEF Only, Nothing
<1> HIDE DEF named, caller, instance
<1>5. ASSUME NEW k \in DOMAIN rest PROVE rest[k] = InheritedFrom(acc.caller, k)
  <2>1. /\ k \in DOMAIN caller \/ k \in DOMAIN instance \/ k \in DOMAIN StaticLabels
        /\ k \in DOMAIN caller => rest[k] = caller[k]
        /\ k \notin DOMAIN caller => rest[k] = Over(instance, StaticLabels)[k]
    BY OverAt
  <2>2. /\ k \in DOMAIN instance => Over(instance, StaticLabels)[k] = instance[k]
        /\ k \notin DOMAIN instance /\ k \in DOMAIN StaticLabels =>
              Over(instance, StaticLabels)[k] = StaticLabels[k]
    BY OverAt
  <2> HIDE DEF rest
  <2> QED
    BY <1>3, <1>4, <2>1, <2>2 DEF InheritedFrom
<1>6. DOMAIN StaticLabels \subseteq DOMAIN rest
  BY OverAt
<1> HIDE DEF rest
<1> DEFINE labels == ComposeLabels(acc)
<1>7. \A k : /\ k \in DOMAIN labels <=> k \in DOMAIN named \/ k \in DOMAIN rest
             /\ k \in DOMAIN named => labels[k] = named[k]
             /\ k \in DOMAIN rest \ DOMAIN named => labels[k] = rest[k]
  BY <1>1, OverAt
<1> HIDE DEF labels
<1> QED
  BY <1>2, <1>5, <1>6, <1>7 DEF labels

LEMMA WriteHeard ==
    ASSUME NEW s, Len(s) \in Nat, \A i \in 1..Len(s) : Supported(s[i])
    PROVE  LET e == Write(s)
           IN  /\ e # Refused
               /\ \A i \in 1..Len(s) : \A p \in DOMAIN Says(s[i]) :
                     \E l \in 1..Len(s) : LastOf(s, Len(s), p, l) /\ p \in PlacesOf(e)
                                            /\ At(e, p) = Says(s[l])[p]
               /\ \A p \in PlacesOf(e) :
                     \/ \E i \in 1..Len(s) : p \in DOMAIN Says(s[i])
                     \/ p[1] = "entry" /\ At(e, p) = ""
                     \/ p[1] = "labels" /\ At(e, p) = InheritedFrom(e.caller, p[2])
               /\ DOMAIN StaticLabels \subseteq DOMAIN e.labels
<1> DEFINE acc == Fold(s)
           labels == ComposeLabels(acc)
           e == Write(s)
<1>1. Heard(acc, s, Len(s))
  BY FoldHeard
<1>2. e = [acc EXCEPT !.labels = labels]
  BY DEF Write
<1>3. /\ \A k \in DOMAIN acc.labels \ {""} : k \in DOMAIN labels /\ labels[k] = acc.labels[k]
      /\ \A k \in DOMAIN labels : k \notin DOMAIN acc.labels \ {""} =>
            labels[k] = InheritedFrom(acc.caller, k)
      /\ DOMAIN StaticLabels \subseteq DOMAIN labels
  BY ComposedLabels
<1> HIDE DEF acc, labels, e
<1>4. /\ \A k \in Singles : e[k] = acc[k]
      /\ e.caller = acc.caller /\ e.payload = acc.payload /\ e.extra = acc.extra
      /\ e.labels = labels
      /\ e # Refused
  <2>1. IsEntry(acc)
    BY <1>1 DEF Heard
  <2>2. e = [msg |-> acc.msg, trace_id |-> acc.trace_id, span_id |-> acc.span_id,
             caller |-> acc.caller, payload |-> acc.payload, labels |-> labels,
             http_request |-> acc.http_request, error |-> acc.error, extra |-> acc.extra]
    BY <1>2, <2>1 DEF IsEntry
  <2>3. "msg" \in DOMAIN e /\ "msg" \notin DOMAIN Refused
    BY <2>2 DEF Refused
  <2>4. e # Refused
    BY <2>3
  <2>5. \A k \in Singles : e[k] = acc[k]
    BY <2>2 DEF Singles, CoreKeys
  <2> QED
    BY <2>2, <2>4, <2>5
<1>5. ASSUME NEW p \in PlacesOf(acc), p # <<"labels", "">>
      PROVE  p \in PlacesOf(e) /\ At(e, p) = At(acc, p)
  <2>1. PICK k : p \in {<<"entry", k>>, <<"payload", k>>, <<"labels", k>>, <<"extra", k>>}
    BY PlacesWhere
  <2>2. CASE p = <<"entry", k>>
    BY <1>4, <2>2 DEF PlacesOf, At
  <2>3. CASE p = <<"payload", k>>
    BY <1>4, <2>3 DEF PlacesOf, At
  <2>4. CASE p = <<"extra", k>>
    BY <1>4, <2>4 DEF PlacesOf, At
  <2>5. CASE p = <<"labels", k>>
    BY <1>3, <1>4, <1>5, <2>5 DEF PlacesOf, At
  <2> QED
    BY <2>1, <2>2, <2>3, <2>4, <2>5
<1>6. ASSUME NEW p \in PlacesOf(e)
      PROVE  \/ p \in PlacesOf(acc) /\ p # <<"labels", "">>
             \/ p[1] = "labels" /\ At(e, p) = InheritedFrom(e.caller, p[2])
  <2>1. PICK k : p \in {<<"entry", k>>, <<"payload", k>>, <<"labels", k>>, <<"extra", k>>}
    BY PlacesWhere
  <2>2. CASE p = <<"entry", k>>
    BY <1>4, <2>2 DEF PlacesOf, At
  <2>3. CASE p = <<"payload", k>>
    BY <1>4, <2>3 DEF PlacesOf, At
  <2>4. CASE p = <<"extra", k>>
    BY <1>4, <2>4 DEF PlacesOf, At
  <2>5. CASE p = <<"labels", k>>
    <3>1. k \in DOMAIN labels /\ At(e, p) = labels[k]
      BY <1>4, <2>5 DEF PlacesOf, At
    <3>2. k \in DOMAIN acc.labels \ {""} => p \in PlacesOf(acc) /\ p # <<"labels", "">>
      BY <2>5 DEF PlacesOf
    <3> QED
      BY <1>3, <1>4, <2>5, <3>1, <3>2
  <2> QED
    BY <2>1, <2>2, <2>3, <2>4, <2>5
<1>7. ASSUME NEW i \in 1..Len(s), NEW p \in DOMAIN Says(s[i])
      PROVE  \E l \in 1..Len(s) : LastOf(s, Len(s), p, l) /\ p \in PlacesOf(e)
                                    /\ At(e, p) = Says(s[l])[p]
  <2>1. PICK l \in 1..Len(s) : LastOf(s, Len(s), p, l) /\ p \in PlacesOf(acc)
                                 /\ At(acc, p) = Says(s[l])[p]
    BY <1>1 DEF Heard
  <2>2. p # <<"labels", "">>
    BY UnnamedUnsaid
  <2> QED
    BY <1>5, <2>1, <2>2
<1>8. ASSUME NEW p \in PlacesOf(e)
      PROVE  \/ \E i \in 1..Len(s) : p \in DOMAIN Says(s[i])
             \/ p[1] = "entry" /\ At(e, p) = ""
             \/ p[1] = "labels" /\ At(e, p) = InheritedFrom(e.caller, p[2])
  <2>1. CASE p \in PlacesOf(acc) /\ p # <<"labels", "">>
    BY <1>1, <1>5, <2>1 DEF Heard
  <2> QED
    BY <1>6, <2>1
<1>9. DOMAIN StaticLabels \subseteq DOMAIN e.labels
  BY <1>3, <1>4
<1> QED
  BY <1>4, <1>7, <1>8, <1>9 DEF e

-----------------------------------------------------------------------------
(* The logger.                                                              *)

\* Every field that is ever given.
FieldsOf(s) == {s[i] : i \in DOMAIN s}

TraceIDs    == {Field("trace_id", Scalar(t)) : t \in {"", "t1"}}
SpanIDs     == {Field("span_id", Scalar(t)) : t \in {"", "t1"}}

HelperFields == UNION {FieldsOf(s) : s \in Attachments \cup Calls}

Fields == HelperFields \cup TraceIDs \cup SpanIDs

\* The last entry is the one of the last call.
LogInv ==
    /\ prefix \in Seq(Fields) /\ ctx \in {"", "t1"} /\ given \in Seq(Fields)
    /\ IF given = <<>> THEN entry = Blank
       ELSE entry = IF \A i \in DOMAIN given : Supported(given[i])
                    THEN Write(given) ELSE Refused

LEMMA PairSeq == ASSUME NEW S, NEW u \in S, NEW v \in S PROVE <<u, v>> \in Seq(S)
  OBVIOUS

LEMMA TraceFields ==
    ASSUME NEW t \in {"", "t1"}
    PROVE  Field("trace_id", Scalar(t)) \in Fields /\ Field("span_id", Scalar(t)) \in Fields
<1>1. Field("trace_id", Scalar(t)) \in TraceIDs
  BY DEF TraceIDs
<1>2. Field("span_id", Scalar(t)) \in SpanIDs
  BY DEF SpanIDs
<1> QED
  BY <1>1, <1>2 DEF Fields

LEMMA LogInvInit == LogInit => LogInv
  BY EmptySeq DEF LogInit, LogInv

LEMMA LogInvNext == LogInv /\ [LogNext]_logVars => LogInv'
<1> SUFFICES ASSUME LogInv, [LogNext]_logVars PROVE LogInv'
  OBVIOUS
<1>1. ASSUME NEW s \in Attachments \cup Calls PROVE s \in Seq(Fields)
  <2>1. s \in Seq(FieldsOf(s))
    BY LogAssumption DEF FieldsOf
  <2>2. FieldsOf(s) \subseteq Fields
    BY DEF Fields, HelperFields
  <2> QED
    BY <2>1, <2>2, SeqMonotonic
<1>2. ASSUME NEW t \in {"", "t1"}
      PROVE  <<Field("trace_id", Scalar(t)), Field("span_id", Scalar(t))>> \in Seq(Fields)
  BY TraceFields, PairSeq
<1>3. ASSUME NEW fields \in Attachments, Attach(fields) PROVE LogInv'
  <2>1. prefix \o fields \in Seq(Fields)
    BY <1>1, ConcatProperties DEF LogInv
  <2> QED
    BY <1>3, <2>1 DEF Attach, LogInv
<1>4. ASSUME NEW t \in {"", "t1"}, WithTrace(t) PROVE LogInv'
  <2>1. prefix' \in Seq(Fields)
    <3> DEFINE more == IF t = "" THEN <<>>
                       ELSE <<Field("trace_id", Scalar(t)), Field("span_id", Scalar(t))>>
    <3>1. more \in Seq(Fields)
      BY <1>2, EmptySeq
    <3>2. prefix' = prefix \o more
      BY <1>4 DEF WithTrace
    <3> HIDE DEF more
    <3> QED
      BY <3>1, <3>2, ConcatProperties DEF LogInv
  <2> QED
    BY <1>4, <2>1 DEF WithTrace, LogInv
<1>5. ASSUME NEW call \in Calls, Log(call) PROVE LogInv'
  <2>1. Valued \in Seq(Fields) /\ Len(Valued) = 2
    BY <1>2 DEF Valued, LogInv
  <2>2. /\ Valued \o prefix \o call \in Seq(Fields)
        /\ Len(Valued \o prefix \o call) = 2 + Len(prefix) + Len(call)
        /\ Len(prefix) \in Nat /\ Len(call) \in Nat
    <3>1. /\ Valued \o prefix \in Seq(Fields)
          /\ Len(Valued \o prefix) = Len(Valued) + Len(prefix)
      BY <2>1, ConcatProperties DEF LogInv
    <3>2. call \in Seq(Fields)
      BY <1>1
    <3>3. /\ Valued \o prefix \o call \in Seq(Fields)
          /\ Len(Valued \o prefix \o call) = Len(Valued \o prefix) + Len(call)
      BY <3>1, <3>2, ConcatProperties
    <3>4. Len(prefix) \in Nat /\ Len(call) \in Nat
      BY <3>2, LenProperties DEF LogInv
    <3> QED
      BY <2>1, <3>1, <3>3, <3>4
  <2>3. given' \in Seq(Fields) /\ given' # <<>>
    BY <1>5, <2>2 DEF Log
  <2> QED
    BY <1>5, <2>3 DEF Log, LogInv
<1>6. CASE UNCHANGED logVars
  BY <1>6 DEF logVars, LogInv
<1> QED
  BY <1>3, <1>4, <1>5, <1>6 DEF LogNext

LEMMA LogInvEntry == LogInv => LogMatchesReference
<1> SUFFICES ASSUME LogInv PROVE LogMatchesReference
  OBVIOUS
<1>1. CASE given = <<>>
  <2>1. entry = Blank /\ DOMAIN given = {}
    <3>1. given \in Seq(Fields) /\ Len(given) = 0 /\ entry = Blank
      BY <1>1, EmptySeq DEF LogInv
    <3>2. DOMAIN given = 1..0
      BY <3>1, LenProperties
    <3> QED
      BY <3>1, <3>2
  <2>2. entry # Refused
    <3>1. "msg" \in DOMAIN Blank /\ "msg" \notin DOMAIN Refused
      BY DEF Blank, Refused
    <3> QED
      BY <2>1, <3>1
  <2>3. \A p \in PlacesOf(Blank) : p[1] = "entry" /\ At(Blank, p) = ""
    BY BlankSilent
  <2>4. Places = {}
    BY <2>1 DEF Places
  <2> QED
    BY <1>1, <2>1, <2>2, <2>3, <2>4 DEF LogMatchesReference
<1>2. CASE given # <<>> /\ ~\A i \in DOMAIN given : Supported(given[i])
  BY <1>2 DEF LogInv, LogMatchesReference
<1>3. CASE given # <<>> /\ \A i \in DOMAIN given : Supported(given[i])
  <2>1. entry = Write(given)
    BY <1>3 DEF LogInv
  <2>2. Len(given) \in Nat /\ DOMAIN given = 1..Len(given)
    BY LenProperties DEF LogInv
  <2>3. /\ entry # Refused
        /\ \A i \in 1..Len(given) : \A p \in DOMAIN Says(given[i]) :
              \E l \in 1..Len(given) : LastOf(given, Len(given), p, l) /\ p \in PlacesOf(entry)
                                     /\ At(entry, p) = Says(given[l])[p]
        /\ \A p \in PlacesOf(entry) :
              \/ \E i \in 1..Len(given) : p \in DOMAIN Says(given[i])
              \/ p[1] = "entry" /\ At(entry, p) = ""
              \/ p[1] = "labels" /\ At(entry, p) = InheritedFrom(entry.caller, p[2])
        /\ DOMAIN StaticLabels \subseteq DOMAIN entry.labels
    BY <1>3, <2>1, <2>2, WriteHeard
  <2>4. ASSUME NEW p \in Places PROVE p \in PlacesOf(entry) /\ At(entry, p) = LastWord(p)
    <3>1. PICK i \in DOMAIN given : p \in DOMAIN Says(given[i])
      BY DEF Places
    <3>2. PICK l \in 1..Len(given) : LastOf(given, Len(given), p, l) /\ p \in PlacesOf(entry)
                                   /\ At(entry, p) = Says(given[l])[p]
      BY <2>2, <2>3, <3>1
    <3> DEFINE speaking == {j \in DOMAIN given : p \in DOMAIN Says(given[j])}
    <3>3. l \in speaking /\ \A j \in speaking : j <= l
      BY <2>2, <3>2 DEF LastOf
    <3>4. \A k \in speaking : (\A j \in speaking : j <= k) => k = l
      BY <2>2, <3>3
    <3>5. (CHOOSE k \in speaking : \A j \in speaking : j <= k) = l
      <4> HIDE DEF speaking
      <4> QED
        BY <3>3, <3>4
    <3> QED
      BY <3>2, <3>5 DEF LastWord
  <2>5. ASSUME NEW p \in PlacesOf(entry) \ Places
        PROVE  \/ p[1] = "entry" /\ At(entry, p) = ""
               \/ p[1] = "labels" /\ At(entry, p) = Inherited(p[2])
    <3>1. \A i \in 1..Len(given) : p \notin DOMAIN Says(given[i])
      BY <2>2 DEF Places
    <3>2. Inherited(p[2]) = InheritedFrom(entry.caller, p[2])
      BY DEF Inherited, InheritedFrom
    <3> QED
      BY <2>3, <3>1, <3>2
  <2> QED
    BY <1>3, <2>3, <2>4, <2>5 DEF LogMatchesReference
<1> QED
  BY <1>1, <1>2, <1>3

\* However many helpers were applied and whatever they and the call gave, with any
\* static labels and any registered keys, an entry is complete and nothing but
\* what was said, or it was refused for a field that is not supported.
THEOREM EntryIsComplete == LogSpec => []LogMatchesReference
<1> QED
  BY LogInvInit, LogInvNext, LogInvEntry, PTL DEF LogSpec
=============================================================================
