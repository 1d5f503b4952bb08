---------------------------- MODULE MCComponents ----------------------------
(* Small instances of the components that share no state with the others, one  *)
(* of them at work in every behaviour.                                         *)
EXTENDS Logger, Settings, Startup, Tokens, TLC

CONSTANTS c1, c2

VARIABLE part

vars == <<part, logVars, settingsVars, startVars, tokenVars>>

\* One static label that a call may override, one that none does.
TwoLabels == ("component" :> "static") @@ ("service.id" :> "i1")

\* WithCaller, WithLabels, WithUser, WithPayload and WithStatus, WithError,
\* WithHTTPRequest, and log.With with a key that is registered or not.
Helpers ==
    {<<Field("caller", Scalar("f"))>>,
     <<Field("labels", "a" :> "1")>>,
     <<Field("labels", ("a" :> "2") @@ ("caller" :> "g") @@ ("" :> "n"))>>,
     <<Field("payload", "a" :> "1")>>, <<Field("payload", ("a" :> "2") @@ ("status" :> "ok"))>>,
     <<Field("error", Scalar("e"))>>, <<Field("http_request", Scalar("GET"))>>,
     <<Field("component", Scalar("gcjwt.token"))>>, <<Field("middleware", Scalar("gcjwt.client"))>>}

\* A message alone, InfoWithPayload, one with a nil error, a payload that is no
\* map, and a message in the place of a key (as outbox/store writes them).
CallSites ==
    {<<Field("msg", Scalar("m"))>>,
     <<Field("msg", Scalar("m")), Field("payload", "b" :> "1")>>,
     <<Field("msg", Scalar("m")), Field("error", Nothing), Field("code", Scalar("7"))>>,
     <<Field("msg", Scalar("m")), Field("tenant", Scalar("t"))>>,
     <<Field("payload", Scalar("p"))>>,
     <<Field("failed to insert", Scalar("event_id")), Field("id", Nothing)>>}

Init ==
    /\ part \in {"log", "settings", "start", "tokens"}
    /\ LogInit /\ StartupInit
    /\ IF part = "settings" THEN SettingsInit
       ELSE kind = "none" /\ config = <<>> /\ attempts = -1
    /\ TokensInit
    /\ part # "tokens" =>
          /\ client = [audience |-> "ours", disabled |-> FALSE, key |-> "custom"]
          /\ server = [expected |-> "ours", skip |-> FALSE, required |-> TRUE,
                       key |-> "custom"]

Next ==
    /\ UNCHANGED part
    /\ \/ part = "log" /\ LogNext /\ UNCHANGED <<settingsVars, startVars, tokenVars>>
       \/ part = "settings" /\ PublishFails /\ UNCHANGED <<logVars, startVars, tokenVars>>
       \/ part = "start" /\ StartupNext /\ UNCHANGED <<logVars, settingsVars, tokenVars>>
       \/ part = "tokens" /\ TokensNext /\ UNCHANGED <<logVars, settingsVars, startVars>>

Spec == Init /\ [][Next]_vars
=============================================================================
