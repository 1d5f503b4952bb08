------------------------------- MODULE Tokens -------------------------------
(***************************************************************************)
(* gcjwt: the client middleware with its TokenSource, whose underlying       *)
(* source is made once and by whichever call comes first, and the server     *)
(* middleware that reads the token at the other end.  A caller is a          *)
(* goroutine that calls the peer service.                                    *)
(***************************************************************************)
EXTENDS Integers

CONSTANTS
    Callers,     \* goroutines of the calling service
    Keys,        \* header names, "authorization" and "serverless" among them
    Lifetime,    \* of a token, in units of the clock
    MaxNow       \* bound: the clock

ASSUME TokensAssumption ==
    /\ {"authorization", "serverless"} \subseteq Keys
    /\ {"new", "done"} \cap Callers = {}
    /\ Lifetime \in Nat /\ MaxNow \in Nat

VARIABLES
    client, server,   \* ClientConfig and ServerConfig
    built,            \* NewComponent: "no", "failed", "panicked", "yes"
    once,             \* the sync.Once: "new", the caller inside it, "done"
    initErr,          \* the factory has failed
    at,               \* where each call is, or how it has ended
    now,              \* the clock of the receiving service
    handled           \* what the handler was given by the last request

tokenVars == <<client, server, built, once, initErr, at, now, handled>>

ClientConfigs == [audience : {"", "ours"}, disabled : BOOLEAN, key : Keys]
ServerConfigs == [expected : {"", "ours"}, skip : BOOLEAN, required : BOOLEAN,
                  key : Keys]

\* A header: absent, without "Bearer ", not a JWT, or a token and its claims.
Header(kind, aud, exp, email) ==
    [kind |-> kind, aud |-> aud, exp |-> exp, email |-> email]
NoHeader == Header("none", "", 0, FALSE)
Received == {NoHeader, Header("basic", "", 0, FALSE), Header("garbage", "", 0, FALSE)}
              \cup [kind : {"token"}, aud : {"ours", "theirs"}, exp : {0, MaxNow}, email : BOOLEAN]

NoRequest == [by |-> "nobody", claims |-> NoHeader, at |-> 0]

-----------------------------------------------------------------------------
(* The configurations and NewComponent.                                     *)

ClientValid == client.disabled \/ client.audience # ""

ServerValid == server.skip \/ server.expected # ""

\* With both configurations and a logger at hand.  Client panics for want of an
\* audience, also when it is to be disabled.
NewComponent ==
    /\ built = "no"
    /\ built' = CASE ~ClientValid \/ (client.audience # "" /\ ~ServerValid) -> "failed"
                  [] client.audience = "" -> "panicked"
                  [] OTHER                -> "yes"
    /\ UNCHANGED <<client, server, once, initErr, at, now, handled>>

-----------------------------------------------------------------------------
(* The server middleware.                                                   *)

\* extractToken: the header of Cloud Run counts where the usual one is empty.
Extract(headers) ==
    IF headers[server.key].kind = "none" /\ server.key = "authorization"
    THEN headers["serverless"] ELSE headers[server.key]

\* CloudRunClaims.ValidateWithLogging.
ClaimsValid(claims) ==
    /\ server.expected # "" => claims.aud = server.expected
    /\ now < claims.exp
    /\ claims.email

\* Mutant: a token that cannot be parsed counts as none.
ServeLenient(from, headers) ==
    LET header    == Extract(headers)
        anonymous == header.kind # "token" /\ (server.skip \/ ~server.required)
        accepted  == header.kind = "token" /\ (server.skip \/ ClaimsValid(header))
    IN  handled' = IF anonymous \/ accepted
                   THEN [by |-> from, claims |-> header, at |-> now]
                   ELSE NoRequest

\* The handler is called, without claims or with them, or the request refused;
\* a token that cannot be parsed is refused whatever the configuration.
Serve(from, headers) ==
    LET header    == Extract(headers)
        anonymous == header.kind \in {"none", "basic"} /\ (server.skip \/ ~server.required)
        accepted  == header.kind = "token" /\ (server.skip \/ ClaimsValid(header))
    IN  handled' = IF accepted THEN [by |-> from, claims |-> header, at |-> now]
                   ELSE IF anonymous
                   THEN [by |-> from, claims |-> NoHeader, at |-> now]
                   ELSE NoRequest

\* Any request, from somewhere else.
Receive ==
    /\ built = "yes"
    /\ \E usual \in Received, other \in {NoHeader, Header("token", "ours", MaxNow, TRUE)} :
          Serve("stranger", [k \in Keys |-> IF k = server.key THEN usual ELSE other])
    /\ UNCHANGED <<client, server, built, once, initErr, at, now>>

-----------------------------------------------------------------------------
(* The client middleware and TokenSource.Token.                             *)

Move(c, where) == at' = [at EXCEPT ![c] = where]

\* A call begins.
Call(c) ==
    /\ built = "yes" /\ at[c] \notin {"waiting", "acquiring"}
    /\ IF client.disabled
       THEN Serve(c, [k \in Keys |-> NoHeader]) /\ Move(c, "sent")
       ELSE Move(c, "waiting") /\ UNCHANGED handled
    /\ UNCHANGED <<client, server, built, once, initErr, now>>

Waiting(c) == at[c] = "waiting"

EnterOnce(c) ==
    /\ Waiting(c) /\ once = "new"
    /\ once' = c
    /\ UNCHANGED <<client, server, built, initErr, at, now, handled>>

\* The factory, with the context of the caller that came first; it may fail
\* because that context has ended, or for a reason of its own.
MakeSource(c) ==
    /\ once = c
    /\ once' = "done"
    /\ initErr' \in BOOLEAN
    /\ UNCHANGED <<client, server, built, at, now, handled>>

\* Mutant: only the first caller waits for the factory.
PassOnceEarly(c) ==
    /\ Waiting(c) /\ once \notin {"new", c}
    /\ Move(c, IF initErr THEN "init error" ELSE "acquiring")
    /\ UNCHANGED <<client, server, built, once, initErr, now, handled>>

\* once.Do returns to everyone, and initErr is read.
PassOnce(c) ==
    /\ Waiting(c) /\ once = "done"
    /\ Move(c, IF initErr THEN "init error" ELSE "acquiring")
    /\ UNCHANGED <<client, server, built, once, initErr, now, handled>>

\* The token, cached or new, is put into the header and the call is made.
Send(c) ==
    /\ at[c] = "acquiring"
    /\ Move(c, "sent")
    /\ \E exp \in (now + 1)..(now + Lifetime) :
          Serve(c, [k \in Keys |-> IF k = client.key
                                   THEN Header("token", client.audience, exp, TRUE)
                                   ELSE NoHeader])
    /\ UNCHANGED <<client, server, built, once, initErr, now>>

\* No token, or no transport in the context: the request is not made.
SendFails(c) ==
    /\ at[c] = "acquiring"
    /\ Move(c, "failed")
    /\ UNCHANGED <<client, server, built, once, initErr, now, handled>>

Tick ==
    /\ now < MaxNow /\ now' = now + 1
    /\ UNCHANGED <<client, server, built, once, initErr, at, handled>>

TokensInit ==
    /\ client \in ClientConfigs /\ server \in ServerConfigs
    /\ built = "no"
    /\ once = "new" /\ initErr = FALSE
    /\ at = [c \in Callers |-> "idle"]
    /\ now = 0 /\ handled = NoRequest

TokensNext ==
    \/ NewComponent \/ Receive \/ Tick
    \/ \E c \in Callers : \/ Call(c) \/ EnterOnce(c) \/ MakeSource(c)
                          \/ PassOnce(c) \/ Send(c) \/ SendFails(c)

TokensSpec == TokensInit /\ [][TokensNext]_tokenVars

-----------------------------------------------------------------------------
(* Properties.                                                              *)

\* A handler behind NewComponent's middleware runs with a token that was, when
\* it was let in, for this service and unexpired, and of a known caller where
\* one is required; or with none, where the configuration says that none is
\* needed; never with a broken one (ServerConfig.Validate together with Server
\* and extractToken).  Where none is required the documentation relaxes the
\* email; the middleware demands it all the same.
HandlerSeesValidClaims ==
    handled.by # "nobody" =>
        \/ /\ handled.claims.kind = "token"
           /\ server.skip \/ ( /\ handled.claims.aud = "ours"
                               /\ handled.at < handled.claims.exp
                               /\ server.required => handled.claims.email )
        \/ handled.claims = NoHeader /\ (server.skip \/ ~server.required)

\* What the first call makes of the source holds for every call of the process:
\* no request carries a token after another was told that there is no source,
\* or before the source is known (the sync.Once of TokenSource.Token).
CallersShareOutcome ==
    \A c \in Callers :
        /\ at[c] \in {"acquiring", "failed"} => once = "done" /\ ~initErr
        /\ at[c] = "init error" => once = "done" /\ initErr
=============================================================================
