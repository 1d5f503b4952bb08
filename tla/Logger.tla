------------------------------- MODULE Logger -------------------------------
(***************************************************************************)
(* gclog: fields are attached to a logger one helper after another, kratos   *)
(* puts those of the call behind them, and Log folds them into one entry or  *)
(* refuses them.  A field is a key and a partial function: for a map its     *)
(* content, for a scalar what it says of "it", for nil nothing.  Left out    *)
(* are what may still happen to an entry in write (JSON, the writer, the     *)
(* text for an empty message), the LabelNormalizer, which a service may set, *)
(* and keys that are not strings, which Log skips.                           *)
(***************************************************************************)
EXTENDS Naturals, Sequences

CONSTANTS
    ExtraKeys,        \* registered with WithAllowedKeys
    ExtraLabels,      \* registered with WithAllowedLabelKeys
    StaticLabels,     \* of NewComponent, service.id among them
    InstanceID,       \* "" when disabled
    Attachments,      \* calls of the helpers: sequences of fields each of them adds
    Calls,            \* key-value lists of the call sites, without the attached
    ChainBound        \* bound: helpers applied one after another

\* WithAllowedLabelKeys registers no empty key.
ASSUME LogAssumption ==
    /\ "" \notin ExtraLabels
    /\ \A s \in Attachments \cup Calls : s \in Seq({s[i] : i \in DOMAIN s})

VARIABLES prefix,     \* the fields of the logger, in the order of attachment
          ctx,        \* the trace of the context bound to it, "" for none
          given,      \* history: all the fields of the last call
          entry       \* what it has written

logVars == <<prefix, ctx, given, entry>>

Field(k, v) == [key |-> k, val |-> v]
Nothing     == [x \in {} |-> ""]
Only(k, v)  == [x \in {k} |-> v]
Over(f, g)  == [x \in DOMAIN f \cup DOMAIN g |-> IF x \in DOMAIN f THEN f[x] ELSE g[x]]
Scalar(v)   == [x \in {"it"} |-> v]
IsScalar(f) == DOMAIN f.val = {"it"}
Text(f)     == IF IsScalar(f) THEN f.val["it"] ELSE ""
Sprint(f)   == IF IsScalar(f) THEN f.val["it"] ELSE "<printed>"

-----------------------------------------------------------------------------
(* NewLogger.                                                               *)

CoreKeys    == {"msg", "trace_id", "span_id", "caller", "payload", "labels",
                "http_request", "error"}
LabelKeys   == {"kind", "component", "operation"} \cup ExtraLabels
PayloadKeys == ({"args", "code", "reason", "stack", "latency"} \cup ExtraKeys) \ LabelKeys
AllowedKeys == CoreKeys \cup LabelKeys \cup PayloadKeys

-----------------------------------------------------------------------------
(* Log.                                                                     *)

Blank == [msg |-> "", trace_id |-> "", span_id |-> "", caller |-> "",
          payload |-> Nothing, labels |-> Nothing, http_request |-> "",
          error |-> "", extra |-> Nothing]

\* A payload must be a map; nil is one that says nothing.
Supported(f) == f.key \in AllowedKeys /\ (f.key = "payload" => ~IsScalar(f))

Texts == {"msg", "trace_id", "span_id", "caller"}

\* Mutant: a map replaces the one attached before it.
AddReplacing(acc, f) ==
    IF f.key \in {"payload", "labels"} THEN [acc EXCEPT ![f.key] = f.val]
    ELSE CASE f.key \in Texts -> [acc EXCEPT ![f.key] = Text(f)]
           [] f.key \in {"error", "http_request"} -> [acc EXCEPT ![f.key] = Sprint(f)]
           [] f.key \in LabelKeys   -> [acc EXCEPT !.labels = Over(Only(f.key, Sprint(f)), @)]
           [] f.key \in PayloadKeys -> [acc EXCEPT !.extra = Over(Only(f.key, f.val), @)]

\* One turn of the loop over the key-value pairs.  Maps are merged, the rest is
\* replaced; labels that are no map, a nil error and a request of another type
\* leave what was there.
Add(acc, f) ==
    CASE f.key = "payload" -> [acc EXCEPT !.payload = Over(f.val, @)]
      [] f.key = "labels"  -> IF IsScalar(f) THEN acc
                              ELSE [acc EXCEPT !.labels = Over(f.val, @)]
      [] f.key = "error"   -> IF f.val = Nothing THEN acc
                              ELSE [acc EXCEPT !.error = Sprint(f)]
      [] f.key = "http_request" -> IF IsScalar(f)
                                   THEN [acc EXCEPT !.http_request = Text(f)] ELSE acc
      [] f.key \in Texts -> [acc EXCEPT ![f.key] = Text(f)]
      [] f.key \in LabelKeys \ CoreKeys ->
            [acc EXCEPT !.labels = Over(Only(f.key, Sprint(f)), @)]
      [] f.key \in PayloadKeys \ CoreKeys ->
            [acc EXCEPT !.extra = Over(Only(f.key, f.val), @)]

Fold(fields) ==
    LET acc[i \in 0..Len(fields)] == IF i = 0 THEN Blank ELSE Add(acc[i - 1], fields[i])
    IN  acc[Len(fields)]

\* composeLabels: custom labels before the caller, the instance and the static ones.
ComposeLabels(acc) ==
    LET named    == [k \in DOMAIN acc.labels \ {""} |-> acc.labels[k]]
        caller   == IF acc.caller # "" THEN Only("caller", acc.caller) ELSE Nothing
        instance == IF InstanceID # "" THEN Only("instance_id", InstanceID) ELSE Nothing
    IN  Over(named, Over(caller, Over(instance, StaticLabels)))

Write(fields) ==
    LET acc == Fold(fields)
    IN  [acc EXCEPT !.labels = ComposeLabels(acc)]

Refused == [refused |-> TRUE]

-----------------------------------------------------------------------------
(* The helpers, and a call through a log.Helper, which drops Log's error.   *)

Attach(fields) ==
    /\ Len(prefix) + Len(fields) <= ChainBound
    /\ prefix' = prefix \o fields
    /\ UNCHANGED <<ctx, given, entry>>

\* WithTrace: a context without a trace is bound all the same.
WithTrace(trace) ==
    /\ Len(prefix) + 2 <= ChainBound
    /\ ctx' = trace
    /\ prefix' = prefix \o (IF trace = "" THEN <<>>
                            ELSE <<Field("trace_id", Scalar(trace)),
                                   Field("span_id", Scalar(trace))>>)
    /\ UNCHANGED <<given, entry>>

\* NewComponent's two valuers, evaluated with the bound context, come first.
Valued == <<Field("trace_id", Scalar(ctx)), Field("span_id", Scalar(ctx))>>

\* An odd key at the end of a call has nil for its value; a field that is not
\* supported takes the whole entry with it.  The entry is what Log hands to write.
Log(call) ==
    /\ given' = Valued \o prefix \o call
    /\ entry' = IF \A i \in DOMAIN given' : Supported(given'[i])
                THEN Write(given') ELSE Refused
    /\ UNCHANGED <<prefix, ctx>>

LogInit == prefix = <<>> /\ ctx = "" /\ given = <<>> /\ entry = Blank

LogNext ==
    \/ \E fields \in Attachments : Attach(fields)
    \/ \E trace \in {"", "t1"} : WithTrace(trace)
    \/ \E call \in Calls : Log(call)

LogSpec == LogInit /\ [][LogNext]_logVars

-----------------------------------------------------------------------------
(* Properties.                                                              *)

\* The places of an entry, and what is written at one of them.
Singles == CoreKeys \ {"payload", "labels"}
PlacesOf(e) ==
    ({"entry"} \X Singles) \cup ({"payload"} \X DOMAIN e.payload)
      \cup ({"labels"} \X DOMAIN e.labels) \cup ({"extra"} \X DOMAIN e.extra)
At(e, p) == IF p[1] = "entry" THEN e[p[2]] ELSE e[p[1]][p[2]]

\* What a field says, place by place.
Silent(f) ==
    \/ f.key = "labels" /\ IsScalar(f)
    \/ f.key = "error" /\ f.val = Nothing
    \/ f.key = "http_request" /\ ~IsScalar(f)

Says(f) ==
    IF Silent(f) THEN Nothing
    ELSE IF f.key \in {"payload", "labels"}
    THEN [p \in ({f.key} \X DOMAIN f.val) \ {<<"labels", "">>} |-> f.val[p[2]]]
    ELSE IF f.key \in Singles
    THEN Only(<<"entry", f.key>>, IF f.key = "error" THEN Sprint(f) ELSE Text(f))
    ELSE IF f.key \in LabelKeys THEN Only(<<"labels", f.key>>, Sprint(f))
    ELSE Only(<<"extra", f.key>>, f.val)

Places == UNION {DOMAIN Says(given[i]) : i \in DOMAIN given}

\* Reference: the last of the fields that says something of p.
LastWord(p) ==
    LET speaking == {i \in DOMAIN given : p \in DOMAIN Says(given[i])}
    IN  Says(given[CHOOSE i \in speaking : \A j \in speaking : j <= i])[p]

\* Labels nobody gave come from the caller, the instance, the static ones.
Inherited(k) ==
    IF k = "caller" /\ entry.caller # "" THEN entry.caller
    ELSE IF k = "instance_id" /\ InstanceID # "" THEN InstanceID
    ELSE StaticLabels[k]

\* The entry of a call holds what the call and the helpers before it gave, each
\* place with its last word, nothing merged away and nothing made up, and no
\* label lost to the caller, the instance or a static one; or there is no entry,
\* and then one of the fields is not supported (Logger.Log up to its call of
\* write, composeLabels).
LogMatchesReference ==
    IF entry = Refused THEN \E i \in DOMAIN given : ~Supported(given[i])
    ELSE /\ \A i \in DOMAIN given : Supported(given[i])
         /\ \A p \in Places : p \in PlacesOf(entry) /\ At(entry, p) = LastWord(p)
         /\ \A p \in PlacesOf(entry) \ Places :
               \/ p[1] = "entry" /\ At(entry, p) = ""
               \/ p[1] = "labels" /\ At(entry, p) = Inherited(p[2])
         /\ given # <<>> => DOMAIN StaticLabels \subseteq DOMAIN entry.labels
=============================================================================
