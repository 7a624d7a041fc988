------------------------------ MODULE ProjectPush ------------------------------
(***************************************************************************)
(* A payload sent project by project: PushMetrics without a write-ahead    *)
(* log (exporter/collector/metrics.go), and ExportSpans behind PushTraces  *)
(* (exporter/trace/trace.go, exporter/collector/traces.go).  No error is   *)
(* Permanent, so that the exporterhelper may call again after each, with   *)
(* the same payload; and ExtraMetrics adds to that payload in place.       *)
(*                                                                         *)
(* A payload is as in PrometheusMetrics.  A point, which becomes one time  *)
(* series, has a place <<resource, scope, metric, point>>, which stays:    *)
(* all that is added is added behind.  Within a call it is the number of   *)
(* its place in the order of the payload.  Spans are the points of         *)
(* payloads of their own.                                                  *)
(***************************************************************************)
EXTENDS PrometheusMetrics, Grouping

CONSTANTS
    Pushes,         \* [signal, started, payload, extra]: extra is the config
    configProject,  \* cfg.ProjectID
    sendBatchSize,
    MaxPushCalls    \* bound: calls the exporterhelper makes

Configs == [targetInfo : BOOLEAN, scopeInfo : BOOLEAN, intToDouble : BOOLEAN]
ASSUME ProjectPushAssumption ==
    /\ \A p \in Pushes : /\ p.payload \in Seq(Resources) /\ p.extra \in Configs
                         /\ p.started \in BOOLEAN
    /\ sendBatchSize \in Nat \ {0} /\ MaxPushCalls \in Nat

VARIABLES
    push,       \* the push
    given,      \* payload, as it is now
    pushCalls,  \* calls made
    pushPc,     \* "returned" or "sending"
    pending,    \* pendingTimeSeries, or results: what is unsent of each project
    open,       \* {the project whose batches are being sent}, or {}
    erred,      \* errs holds an error
    answer,     \* "none", "ok" or "error"
    sentNow,    \* history: what of each project was sent in this call,
    visits,     \* the projects that its requests went to,
    unsure      \* and what was in requests that failed, of which the service
                \* may have stored any

pushVars == <<push, given, pushCalls, pushPc, pending, open, erred, answer, sentNow, visits, unsure>>

(* The places of a payload, in its order.                                  *)
Series(payload) ==
    LET InMetric(i, j, k) == [n \in DOMAIN payload[i].scopes[j].metrics[k].points |-> <<i, j, k, n>>]
        InScope(i, j) == FlattenSeq([k \in DOMAIN payload[i].scopes[j].metrics |-> InMetric(i, j, k)])
        InResource(i) == FlattenSeq([j \in DOMAIN payload[i].scopes |-> InScope(i, j)])
    IN  FlattenSeq([i \in DOMAIN payload |-> InResource(i)])
MetricAt(payload, place) == payload[place[1]].scopes[place[2]].metrics[place[3]]

(* gcp.project.id of the resource overrides the project of the config.     *)
ProjectOf_Config(payload, place) == configProject
ProjectOf(payload, place) ==
    LET own == payload[place[1]].project IN IF own = "" THEN configProject ELSE own
ByProject(payload) ==
    LET series   == Series(payload)
        projects == [n \in DOMAIN series |-> ProjectOf(payload, series[n])]
    IN  [p \in Range(projects) |-> PlacesOf(p, projects)]

PushInit ==
    /\ push \in Pushes /\ given = push.payload
    /\ pushCalls = 0 /\ pushPc = "returned" /\ pending = ByProject(<<>>) /\ open = {}
    /\ erred = FALSE /\ answer = "none" /\ sentNow = pending /\ visits = <<>> /\ unsure = {}
-----------------------------------------------------------------------------
(* The exporterhelper's first call, and another one after an error; an     *)
(* exporter that was not started refuses it.                               *)
Called(payload) == IF push.signal = "metrics" THEN ExtraMetrics(payload, push.extra) ELSE payload
PushCall ==
    /\ pushPc = "returned" /\ answer \in {"none", "error"} /\ pushCalls < MaxPushCalls
    /\ pushCalls' = pushCalls + 1
    /\ \/ /\ push.started
          /\ given' = Called(given) /\ pending' = ByProject(given')
          /\ pushPc' = "sending" /\ erred' = FALSE /\ answer' = "none"
          /\ sentNow' = [p \in DOMAIN pending' |-> <<>>] /\ visits' = <<>> /\ unsure' = {}
       \/ /\ ~push.started
          /\ answer' = "error"
          /\ UNCHANGED <<given, pending, pushPc, erred, sentNow, visits, unsure>>
    /\ UNCHANGED <<push, open>>

(* Time series go in batches, the spans of a project all at once.          *)
SendSize(places) ==
    IF push.signal = "spans" \/ Len(places) < sendBatchSize THEN Len(places) ELSE sendBatchSize

(* errs = append(errs, err)                                                *)
Errs_Last(err) == erred' = err
Errs(err) == erred' = (erred \/ err)

(* One request, to the project whose batches are being sent, or to any     *)
(* other when there is none.                                               *)
PushSend ==
    /\ pushPc = "sending"
    /\ \E p \in DOMAIN pending, err \in BOOLEAN :
          LET size == SendSize(pending[p])
              ts   == SubSeq(pending[p], 1, size)
          IN  /\ open \subseteq {p} /\ pending[p] # <<>>
              /\ pending' = [pending EXCEPT ![p] = SubSeq(@, size + 1, Len(@))]
              /\ open' = IF pending'[p] = <<>> THEN {} ELSE {p}
              /\ Errs(err)
              /\ sentNow' = [sentNow EXCEPT ![p] = @ \o ts]
              /\ visits' = Append(visits, p)
              /\ unsure' = unsure \cup IF err THEN Range(ts) ELSE {}
    /\ UNCHANGED <<push, given, pushCalls, pushPc, answer>>

(* errors.Join                                                             *)
PushReturn ==
    /\ pushPc = "sending" /\ \A p \in DOMAIN pending : pending[p] = <<>>
    /\ pushPc' = "returned" /\ answer' = IF erred THEN "error" ELSE "ok"
    /\ UNCHANGED <<push, given, pushCalls, pending, open, erred, sentNow, visits, unsure>>

PushNext == PushCall \/ PushSend \/ PushReturn
PushSpec == PushInit /\ [][PushNext]_pushVars
-----------------------------------------------------------------------------
(* Whatever fails in between, a call sends every point it was given once,  *)
(* under its own project and there in the order of the payload, with the   *)
(* batches of a project one after the other; and it returns nil only when  *)
(* there is no point that might not have been stored.                      *)
CallsAreWhole ==
    LET all == ByProject(given)
    IN  /\ pushPc = "sending" =>
              /\ DOMAIN pending = DOMAIN all
              /\ \A p \in DOMAIN all : sentNow[p] \o pending[p] = all[p]
              /\ \A a, b, c \in DOMAIN visits :
                    a < b /\ b < c /\ visits[a] = visits[c] => visits[b] = visits[a]
        /\ \A p \in DOMAIN pending : \A n \in Range(pending[p]) :
              given[Series(given)[n][1]].project \in {p, ""}
        /\ pushPc = "returned" /\ answer = "ok" =>
              unsure = {} /\ UNION {Range(sentNow[p]) : p \in DOMAIN sentNow} = DOMAIN Series(given)

(* What ExtraMetrics puts into a payload, it puts in once for each call:   *)
(* per resource identity a target_info, per named scope of one an          *)
(* otel_scope_info, per point of an unknown gauge a counter; and nothing   *)
(* of what was there is lost or moved.                                     *)
AddedOncePerCall ==
    LET before == Range(Series(push.payload))
        now    == Range(Series(given))
        IdOf(s) == given[s[1]].id
        ScopeOf(s) == given[s[1]].scopes[s[2]].scope
        Point(s) == MetricAt(given, s).points[s[4]]
        When(b) == IF b /\ push.signal = "metrics" /\ push.started THEN pushCalls ELSE 0
        TargetInfos(id) ==
            {s \in now \ before : IdOf(s) = id /\ MetricAt(given, s).name = "target_info"}
        ScopeInfos(id, scope) ==
            {s \in now \ before : /\ IdOf(s) = id /\ ScopeOf(s) = scope
                                  /\ MetricAt(given, s).name = "otel_scope_info"}
        Counters(s) ==
            {t \in now \ before : /\ t[1] = s[1] /\ t[2] = s[2] /\ MetricAt(given, t).type = "sum"
                                  /\ MetricAt(given, t).name = MetricAt(given, s).name
                                  /\ Point(t).time = Point(s).time}
    IN  visits = <<>> =>
        /\ before \subseteq now
        /\ \A s \in before :
              /\ [MetricAt(given, s) EXCEPT !.points = <<>>] = [MetricAt(push.payload, s) EXCEPT !.points = <<>>]
              /\ Cardinality(Counters(s)) =
                    When(MetricAt(given, s).type = "gauge" /\ MetricAt(given, s).unknown)
              /\ Cardinality(TargetInfos(IdOf(s))) = When(push.extra.targetInfo)
              /\ Cardinality(ScopeInfos(IdOf(s), ScopeOf(s))) =
                    When(push.extra.scopeInfo /\ ScopeOf(s) # "")
=============================================================================
