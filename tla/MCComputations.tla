----------------------------- MODULE MCComputations -----------------------------
(* The parts of the system that run on their own, one at a time: the loop  *)
(* of WALBackoff, the push of ProjectPush, and the functions of            *)
(* Computations, each on a bounded set of inputs.                          *)
EXTENDS WALBackoff, ProjectPush, Computations

CONSTANT Parts    \* which of them a run is about

Functions(keys, values) == UNION {[ks -> values] : ks \in SUBSET keys}
UpTo(n, S) == UNION {[1..k -> S] : k \in 0..n}
UpToTwo(S) == {<<>>} \cup {<<e>> : e \in S} \cup S \X S
-----------------------------------------------------------------------------
(* WALBackoff: unset, the small values around the powers of two, the       *)
(* powers of two around the cap of the loop, the value of a test, and      *)
(* three days.                                                             *)
MCMaxBackoffs == 0..10 \cup {2112, 2047, 2048, 2049, 4095, 4096, 4097, 259200}

(* ProjectPush: one resource or two, of one identity or two, one of which  *)
(* may name its own project; scopes with a name and without; gauges of an  *)
(* unknown type among the metrics; and spans.                              *)
AGauge(unknown, points) ==
    [name |-> "g", type |-> "gauge", unknown |-> unknown, monotonic |-> FALSE,
     points |-> [n \in 1..points |-> [time |-> 3 - n, scoped |-> FALSE, int |-> TRUE]]]
ASum == [AGauge(FALSE, 1) EXCEPT !.name = "s", !.type = "sum"]
AScope(name, metrics) == [scope |-> name, metrics |-> metrics]
AResource(project, id, scopes) == [project |-> project, id |-> id, scopes |-> scopes]
MCScopes == {<<AScope("", <<AGauge(TRUE, 2)>>)>>,
             <<AScope("lib", <<AGauge(TRUE, 1), ASum>>), AScope("lib", <<ASum>>)>>}
MCPayloads ==
    {<<AResource(p, "r1", s)>> : p \in {"", "own"}, s \in MCScopes}
    \cup {<<AResource("", "r1", s), AResource(p, id, <<AScope("lib", <<ASum>>)>>)>> :
             s \in MCScopes, p \in {"", "own"}, id \in {"r1", "r2"}}
Extra(targetInfo, scopeInfo) ==
    [targetInfo |-> targetInfo, scopeInfo |-> scopeInfo, intToDouble |-> targetInfo]
MCPushes ==
    {[signal |-> "metrics", started |-> TRUE, payload |-> d, extra |-> Extra(t, s)] :
        d \in MCPayloads, t, s \in BOOLEAN}
    \cup {[signal |-> "spans", started |-> b, payload |-> d, extra |-> Extra(FALSE, FALSE)] :
        b \in BOOLEAN, d \in MCPayloads}
-----------------------------------------------------------------------------
MCMaxEntrySize == 10
ASplit(n, o, slips) == [n |-> n, overhead |-> o, slips |-> slips]
MCSplits ==
    UNION {{ASplit(n, o, slips) : slips \in SUBSET Inexact(n, SplitsFor(n, Room(MCMaxEntrySize, o)))} :
              n \in 0..24, o \in {2, 4, 7, 8, 10, 12}}
MCChars == [text : UpTo(5, {1, 3}), overhead : {4, 7}]

ARecord == [logName |-> "absent", time |-> 7, observed |-> 5, severity |-> 9, text |-> "",
            sourceLocation |-> "absent", httpRequest |-> "good", operation |-> "bad",
            traceSampled |-> "absent", sampledFlag |-> FALSE, eventName |-> "",
            attributes |-> << >>, body |-> "text"]
Mapped(r, reporting, name, labels) ==
    [r |-> r, cfg |-> [errorReportingType |-> reporting, defaultLogName |-> name], labels |-> labels,
     now |-> 10, later |-> 11]
SeverityTexts(n) == IF n = 0 THEN {"", "other"} \cup DOMAIN otelSeverityForText ELSE {"", "error"}
MCRecords ==
    UNION {{Mapped([ARecord EXCEPT !.severity = n, !.text = text, !.body = b, !.sourceLocation = l,
                                   !.time = times[1], !.observed = times[2]], reporting, "log", "k1" :> "resource") :
               text \in SeverityTexts(n), b \in Bodies, l \in {"absent", "good", "bad"}, reporting \in BOOLEAN,
               times \in {<<0, 0>>, <<0, 5>>, <<7, 5>>}} : n \in -1..25}
    \cup {Mapped([ARecord EXCEPT !.eventName = e, !.attributes = a], FALSE, name, mergeLogLabels(scope, resource)) :
              e \in {"", "event"}, name \in {"", "log"},
              a \in Functions({"gcp.log_name", "event.name", "k1", "k2"}, {"attr", ""}),
              scope, resource \in Functions({"k1", "event.name"}, {"label", ""})}

(* Fields of four bits, read in six.                                       *)
MCNumbers == [n : -40..40, half : {8}, wide : {32}]

MCResources ==
    {[attrs |-> [k \in keys |-> "a"]
                @@ (IF platform = "" THEN << >> ELSE "cloud.platform" :> platform)
                @@ (IF service = "" THEN << >> ELSE "service.name" :> service),
      other |-> "b"] :
        keys \in SUBSET {"k8s.cluster.name", "k8s.pod.name", "k8s.container.name", "k8s.node.name",
                         "host.id", "service.instance.id", "faas.name", "faas.instance"},
        platform \in {"", "gcp_compute_engine", "gcp_app_engine", "gcp_cloud_run", "aws_ec2",
                      "gcp_bare_metal_solution"},
        service \in {"", Unknown, "a"}}

MCNames ==
    [type : {"sum", "gauge", "summary", "histogram", "exponential"}, monotonic : BOOLEAN,
     unknown : BOOLEAN, total : BOOLEAN, own : {"", "total", "sum", "count"}]
-----------------------------------------------------------------------------
(* The points of a type of metrics, that differ in what its mapping reads. *)
MetricPoints(type) ==
    [value     : IF type \in {"gauge", "sum"} THEN {"int", "double", "empty"} ELSE {"double"},
     noValue   : BOOLEAN,
     hasSum    : IF type = "histogram" THEN BOOLEAN ELSE {TRUE},
     bounds    : IF type = "histogram" THEN {0, 1} ELSE {1},
     kept      : IF type = "gauge" THEN {TRUE} ELSE BOOLEAN,
     quantiles : IF type = "summary" THEN {0, 2} ELSE {0},
     attrs     : {<< >>, "a.b" :> "x" @@ "quantile" :> "x"}]

MCResourceAttrs == "service.name" :> "x" @@ "a_b" :> "r"
MCExtraLabels ==
    {ExtraLabels(MCResourceAttrs, [name |-> "lib", version |-> ""],
                    [filtered |-> {"a_b"}, serviceLabels |-> s, scopeLabels |-> TRUE]) : s \in BOOLEAN}
    \cup {<< >>}

MetricsOfType(type) ==
    [type : {type}, monotonic : IF type = "sum" THEN BOOLEAN ELSE {FALSE},
     cumulative : IF type \in {"gauge", "summary"} THEN {TRUE} ELSE BOOLEAN, named : BOOLEAN,
     unit : IF type \in {"gauge", "sum"} THEN {"1", "{gcp.BOOL}"} ELSE {"1"},
     points : UpToTwo(MetricPoints(type))]
MCMetrics ==
    UNION {[m : MetricsOfType(type), extra : MCExtraLabels] :
              type \in {"gauge", "sum", "histogram", "exponential", "summary"}}

MCIntervals == {<<start, start + d>> : start \in {0, 1, 5000}, d \in -3..2004}

ABound(k) == 3 * k - 4
Exemplar(v, b) == [value |-> v, span |-> b, trace |-> TRUE, labels |-> ~b]
MCHistograms ==
    {[count |-> Total(counts), sum |-> sum, counts |-> counts,
      bounds |-> [k \in 1..(Len(counts) - 1) |-> ABound(k)], exemplars |-> exemplars] :
        counts \in UNION {[1..n -> 0..2] : n \in 1..3}, sum \in {<<>>, <<0>>, <<-3>>, <<7>>},
        exemplars \in UpToTwo({Exemplar(v, b) : v \in 1..2, b \in BOOLEAN})}
MCExponentials ==
    {[count |-> Total(negative) + Total(positive) + zero, sum |-> <<1>>, zero |-> zero,
      negative |-> negative, positive |-> positive, offset |-> offset, exemplars |-> <<>>] :
        negative \in UpToTwo(0..1), positive \in UpTo(3, 0..2), zero \in 0..1, offset \in {-2, 0, 3}}
-----------------------------------------------------------------------------
(* Propagator: spans of up to two digits, of which those of four bits fit. *)
MCSpanDigits == 2
MCSpanLimit == 16
Remotes == {[trace |-> n, span |-> n, flags |-> 0] : n \in {0, 2}}
MCContexts == [sc : [trace : 0..1, span : 0..15, flags : 0..255], ctx : Remotes]
MCHeaders ==
    UNION {[h : [trace : 0..1, span : {s \in 0..40 : s < 10^digits}, digits : {digits},
                 flag : {<<>>, <<1, 2>>} \cup {<<d>> : d \in 0..9}],
            ctx : Remotes] : digits \in 1..3}

Distinct(kvs) == \A m, n \in DOMAIN kvs : kvs[m].key = kvs[n].key => m = n
SpanKeys == {"http.host", "/http/host", "long", "service.name"}
SpanAttrs == {kvs \in UpToTwo([key : SpanKeys \cup {"otel.scope.name"}, value : {"v", "", "list"}]) : Distinct(kvs)}
SpanResources == {kvs \in UpToTwo([key : SpanKeys \cup {"gcp.project.id"}, value : {"w", ""}]) : Distinct(kvs)}
SpansOf(resources, parents) ==
    [self : {1}, parent : parents, remote : {FALSE}, status : {"Ok"}, kind : {"server"},
     attrs : SpanAttrs, resource : resources, scope : {[name |-> "lib", version |-> "v"]},
     events : {<<>>}, links : {<<>>}]
MCSpans ==
    SpansOf(SpanResources, {0}) \cup SpansOf({kvs \in SpanResources : Len(kvs) = 1}, {1, 2})

MCLists == UpTo(4, {<<>>, <<[key |-> "k", value |-> "v"]>>}) \X (0..3)
MCTexts == UpTo(4, 1..4) \X (0..8)
-----------------------------------------------------------------------------
MCEnvironments ==
    {[n \in names \cup bms |-> IF n = "GAE_ENV" THEN gae ELSE "x"] :
        names \in SUBSET {"KUBERNETES_SERVICE_HOST", "FUNCTION_TARGET", "K_CONFIGURATION", "CLOUD_RUN_JOB",
                          "CLOUD_RUN_WORKER_POOL", "GAE_ENV", "GAE_SERVICE"},
        bms \in {{}, {"BMS_REGION"}, Bms}, gae \in {"standard", "flex"}}

MCZones == {[k \in 1..n |-> k] : n \in 0..5}
MCProjectVariables == Functions({"GOOGLE_CLOUD_PROJECT"}, {"", "e"})
MCAuths ==
    [config : [project : {"", "x", "y"}, quota : {"", "x", "y"}, tokenType : {"access_token", "id_token"},
               audience : {"", "a"}, tokenHeader : {"authorization", "proxy-authorization"}],
     creds : [found : BOOLEAN, project : {"", "x", "y"}, quota : {"", "x"}, source : BOOLEAN],
     env : MCProjectVariables, env2 : MCProjectVariables,
     creds2 : [found : {TRUE}, project : {"z"}, quota : {"z"}, source : BOOLEAN]]

(* Hosts: none, and those with an authenticator or without.                *)
AnExtension(interfaces, options, perRPC) ==
    [interfaces |-> interfaces, options |-> options, perRPC |-> perRPC]
MCExtensions ==
    {AnExtension({"TokenSource"}, {}, FALSE), AnExtension({"ContextTokenSource", "GRPCClient"}, {}, FALSE),
     AnExtension({}, {}, FALSE)}
    \cup {AnExtension({"ClientOptions", "GRPCClient"}, o, b) : o \in SUBSET {"x"}, b \in BOOLEAN}
MCHosts ==
    [there : {FALSE}, extensions : {<< >>}] \cup [there : {TRUE}, extensions : Functions({"auth"}, MCExtensions)]
MCExporters ==
    [config : [project : {"", "p"}, impersonate : BOOLEAN, authenticator : {"", "auth"}],
     client : {c \in [endpoint : {"", "e"}, insecure : BOOLEAN, given : BOOLEAN, options : SUBSET {"o"}] :
                  ~c.given => c.options = {}},
     host : MCHosts, creds : {Absent, "", "c"},
     failing : SUBSET {"grpc.NewClient", "impersonate.NewCredentials"}]
MCMappings == UpToTwo([key : {"a", "b", "c"}, replacement : {"a", "d", "e"}]) \X {"a", "b", "c"} \X {"a", "b", "c"}
-----------------------------------------------------------------------------
MCInputs ==
    [split |-> MCSplits, chars |-> MCChars, record |-> MCRecords, int |-> MCNumbers,
     resource |-> MCResources, name |-> MCNames, metric |-> MCMetrics, interval |-> MCIntervals,
     histogram |-> MCHistograms, exponential |-> MCExponentials, context |-> MCContexts,
     header |-> MCHeaders, span |-> MCSpans, list |-> MCLists, text |-> MCTexts,
     platform |-> MCEnvironments \X SUBSET {"cluster-location", "machine-type"}, zone |-> MCZones,
     auth |-> MCAuths, exporter |-> MCExporters, mapping |-> MCMappings]
Kinds == {"split", "chars", "record", "int", "resource", "name", "metric", "interval", "histogram", "exponential",
          "context", "header", "span", "list", "text", "platform", "zone", "auth", "exporter", "mapping"}
AllParts == {"backoff", "push"} \cup Kinds
OnlyCharacters == {"chars"}

MCInit ==
    /\ part \in Parts /\ input = {}
    /\ Init /\ (part # "backoff" => maxBackoff = Default)
    /\ PushInit /\ (part # "push" => push = CHOOSE p \in Pushes : TRUE)
MCNext ==
    \/ part = "backoff" /\ Next /\ UNCHANGED <<computeVars, pushVars>>
    \/ part = "push" /\ PushNext /\ UNCHANGED <<computeVars, vars>>
    \/ part \in Kinds /\ Compute /\ UNCHANGED <<vars, pushVars>>
MCSpec == MCInit /\ [][MCNext]_<<computeVars, vars, pushVars>>
=============================================================================
