--------------------------- MODULE PrometheusMetrics ---------------------------
(***************************************************************************)
(* What the Google Managed Prometheus flavour of the collector exporter    *)
(* (exporter/collector/googlemanagedprometheus) does to metrics: their     *)
(* names, and the metrics that ExtraMetrics adds to a payload in place.    *)
(*                                                                         *)
(* A payload is a sequence of resources [project, id, scopes]; a scope is  *)
(* [scope, metrics], with "" for one that has neither name nor version; a  *)
(* metric is [name, type, unknown, monotonic, points], and a point is      *)
(* [time, scoped, int].                                                    *)
(***************************************************************************)
EXTENDS Integers, Sequences, SequencesExt, FiniteSetsExt

(* Names are strings: those that the code writes itself are named too, for *)
(* the provers know no string of a given text to be in STRING.             *)
Names == STRING \cup {"", "target_info", "otel_scope_info"}
MetricTypes == {"gauge", "sum", "histogram", "exponential", "summary"}
Points == [time : Nat, scoped : BOOLEAN, int : BOOLEAN]
Metrics == [name : Names, type : MetricTypes, unknown : BOOLEAN, monotonic : BOOLEAN,
            points : Seq(Points)]
Scopes == [scope : Names, metrics : Seq(Metrics)]
Resources == [project : STRING, id : STRING, scopes : Seq(Scopes)]

Untyped(m) == [m EXCEPT !.type = "sum", !.monotonic = TRUE]

(* A sum for every point of every gauge of an unknown type.                *)
UntypedCopies(m) ==
    IF m.type = "gauge" /\ m.unknown
    THEN [n \in DOMAIN m.points |-> [Untyped(m) EXCEPT !.points = <<m.points[n]>>]]
    ELSE <<>>
WithUntyped(s) ==
    [s EXCEPT !.metrics = @ \o FlattenSeq([k \in DOMAIN @ |-> UntypedCopies(@[k])])]
addUntypedMetrics(payload) ==
    [i \in DOMAIN payload |->
        [payload[i] EXCEPT !.scopes = [j \in DOMAIN @ |-> WithUntyped(@[j])]]]

PointsOf(metrics) == FlattenSeq([k \in DOMAIN metrics |-> metrics[k].points])
MetricsOf(resource) == FlattenSeq([j \in DOMAIN resource.scopes |-> resource.scopes[j].metrics])
latestTime(metrics) == Max({0} \cup {p.time : p \in Range(PointsOf(metrics))})
Info(name, time, scoped) ==
    [name |-> name, type |-> "gauge", unknown |-> FALSE, monotonic |-> FALSE,
     points |-> <<[time |-> time, scoped |-> scoped, int |-> TRUE]>>]

(* One target_info for the first of the resources with the same identity,  *)
(* in a scope of its own.                                                  *)
FirstOfResource_Each(payload, i) == TRUE
FirstOfResource(payload, i) == \A h \in 1..(i - 1) : payload[h].id # payload[i].id
addTargetInfoMetric(payload) ==
    [i \in DOMAIN payload |->
        IF FirstOfResource(payload, i)
        THEN [payload[i] EXCEPT !.scopes = Append(@,
                 [scope |-> "",
                  metrics |-> <<Info("target_info", latestTime(MetricsOf(payload[i])), FALSE)>>])]
        ELSE payload[i]]

(* All points of a named scope get its labels; the first scope of its name *)
(* in resources of one identity gets an otel_scope_info too.               *)
FirstOfScope(payload, i, j) ==
    \A h \in 1..i : \A g \in DOMAIN payload[h].scopes :
        (h < i \/ g < j) =>
            \/ payload[h].id # payload[i].id
            \/ payload[h].scopes[g].scope # payload[i].scopes[j].scope
Scoped(metrics) ==
    [k \in DOMAIN metrics |->
        [metrics[k] EXCEPT !.points = [n \in DOMAIN @ |-> [@[n] EXCEPT !.scoped = TRUE]]]]
WithScope(payload, i, j) ==
    LET s == payload[i].scopes[j] IN
    IF s.scope = "" THEN s
    ELSE [s EXCEPT !.metrics = Scoped(@) \o
             IF FirstOfScope(payload, i, j)
             THEN <<Info("otel_scope_info", latestTime(s.metrics), TRUE)>> ELSE <<>>]
addScopeInfoMetric(payload) ==
    [i \in DOMAIN payload |->
        [payload[i] EXCEPT !.scopes = [j \in DOMAIN @ |-> WithScope(payload, i, j)]]]

Converted(m) ==
    IF m.type \in {"sum", "gauge"}
    THEN [m EXCEPT !.points = [n \in DOMAIN @ |-> [@[n] EXCEPT !.int = FALSE]]] ELSE m
AllConverted(s) == [s EXCEPT !.metrics = [k \in DOMAIN @ |-> Converted(@[k])]]
convertIntToDouble(payload) ==
    [i \in DOMAIN payload |->
        [payload[i] EXCEPT !.scopes = [j \in DOMAIN @ |-> AllConverted(@[j])]]]

(* config: EnableTargetInfo, EnableScopeInfo and the gate intToDouble.     *)
ExtraMetrics(payload, config) ==
    LET untyped == addUntypedMetrics(payload)
        target  == IF config.targetInfo THEN addTargetInfoMetric(untyped) ELSE untyped
        scope   == IF config.scopeInfo THEN addScopeInfoMetric(target) ELSE target
    IN  IF config.intToDouble THEN convertIntToDouble(scope) ELSE scope
-----------------------------------------------------------------------------
(* GetMetricName.  A metric here has also own, the suffix its name came    *)
(* with ("", "total", "sum" or "count"), and total, whether its compliant  *)
(* name ends in _total; part is what the mapping of a summary has added.   *)
Ending(m, part) == IF part # "" THEN part ELSE m.own

getUnknownMetricName_KeepsTotal(m, suffix, unknownSuffix) ==
    [total |-> m.total, suffix |-> IF m.unknown THEN unknownSuffix ELSE suffix]
getUnknownMetricName(m, suffix, unknownSuffix) ==
    [total  |-> m.total /\ (m.unknown => m.own = "total"),
     suffix |-> IF m.unknown THEN unknownSuffix ELSE suffix]

GetMetricName(m, part) ==
    CASE m.type = "sum" /\ ~m.monotonic -> [total |-> m.total, suffix |-> "/gauge"]
      [] m.type = "sum" /\ m.monotonic -> getUnknownMetricName(m, "/counter", "/unknown:counter")
      [] m.type = "gauge" -> getUnknownMetricName(m, "/gauge", "/unknown")
      [] m.type = "summary" ->
            [total |-> m.total,
             suffix |-> CASE Ending(m, part) = "sum" -> "_sum/summary:counter"
                          [] Ending(m, part) = "count" -> "_count/summary"
                          [] OTHER -> "/summary"]
      [] m.type \in {"histogram", "exponential"} -> [total |-> m.total, suffix |-> "/histogram"]

(* The series one metric makes have names of their own: the parts of a     *)
(* summary, if its own name does not end like one, and an unknown gauge    *)
(* and the counter made of it; and _total is not put on an unknown metric  *)
(* that came without it.                                                   *)
NamesToldApart(m) ==
    /\ m.type = "summary" /\ m.own \notin {"sum", "count"} =>
           Cardinality({GetMetricName(m, part) : part \in {"", "sum", "count"}}) = 3
    /\ m.type = "gauge" => GetMetricName(m, "") # GetMetricName(Untyped(m), "")
    /\ m.unknown /\ m.type = "gauge" /\ m.own # "total" => ~GetMetricName(Untyped(m), "").total
=============================================================================
