---------------------------- MODULE MetricMapping ----------------------------
(***************************************************************************)
(* What the metrics exporter of the collector (exporter/collector/         *)
(* metrics.go) and the SDK exporter (exporter/metric/metric.go) make of    *)
(* one metric: its metric descriptors and its time series.                 *)
(*                                                                         *)
(* A metric is [type, monotonic, cumulative, unit, named, points]; named   *)
(* says whether GetMetricName gives a name.  A point is [value, noValue,   *)
(* hasSum, bounds, kept, quantiles, attrs], where kept is the answer of    *)
(* the normalizer and value is "int", "double" or "empty".  Attributes     *)
(* and labels are functions from keys to values.  The part of a series is  *)
(* the suffix of its name, "plain" when it has none.                       *)
(***************************************************************************)
EXTENDS Integers, Sequences, SequencesExt

(* sanitizeKey: all but letters and digits turn into underscores, and a    *)
(* digit in front gets the prefix key_.                                    *)
Keys == {"a.b", "a_b", "1a", "key_1a", "quantile", "service.name", "service_name",
         "instrumentation_source", "instrumentation_version"}
sanitizeKey(k) ==
    CASE k = "a.b" -> "a_b" [] k = "1a" -> "key_1a" [] k = "service.name" -> "service_name"
      [] OTHER -> k

(* Of keys that sanitize to the same label, the value of one is kept.      *)
attributesToLabels(attrs) ==
    [l \in {sanitizeKey(k) : k \in DOMAIN attrs} |->
        attrs[CHOOSE k \in DOMAIN attrs : sanitizeKey(k) = l]]

(* The labels of the resource: the service attributes that are not empty,  *)
(* and what a filter matches.  A service attribute that is empty is        *)
(* dropped though a filter matches it.                                     *)
filterAttributes(attrs, serviceLabels, filtered) ==
    [k \in {x \in DOMAIN attrs : IF serviceLabels /\ x = "service.name" THEN attrs[x] # ""
                                 ELSE x \in filtered} |-> attrs[k]]

(* The labels of others hide those of mergeInto.                           *)
mergeLabels(mergeInto, others) ==
    [k \in DOMAIN mergeInto \cup DOMAIN others |->
        IF k \in DOMAIN others THEN others[k] ELSE mergeInto[k]]
Label(key, value) == [k \in {key} |-> value]

NonEmptyLabel(key, value) == IF value = "" THEN << >> ELSE Label(key, value)
instrumentationScopeToLabels(scope, enabled) ==
    IF ~enabled THEN << >>
    ELSE mergeLabels(NonEmptyLabel("instrumentation_source", scope.name),
                     NonEmptyLabel("instrumentation_version", scope.version))

(* The labels that every series of a scope gets.                           *)
ExtraLabels(resourceAttrs, scope, config) ==
    mergeLabels(
        instrumentationScopeToLabels(scope, config.scopeLabels),
        attributesToLabels(filterAttributes(resourceAttrs, config.serviceLabels, config.filtered)))
-----------------------------------------------------------------------------
Distribution(m) == m.type \in {"histogram", "exponential"}

(* Non-monotonic sums are written as gauges; deltas as cumulatives.        *)
SeriesKind(m) ==
    IF m.type = "gauge" \/ (m.type = "sum" /\ ~m.monotonic) THEN "GAUGE" ELSE "CUMULATIVE"

(* convertToBoolIfMetricKindSupported                                      *)
AsBool(m, kind, p) == m.unit = "{gcp.BOOL}" /\ kind = "GAUGE" /\ p.value = "int"
numberDataPointToValue(m, kind, p) ==
    CASE AsBool(m, kind, p) -> "BOOL"
      [] ~AsBool(m, kind, p) /\ p.value = "int" -> "INT64"
      [] p.value # "int" -> "DOUBLE"

Normalized(m) ==
    \/ m.type = "summary"
    \/ Distribution(m) /\ m.cumulative
    \/ m.type = "sum" /\ m.monotonic /\ m.cumulative

(* The points without a series, though a retry may bring them again.       *)
Dropped(m, p) ==
    \/ p.noValue \/ ~m.named
    \/ m.type = "histogram" /\ (~p.hasSum \/ p.bounds = 0)
    \/ Normalized(m) /\ ~p.kept

Labelled_AttrsFirst(p, extra) == mergeLabels(extra, attributesToLabels(p.attrs))
Labelled(p, extra) == mergeLabels(attributesToLabels(p.attrs), extra)

(* A summary gives its sum, its count, and a gauge for each quantile.      *)
TotalSeries(p, extra, part) ==
    [part |-> part, kind |-> "CUMULATIVE", value |-> "DOUBLE", started |-> TRUE,
     labels |-> Labelled(p, extra)]
QuantileSeries(p, extra, q) ==
    [part |-> "plain", kind |-> "GAUGE", value |-> "DOUBLE", started |-> FALSE,
     labels |-> mergeLabels(Labelled(p, extra), Label("quantile", q))]
SummarySeries(p, extra) ==
    <<TotalSeries(p, extra, "_sum"), TotalSeries(p, extra, "_count")>>
        \o [q \in 1..p.quantiles |-> QuantileSeries(p, extra, q)]
PointSeries(m, p, extra) ==
    [part    |-> "plain",
     kind    |-> SeriesKind(m),
     value   |-> IF Distribution(m) THEN "DISTRIBUTION"
                 ELSE numberDataPointToValue(m, SeriesKind(m), p),
     started |-> SeriesKind(m) = "CUMULATIVE",
     labels  |-> Labelled(p, extra)]

pointToTimeSeries(m, p, extra) ==
    CASE Dropped(m, p) -> <<>>
      [] ~Dropped(m, p) /\ m.type = "summary" -> SummarySeries(p, extra)
      [] ~Dropped(m, p) /\ m.type # "summary" -> <<PointSeries(m, p, extra)>>
metricToTimeSeries(m, extra) ==
    FlattenSeq([n \in DOMAIN m.points |-> pointToTimeSeries(m, m.points[n], extra)])
-----------------------------------------------------------------------------
(* The value type of a descriptor is that of the first point; a sum is not *)
(* tried as a BOOL.                                                        *)
metricPointValueType(p) ==
    CASE p.value = "int" -> "INT64" [] p.value = "double" -> "DOUBLE" [] OTHER -> "UNSPECIFIED"
DescribedValue_LastPoint(m) ==
    CASE Distribution(m) -> "DISTRIBUTION"
      [] ~Distribution(m) /\ m.points = <<>> -> "UNSPECIFIED"
      [] OTHER -> metricPointValueType(m.points[Len(m.points)])
DescribedValue(m) ==
    CASE Distribution(m) -> "DISTRIBUTION"
      [] ~Distribution(m) /\ m.points = <<>> -> "UNSPECIFIED"
      [] OTHER -> IF m.type = "gauge" /\ AsBool(m, "GAUGE", m.points[1]) THEN "BOOL"
                  ELSE metricPointValueType(m.points[1])

(* The label descriptors are a list, here the bag of its keys: those of    *)
(* the extra labels, and those of the attributes of every point, dropped   *)
(* or not.  Only the attributes are checked for keys that are there.       *)
PointKeys(m, ns) == UNION {{sanitizeKey(k) : k \in DOMAIN m.points[n].attrs} : n \in ns}
ExtraKeys(extra) == {sanitizeKey(k) : k \in DOMAIN extra}
labelDescriptors_EachPoint(m, extra) ==
    SetToBag(ExtraKeys(extra)) (+) SetToBag(PointKeys(m, DOMAIN m.points \cap {1}))
        (+) SetToBag(PointKeys(m, DOMAIN m.points \ {1}))
labelDescriptors_FirstPoint(m, extra) ==
    SetToBag(ExtraKeys(extra)) (+) SetToBag(PointKeys(m, DOMAIN m.points \cap {1}))
labelDescriptors(m, extra) ==
    SetToBag(ExtraKeys(extra)) (+) SetToBag(PointKeys(m, DOMAIN m.points))

Descriptor(part, kind, value, labels) ==
    [part |-> part, kind |-> kind, value |-> value, labels |-> labels]
summaryMetricDescriptors(m, extra) ==
    LET labels == labelDescriptors(m, extra) IN
    {Descriptor("_sum", "CUMULATIVE", "DOUBLE", labels),
     Descriptor("_count", "CUMULATIVE", "DOUBLE", labels),
     Descriptor("plain", "GAUGE", "DOUBLE", labels (+) SetToBag({"quantile"}))}
metricDescriptor(m, extra) ==
    CASE ~m.named -> {}
      [] m.named /\ m.type = "summary" -> summaryMetricDescriptors(m, extra)
      [] m.named /\ m.type # "summary" ->
            IF DescribedValue(m) = "UNSPECIFIED" THEN {}
            ELSE {Descriptor("plain", SeriesKind(m), DescribedValue(m), labelDescriptors(m, extra))}
-----------------------------------------------------------------------------
(* The SDK.  All points of its metrics have the same type of value, the    *)
(* attributes of a point hide those of the resource, and it has neither    *)
(* summaries nor a descriptor of an exponential histogram.                 *)
InSDK(m) ==
    /\ m.type # "summary" /\ m.named /\ m.unit # "{gcp.BOOL}"
    /\ \A n \in DOMAIN m.points : m.points[n].value \in {"int", "double"}
                                    /\ m.points[n].value = m.points[1].value

recordToMdpbKindType(m) ==
    CASE m.type = "exponential" -> <<"UNSPECIFIED", "UNSPECIFIED">>
      [] m.type = "histogram" -> <<"CUMULATIVE", "DISTRIBUTION">>
      [] m.type \in {"gauge", "sum"} ->
            <<IF m.type = "sum" /\ m.monotonic THEN "CUMULATIVE" ELSE "GAUGE",
              IF m.points # <<>> /\ m.points[1].value = "double" THEN "DOUBLE" ELSE "INT64">>
SDKLabelDescriptors(m, extra) ==
    SetToBag(ExtraKeys(extra) \cup
        IF m.type = "exponential" THEN {} ELSE PointKeys(m, DOMAIN m.points))
recordToMdpb(m, extra) ==
    Descriptor("plain", recordToMdpbKindType(m)[1], recordToMdpbKindType(m)[2],
               SDKLabelDescriptors(m, extra))

SDKLabels(p, extra) == mergeLabels(attributesToLabels(extra), attributesToLabels(p.attrs))
recordToTspb(m, extra) ==
    [n \in DOMAIN m.points |->
        [part    |-> "plain",
         kind    |-> SeriesKind(m),
         value   |-> IF Distribution(m) THEN "DISTRIBUTION"
                     ELSE IF m.points[n].value = "int" THEN "INT64" ELSE "DOUBLE",
         started |-> SeriesKind(m) = "CUMULATIVE",
         labels  |-> SDKLabels(m.points[n], extra)]]

(* toNonemptyTimeIntervalpb, in microseconds: the end moves to a           *)
(* millisecond after the start when there is less than two between them.   *)
NonemptyEnd(start, end) == IF end - start < 2000 THEN start + 1000 ELSE end
-----------------------------------------------------------------------------
(* A series is legal under the descriptor of its name: same kind, no label *)
(* the descriptor lacks, and same type of value.                           *)
Fits(ts, d) ==
    ts.part = d.part => /\ ts.kind = d.kind /\ ts.value = d.value
                        /\ DOMAIN ts.labels \subseteq DOMAIN d.labels

(* A series, or a descriptor, with no more of its labels than their keys.  *)
Shape(ts) == [ts EXCEPT !.labels = DOMAIN @]

(* What a metric is described as is what its points are written as, by the *)
(* collector and by the SDK, which agree where both have the metric.  The  *)
(* exceptions: a metric that mixes types of values, or starts with a point *)
(* that has none, and a BOOL unit on an integer sum.                       *)
DescriptorsFitSeries(m, extra) ==
    LET series == Range(metricToTimeSeries(m, extra))
        values == {m.points[n].value : n \in DOMAIN m.points}
        Plain  == \/ Distribution(m) \/ m.type = "summary"
                  \/ /\ \A v, w \in values : v = w
                     /\ ~(m.type = "sum" /\ ~m.monotonic /\ m.unit = "{gcp.BOOL}")
    IN  /\ \A ts \in series : ts.started <=> ts.kind = "CUMULATIVE"
        /\ Plain => \A ts \in series, d \in metricDescriptor(m, extra) : Fits(ts, d)
        /\ series # {} /\ m.points[1].value # "empty" =>
              {ts.part : ts \in series} \subseteq {d.part : d \in metricDescriptor(m, extra)}
        /\ InSDK(m) =>
              /\ m.type # "exponential" =>
                    /\ \A ts \in Range(recordToTspb(m, extra)) : Fits(ts, recordToMdpb(m, extra))
                    /\ \A d \in metricDescriptor(m, extra) : Shape(d) = Shape(recordToMdpb(m, extra))
              /\ \A ts \in series : \E s \in Range(recordToTspb(m, extra)) :
                    Shape(ts) = Shape(s)

(* A label of the resource is on every series of the collector with the    *)
(* value of the resource, whatever the attributes of the point are, and an *)
(* interval the SDK writes is not empty.                                   *)
ResourceLabelsWin(m, extra) ==
    \A ts \in Range(metricToTimeSeries(m, extra)) :
        \A k \in DOMAIN extra \ {"quantile"} : ts.labels[k] = extra[k]
IntervalsNotEmpty(start, end) == NonemptyEnd(start, end) >= start + 1000

(* However many points have a label, a descriptor lists it once, but for   *)
(* those of the resource or scope and for the quantile of a summary, which *)
(* it may list once more for the points: a comment in labelDescriptors     *)
(* says that keys already set are skipped, and these are not.              *)
LabelsListed(m, extra) ==
    \A d \in metricDescriptor(m, extra) : \A key \in DOMAIN d.labels :
        \/ d.labels[key] = 1 \/ key \in ExtraKeys(extra)
        \/ key = "quantile" /\ m.type = "summary"
=============================================================================
