---------------------------- MODULE Distributions ----------------------------
(***************************************************************************)
(* The Distribution that the collector (exporter/collector/metrics.go) and *)
(* the SDK exporter (exporter/metric/metric.go) make of a histogram point. *)
(*                                                                         *)
(* A point is [count, sum, counts, bounds, exemplars]; an exponential one  *)
(* has zero, negative, positive and offset for counts and bounds.  Bounds  *)
(* are integers, a sum is <<integer>> or NaN, and a mean is the pair of    *)
(* its sum and count.                                                      *)
(***************************************************************************)
EXTENDS Integers, Sequences, FiniteSets, Functions, Sums

NaN == <<>>

Mean(p) == IF p.sum # NaN /\ p.count > 0 THEN <<p.sum[1], p.count>> ELSE <<0, 1>>

(* An exemplar is [value, span, trace, labels]; its attachments need both  *)
(* identifiers, and at least one label.  They are sorted by value; which   *)
(* of two equal ones is first, sort.Slice does not say.                    *)
exemplar(ex) ==
    [value |-> ex.value,
     attachments |-> {a \in {"SpanContext", "DroppedLabels"} :
                         IF a = "SpanContext" THEN ex.span /\ ex.trace ELSE ex.labels}]
Sorts(order, exs) ==
    \A m, n \in DOMAIN exs : m < n => exs[order[m]].value <= exs[order[n]].value
Exemplars(exs) ==
    LET order == CHOOSE f \in Injection(DOMAIN exs, DOMAIN exs) : Sorts(f, exs)
    IN  [n \in DOMAIN exs |-> exemplar(exs[order[n]])]

(* The deviation of the points of a bucket, taken to be in its middle, or  *)
(* at its lower bound if it has no upper one: times 4 * Mean[2]^2.         *)
LowerBound(bounds, n) == IF n = 1 THEN 0 ELSE bounds[n - 1]
Middle2(bounds, n) ==
    LowerBound(bounds, n) + IF n > Len(bounds) THEN LowerBound(bounds, n) ELSE bounds[n]
Squared(n) == n * n
Deviation(counts, bounds, mean) ==
    Total([n \in DOMAIN counts |-> counts[n] * Squared(Middle2(bounds, n) * mean[2] - 2 * mean[1])])

histogramPoint(p, EnableSumOfSquaredDeviation) ==
    [count     |-> p.count, mean |-> Mean(p), counts |-> p.counts,
     options   |-> [bounds |-> p.bounds],
     deviation |-> IF EnableSumOfSquaredDeviation THEN Deviation(p.counts, p.bounds, Mean(p)) ELSE 0,
     exemplars |-> Exemplars(p.exemplars)]

(* Zeros and negative values underflow, and nothing overflows; without a   *)
(* positive bucket there is an explicit bound at zero.  Bucket n of the    *)
(* finite ones starts at growth^(lowest + n - 1).                          *)
ExponentialCounts_NoZeros(p) == <<Total(p.negative)>> \o p.positive \o <<0>>
ExponentialCounts(p) == <<p.zero + Total(p.negative)>> \o p.positive \o <<0>>
ExponentialOptions(p) ==
    IF p.positive = <<>> THEN [bounds |-> <<0>>]
    ELSE [lowest |-> p.offset, finite |-> Len(p.positive)]
exponentialHistogramPoint(p) ==
    [count |-> p.count, mean |-> Mean(p), counts |-> ExponentialCounts(p),
     options |-> ExponentialOptions(p), deviation |-> 0, exemplars |-> Exemplars(p.exemplars)]

(* The SDK, whose code is its own.                                         *)
toDistributionExemplar(exs) == Exemplars(exs)
histToDistribution(p) ==
    [count |-> p.count, mean |-> Mean(p), counts |-> p.counts, options |-> [bounds |-> p.bounds],
     deviation |-> 0, exemplars |-> toDistributionExemplar(p.exemplars)]
setSumOfSquaredDeviation(p, dist) ==
    [dist EXCEPT !.deviation = @ + Deviation(dist.counts, p.bounds, dist.mean)]
expHistToDistribution(p) ==
    [count |-> p.count, mean |-> Mean(p),
     counts |-> <<p.zero + Total(p.negative)>> \o p.positive \o <<0>>,
     options |-> ExponentialOptions(p), deviation |-> 0,
     exemplars |-> toDistributionExemplar(p.exemplars)]
-----------------------------------------------------------------------------
(* Where the points of a distribution are: a bucket is [low, count], low   *)
(* being the exponent of its lower bound; nothing but zero and below is in *)
(* the first, and nothing in the last.                                     *)
FiniteBuckets(dist) ==
    {[low |-> dist.options.lowest + n - 1, count |-> dist.counts[n + 1]] :
        n \in 1..dist.options.finite}

(* A histogram loses no point on the way: the buckets add up to the count, *)
(* there is one more than bounds, an exponential bucket keeps its range,   *)
(* and collector and SDK write the same distribution, with exemplars in    *)
(* the order of their values.                                              *)
HistogramAddsUp(p) ==
    LET dist == histogramPoint(p, TRUE) IN
    /\ Total(dist.counts) = dist.count
    /\ Len(dist.counts) = Len(dist.options.bounds) + 1
    /\ dist = setSumOfSquaredDeviation(p, histToDistribution(p))
    /\ Cardinality(DOMAIN dist.exemplars) = Len(p.exemplars)
    /\ \A n \in 2..Len(dist.exemplars) : dist.exemplars[n - 1].value <= dist.exemplars[n].value
ExponentialAddsUp(p) ==
    LET dist == exponentialHistogramPoint(p) IN
    /\ Total(dist.counts) = dist.count /\ dist.counts[Len(dist.counts)] = 0
    /\ dist = expHistToDistribution(p)
    /\ IF p.positive = <<>> THEN Len(dist.counts) = Len(dist.options.bounds) + 1
       ELSE /\ Len(dist.counts) = dist.options.finite + 2
            /\ FiniteBuckets(dist) = {[low |-> p.offset + k - 1, count |-> p.positive[k]] :
                                         k \in DOMAIN p.positive}
=============================================================================
