-------------------------- MODULE ProjectPush_proofs --------------------------
(***************************************************************************)
(* Proofs about ProjectPush for every payload, batch size and number of    *)
(* calls.                                                                  *)
(***************************************************************************)
EXTENDS ProjectPush, Recursion_proofs, FiniteSetTheorems
-----------------------------------------------------------------------------
(* What ExtraMetrics leaves of what was there: all of it, where it was.     *)
MetricKept(m, n) ==
    /\ n.name = m.name /\ n.type = m.type /\ n.unknown = m.unknown /\ n.monotonic = m.monotonic
    /\ DOMAIN n.points = DOMAIN m.points
    /\ \A x \in DOMAIN m.points : n.points[x].time = m.points[x].time
MetricsKept(ms, ns) == \A k \in DOMAIN ms : k \in DOMAIN ns /\ MetricKept(ms[k], ns[k])
ScopeKept(s, t) == t.scope = s.scope /\ MetricsKept(s.metrics, t.metrics)
ScopesKept(ss, ts) == \A j \in DOMAIN ss : j \in DOMAIN ts /\ ScopeKept(ss[j], ts[j])
ResourceKept(r, q) == q.project = r.project /\ q.id = r.id /\ ScopesKept(r.scopes, q.scopes)
Kept(d, e) == DOMAIN e = DOMAIN d /\ \A i \in DOMAIN d : ResourceKept(d[i], e[i])

(* What is the same is kept.                                               *)
LEMMA KeptSame ==
    /\ \A m : MetricKept(m, m)
    /\ \A ms : MetricsKept(ms, ms)
    /\ \A s : ScopeKept(s, s)
    /\ \A r : ResourceKept(r, r)
    /\ \A d : Kept(d, d)
<1>1. \A m : MetricKept(m, m)
  BY DEF MetricKept
<1>2. \A ms : MetricsKept(ms, ms)
  BY <1>1 DEF MetricsKept
<1>3. \A s : ScopeKept(s, s)
  BY <1>2 DEF ScopeKept
<1>4. \A r : ResourceKept(r, r)
  BY <1>3 DEF ResourceKept, ScopesKept
<1>5. \A d : Kept(d, d)
  BY <1>4 DEF Kept
<1> QED
  BY <1>1, <1>2, <1>3, <1>4, <1>5

(* What is kept twice is kept.                                             *)
LEMMA KeptTwice == \A d, e, f : Kept(d, e) /\ Kept(e, f) => Kept(d, f)
<1>1. \A a, b, c : MetricKept(a, b) /\ MetricKept(b, c) => MetricKept(a, c)
  BY DEF MetricKept
<1>2. \A a, b, c : MetricsKept(a, b) /\ MetricsKept(b, c) => MetricsKept(a, c)
  BY <1>1 DEF MetricsKept
<1>3. \A a, b, c : ScopeKept(a, b) /\ ScopeKept(b, c) => ScopeKept(a, c)
  BY <1>2 DEF ScopeKept
<1>4. \A a, b, c : ScopesKept(a, b) /\ ScopesKept(b, c) => ScopesKept(a, c)
  BY <1>3 DEF ScopesKept
<1>5. \A a, b, c : ResourceKept(a, b) /\ ResourceKept(b, c) => ResourceKept(a, c)
  BY <1>4 DEF ResourceKept
<1> QED
  BY <1>5 DEF Kept

(* What is put behind metrics leaves them where they are.                   *)
LEMMA KeptBehind ==
    ASSUME NEW ms \in Seq(Metrics), NEW ns \in Seq(Metrics), NEW more \in Seq(Metrics),
           DOMAIN ns = DOMAIN ms, MetricsKept(ms, ns)
    PROVE  MetricsKept(ms, ns \o more)
<1>1. \A k \in DOMAIN ns : k \in DOMAIN (ns \o more) /\ (ns \o more)[k] = ns[k]
  OBVIOUS
<1> QED
  BY <1>1 DEF MetricsKept

(* A resource is kept if its scopes are.                                   *)
LEMMA KeptByScopes ==
    ASSUME NEW r \in Resources, NEW ts \in Seq(Scopes), ScopesKept(r.scopes, ts)
    PROVE  ResourceKept(r, [r EXCEPT !.scopes = ts])
  BY DEF ResourceKept, Resources

(* The same for the metrics of a scope.                                    *)
LEMMA KeptByMetrics ==
    ASSUME NEW s \in Scopes, NEW ns \in Seq(Metrics), MetricsKept(s.metrics, ns)
    PROVE  ScopeKept(s, [s EXCEPT !.metrics = ns])
  BY DEF ScopeKept, Scopes

(* A change of the points of a metric that leaves their times.              *)
LEMMA KeptByPoints ==
    ASSUME NEW m \in Metrics, NEW ps, DOMAIN ps = DOMAIN m.points,
           \A x \in DOMAIN m.points : ps[x].time = m.points[x].time
    PROVE  MetricKept(m, [m EXCEPT !.points = ps])
<1> DEFINE n == [m EXCEPT !.points = ps]
<1>1. /\ n.name = m.name /\ n.type = m.type /\ n.unknown = m.unknown
      /\ n.monotonic = m.monotonic /\ n.points = ps
  <2> DEFINE P == Seq(Points)
  <2>1. m \in [name : Names, type : MetricTypes, unknown : BOOLEAN, monotonic : BOOLEAN, points : P]
    BY DEF Metrics
  <2> HIDE DEF P
  <2> QED
    BY <2>1
<1> HIDE DEF n
<1> QED
  BY <1>1 DEF MetricKept, n
-----------------------------------------------------------------------------
(* What ExtraMetrics makes of a payload is a payload, with all that was in *)
(* it.                                                                     *)

(* There is a latest time among points, which are finitely many.           *)
LEMMA LatestOf ==
    ASSUME NEW s \in Seq(Points)
    PROVE  Max({0} \cup {p.time : p \in Range(s)}) \in Nat
<1> DEFINE N == Len(s)
           Latest(n, x) == /\ x = 0 \/ \E i \in 1..n : x = s[i].time
                           /\ \A i \in 1..n : x >= s[i].time
           S == {n \in 0..N : \E x \in Nat : Latest(n, x)}
<1>1. N \in Nat /\ \A i \in 1..N : s[i].time \in Nat
  <2>1. N \in Nat /\ \A i \in 1..N : s[i] \in Points
    OBVIOUS
  <2>2. \A q \in Points : q.time \in Nat
    BY DEF Points
  <2> QED
    BY <2>1, <2>2
<1> HIDE DEF N
<1>2. 0 \in S
  <2>1. Latest(0, 0)
    OBVIOUS
  <2> HIDE DEF Latest
  <2> QED
    BY <1>1, <2>1
<1>3. ASSUME NEW n \in 0..N, n \in S, n < N PROVE n + 1 \in S
  <2>1. PICK x \in Nat : Latest(n, x)
    BY <1>3
  <2> DEFINE t == s[n + 1].time
             y == IF x >= t THEN x ELSE t
  <2>2. n + 1 \in 1..N /\ n + 1 \in 0..N /\ t \in Nat /\ y \in Nat
    BY <1>1, <1>3
  <2>3. \A i \in 1..(n + 1) : i \in 1..n \/ i = n + 1
    BY <2>2
  <2>4. \A i \in 1..n : i \in 1..(n + 1) /\ s[i].time \in Nat
    BY <1>1, <2>2
  <2>5. n + 1 \in 1..(n + 1)
    BY <2>2
  <2> HIDE DEF t
  <2>6. y = 0 \/ \E i \in 1..(n + 1) : y = s[i].time
    BY <2>1, <2>4, <2>5 DEF t
  <2>7. \A i \in 1..(n + 1) : y >= s[i].time
    <3> TAKE i \in 1..(n + 1)
    <3>1. CASE i = n + 1
      BY <2>2, <3>1 DEF t
    <3>2. CASE i \in 1..n
      <4>1. x >= s[i].time /\ s[i].time \in Nat
        BY <2>1, <2>4, <3>2
      <4> QED
        BY <2>2, <4>1
    <3> QED
      BY <2>3, <3>1, <3>2
  <2>8. Latest(n + 1, y)
    BY <2>6, <2>7
  <2> HIDE DEF Latest, y
  <2> QED
    BY <2>2, <2>8
<1>4. N \in S
  <2>1. \A n \in 0..N : n \in S /\ n < N => n + 1 \in S
    BY <1>3
  <2> HIDE DEF S
  <2>2. \A n \in 0..N : n \in S
    BY <1>1, <1>2, <2>1, Induction
  <2> QED
    BY <1>1, <2>2
<1>5. PICK x \in Nat : Latest(N, x)
  BY <1>4
<1> DEFINE T == {0} \cup {p.time : p \in Range(s)}
<1>6. DOMAIN s = 1..N
  BY DEF N
<1>7. x \in T /\ \A y \in T : x >= y
  BY <1>5, <1>6 DEF Range
<1>8. T \subseteq Nat
  BY <1>1, <1>6 DEF Range
<1> HIDE DEF T
<1>9. Max(T) \in T
  BY <1>7 DEF Max
<1> QED
  BY <1>8, <1>9 DEF T

(* The fields of a metric, and what makes one.                             *)
LEMMA MetricFields ==
    /\ \A m \in Metrics : m.points \in Seq(Points)
    /\ \A m \in Metrics : \A q \in Seq(Points) : [m EXCEPT !.points = q] \in Metrics
    /\ \A m \in Metrics : Untyped(m) \in Metrics
    /\ \A name \in Names : \A q \in Seq(Points) :
          [name |-> name, type |-> "gauge", unknown |-> FALSE, monotonic |-> FALSE, points |-> q]
             \in Metrics
<1> DEFINE P == Seq(Points)
<1> HIDE DEF P
<1>1. Metrics = [name : Names, type : MetricTypes, unknown : BOOLEAN, monotonic : BOOLEAN,
                  points : P]
  BY DEF Metrics, P
<1>2. \A m \in Metrics : m.points \in P
  BY <1>1
<1>3. \A m \in Metrics : \A q \in P : [m EXCEPT !.points = q] \in Metrics
  BY <1>1
<1>4. \A m \in Metrics : Untyped(m) \in Metrics
  <2> TAKE m \in Metrics
  <2>1. [m EXCEPT !.type = "sum"] \in Metrics
    BY <1>1 DEF MetricTypes
  <2>2. \A n \in Metrics : [n EXCEPT !.monotonic = TRUE] \in Metrics
    BY <1>1
  <2>3. Untyped(m) = [[m EXCEPT !.type = "sum"] EXCEPT !.monotonic = TRUE]
    BY DEF Untyped
  <2> QED
    BY <2>1, <2>2, <2>3
<1>5. \A name \in Names : \A q \in P :
         [name |-> name, type |-> "gauge", unknown |-> FALSE, monotonic |-> FALSE, points |-> q]
            \in Metrics
  BY <1>1 DEF MetricTypes
<1> QED
  BY <1>2, <1>3, <1>4, <1>5 DEF P

(* The metrics of a resource, and their latest time.                       *)
LEMMA LatestTime ==
    ASSUME NEW metrics \in Seq(Metrics)
    PROVE  latestTime(metrics) \in Nat
<1>1. \A k \in DOMAIN metrics : metrics[k].points \in Seq(Points)
  BY MetricFields
<1>2. [k \in DOMAIN metrics |-> metrics[k].points] \in Seq(Seq(Points))
  BY <1>1, OnSequence
<1>3. PointsOf(metrics) \in Seq(Points)
  BY <1>2, Flattened DEF PointsOf
<1> QED
  BY <1>3, LatestOf DEF latestTime

(* An info metric of that time.                                            *)
LEMMA InfoTyped ==
    ASSUME NEW name \in Names, NEW metrics \in Seq(Metrics), NEW scoped \in BOOLEAN
    PROVE  Info(name, latestTime(metrics), scoped) \in Metrics
<1> DEFINE point == [time |-> latestTime(metrics), scoped |-> scoped, int |-> TRUE]
<1>1. point \in Points
  BY LatestTime DEF Points
<1>2. <<point>> \in Seq(Points)
  BY <1>1
<1> HIDE DEF point
<1>3. Info(name, latestTime(metrics), scoped) =
         [name |-> name, type |-> "gauge", unknown |-> FALSE, monotonic |-> FALSE,
          points |-> <<point>>]
  BY DEF Info, point
<1> QED
  BY <1>2, <1>3, MetricFields

(* The fields of a scope, and what makes one.                              *)
LEMMA ScopeFields ==
    /\ \A s \in Scopes : s.metrics \in Seq(Metrics)
    /\ \A s \in Scopes : \A q \in Seq(Metrics) : [s EXCEPT !.metrics = q] \in Scopes
    /\ \A q \in Seq(Metrics) : [scope |-> "", metrics |-> q] \in Scopes
<1> DEFINE M == Seq(Metrics)
<1> HIDE DEF M
<1>1. Scopes = [scope : Names, metrics : M]
  BY DEF Scopes, M
<1>2. "" \in Names
  BY DEF Names
<1>3. \A s \in Scopes : s.metrics \in M
  BY <1>1
<1>4. \A s \in Scopes : \A q \in M : [s EXCEPT !.metrics = q] \in Scopes
  BY <1>1
<1>5. \A q \in M : [scope |-> "", metrics |-> q] \in Scopes
  BY <1>1, <1>2
<1> QED
  BY <1>3, <1>4, <1>5 DEF M

(* The same of a resource and its scopes.                                  *)
LEMMA ResourceFields ==
    /\ \A r \in Resources : r.scopes \in Seq(Scopes)
    /\ \A r \in Resources : \A q \in Seq(Scopes) : [r EXCEPT !.scopes = q] \in Resources
<1> DEFINE C == Seq(Scopes)
<1> HIDE DEF C
<1>1. Resources = [project : STRING, id : STRING, scopes : C]
  BY DEF Resources, C
<1>2. \A r \in Resources : r.scopes \in C
  BY <1>1
<1>3. \A r \in Resources : \A q \in C : [r EXCEPT !.scopes = q] \in Resources
  BY <1>1
<1> QED
  BY <1>2, <1>3 DEF C

(* The metrics of a scope with the sums of its unknown gauges.             *)
LEMMA UntypedTyped ==
    ASSUME NEW s \in Scopes
    PROVE  WithUntyped(s) \in Scopes /\ ScopeKept(s, WithUntyped(s))
<1>1. ASSUME NEW m \in Metrics PROVE UntypedCopies(m) \in Seq(Metrics)
  <2>1. m.points \in Seq(Points)
    BY MetricFields
  <2>2. ASSUME NEW n \in DOMAIN m.points
        PROVE  [Untyped(m) EXCEPT !.points = <<m.points[n]>>] \in Metrics
    <3>1. <<m.points[n]>> \in Seq(Points)
      BY <2>1, <2>2
    <3>2. Untyped(m) \in Metrics
      BY MetricFields
    <3> QED
      BY <3>1, <3>2, MetricFields
  <2>3. [n \in DOMAIN m.points |-> [Untyped(m) EXCEPT !.points = <<m.points[n]>>]] \in Seq(Metrics)
    BY <2>1, <2>2, OnSequence
  <2> QED
    BY <2>3 DEF UntypedCopies
<1> DEFINE metrics == s.metrics
<1>0. metrics \in Seq(Metrics)
  BY ScopeFields
<1> HIDE DEF metrics
<1>2. \A k \in DOMAIN metrics : UntypedCopies(metrics[k]) \in Seq(Metrics)
  BY <1>0, <1>1
<1>3. [k \in DOMAIN metrics |-> UntypedCopies(metrics[k])] \in Seq(Seq(Metrics))
  BY <1>0, <1>2, OnSequence
<1>4. FlattenSeq([k \in DOMAIN metrics |-> UntypedCopies(metrics[k])]) \in Seq(Metrics)
  BY <1>3, Flattened
<1> DEFINE new == metrics \o FlattenSeq([k \in DOMAIN metrics |-> UntypedCopies(metrics[k])])
<1>5. new \in Seq(Metrics)
  BY <1>0, <1>4
<1>6. WithUntyped(s) = [s EXCEPT !.metrics = new]
  BY DEF WithUntyped, metrics
<1>7. MetricsKept(metrics, new)
  BY <1>0, <1>4, KeptSame, KeptBehind
<1> HIDE DEF new
<1> QED
  BY <1>5, <1>6, <1>7, ScopeFields, KeptByMetrics DEF metrics

(* addUntypedMetrics, resource by resource.                                *)
LEMMA UntypedAdded ==
    ASSUME NEW d \in Seq(Resources)
    PROVE  addUntypedMetrics(d) \in Seq(Resources) /\ Kept(d, addUntypedMetrics(d))
<1> DEFINE Each(r) == [j \in DOMAIN r.scopes |-> WithUntyped(r.scopes[j])]
           After(r) == [r EXCEPT !.scopes = Each(r)]
<1>1. \A s \in Scopes : WithUntyped(s) \in Scopes /\ ScopeKept(s, WithUntyped(s))
  BY UntypedTyped
<1>2. \A r \in Resources : Each(r) \in Seq(Scopes) /\ ScopesKept(r.scopes, Each(r))
  <2> TAKE r \in Resources
  <2>1. r.scopes \in Seq(Scopes)
    BY ResourceFields
  <2>2. Each(r) \in [DOMAIN r.scopes -> Scopes]
    BY <1>1, <2>1
  <2>3. ScopesKept(r.scopes, Each(r))
    BY <1>1, <2>1 DEF ScopesKept
  <2> QED
    BY <2>1, <2>2, <2>3, OnSequence
<1> HIDE DEF Each
<1>3. \A r \in Resources : After(r) \in Resources /\ ResourceKept(r, After(r))
  BY <1>2, ResourceFields, KeptByScopes
<1> HIDE DEF After
<1>4. [i \in DOMAIN d |-> After(d[i])] \in [DOMAIN d -> Resources]
  BY <1>3
<1>5. addUntypedMetrics(d) = [i \in DOMAIN d |-> After(d[i])]
  BY DEF addUntypedMetrics, After, Each
<1>6. Kept(d, [i \in DOMAIN d |-> After(d[i])])
  BY <1>3 DEF Kept
<1> QED
  BY <1>4, <1>5, <1>6, OnSequence

(* addTargetInfoMetric: a scope more, of one info metric.                  *)
LEMMA TargetAdded ==
    ASSUME NEW d \in Seq(Resources)
    PROVE  addTargetInfoMetric(d) \in Seq(Resources) /\ Kept(d, addTargetInfoMetric(d))
<1> DEFINE Added(r) == [scope |-> "",
                        metrics |-> <<Info("target_info", latestTime(MetricsOf(r)), FALSE)>>]
           After(i) == IF FirstOfResource(d, i)
                       THEN [d[i] EXCEPT !.scopes = Append(@, Added(d[i]))] ELSE d[i]
<1>1. \A r \in Resources : Added(r) \in Scopes
  <2> TAKE r \in Resources
  <2>1. r.scopes \in Seq(Scopes)
    BY ResourceFields
  <2>2. [j \in DOMAIN r.scopes |-> r.scopes[j].metrics] \in [DOMAIN r.scopes -> Seq(Metrics)]
    <3>1. \A j \in DOMAIN r.scopes : r.scopes[j] \in Scopes
      BY <2>1
    <3>2. \A j \in DOMAIN r.scopes : r.scopes[j].metrics \in Seq(Metrics)
      BY <3>1, ScopeFields
    <3> QED
      BY <3>2
  <2>3. [j \in DOMAIN r.scopes |-> r.scopes[j].metrics] \in Seq(Seq(Metrics))
    BY <2>1, <2>2, OnSequence
  <2>4. MetricsOf(r) \in Seq(Metrics)
    BY <2>3, Flattened DEF MetricsOf
  <2>5. "target_info" \in Names
    BY DEF Names
  <2>6. Info("target_info", latestTime(MetricsOf(r)), FALSE) \in Metrics
    BY <2>4, <2>5, InfoTyped
  <2>7. <<Info("target_info", latestTime(MetricsOf(r)), FALSE)>> \in Seq(Metrics)
    BY <2>6, SingleSequence
  <2> QED
    BY <2>7, ScopeFields
<1> HIDE DEF Added
<1>2. \A i \in DOMAIN d : After(i) \in Resources /\ ResourceKept(d[i], After(i))
  <2> TAKE i \in DOMAIN d
  <2>1. d[i] \in Resources
    OBVIOUS
  <2>2. Append(d[i].scopes, Added(d[i])) \in Seq(Scopes)
    BY <1>1, <2>1, ResourceFields
  <2>3. [d[i] EXCEPT !.scopes = Append(d[i].scopes, Added(d[i]))] \in Resources
    BY <2>1, <2>2, ResourceFields
  <2>4. ScopesKept(d[i].scopes, Append(d[i].scopes, Added(d[i])))
    <3>1. d[i].scopes \in Seq(Scopes)
      BY <2>1, ResourceFields
    <3>2. \A j \in DOMAIN d[i].scopes :
             /\ j \in DOMAIN Append(d[i].scopes, Added(d[i]))
             /\ Append(d[i].scopes, Added(d[i]))[j] = d[i].scopes[j]
      BY <3>1
    <3> QED
      BY <3>2, KeptSame DEF ScopesKept
  <2>5. ResourceKept(d[i], [d[i] EXCEPT !.scopes = Append(d[i].scopes, Added(d[i]))])
    BY <2>1, <2>2, <2>4, KeptByScopes
  <2> QED
    BY <2>1, <2>3, <2>5, KeptSame
<1> HIDE DEF After
<1>3. [i \in DOMAIN d |-> After(i)] \in [DOMAIN d -> Resources]
  BY <1>2
<1>4. addTargetInfoMetric(d) = [i \in DOMAIN d |-> After(i)]
  BY DEF addTargetInfoMetric, After, Added
<1>5. Kept(d, [i \in DOMAIN d |-> After(i)])
  BY <1>2 DEF Kept
<1> QED
  BY <1>3, <1>4, <1>5, OnSequence

(* addScopeInfoMetric: labels on the points, an info metric more.          *)
LEMMA ScopeAdded ==
    ASSUME NEW d \in Seq(Resources)
    PROVE  addScopeInfoMetric(d) \in Seq(Resources) /\ Kept(d, addScopeInfoMetric(d))
<1>1. ASSUME NEW metrics \in Seq(Metrics)
      PROVE  /\ Scoped(metrics) \in Seq(Metrics) /\ DOMAIN Scoped(metrics) = DOMAIN metrics
             /\ MetricsKept(metrics, Scoped(metrics))
  <2> DEFINE After(m) == [m EXCEPT !.points = [n \in DOMAIN @ |-> [@[n] EXCEPT !.scoped = TRUE]]]
  <2>1. ASSUME NEW m \in Metrics PROVE After(m) \in Metrics /\ MetricKept(m, After(m))
    <3>1. m.points \in Seq(Points)
      BY MetricFields
    <3>2. \A p \in Points : [p EXCEPT !.scoped = TRUE] \in Points
      BY DEF Points
    <3>3. [n \in DOMAIN m.points |-> [m.points[n] EXCEPT !.scoped = TRUE]]
           \in [DOMAIN m.points -> Points]
      BY <3>1, <3>2
    <3>4. [n \in DOMAIN m.points |-> [m.points[n] EXCEPT !.scoped = TRUE]] \in Seq(Points)
      BY <3>1, <3>3, OnSequence
    <3>5. \A p \in Points : [p EXCEPT !.scoped = TRUE].time = p.time
      BY DEF Points
    <3>6. \A n \in DOMAIN m.points : [m.points[n] EXCEPT !.scoped = TRUE].time = m.points[n].time
      BY <3>1, <3>5
    <3>7. MetricKept(m, After(m))
      BY <3>6, KeptByPoints
    <3> QED
      BY <3>4, <3>7, MetricFields
  <2> HIDE DEF After
  <2>2. [k \in DOMAIN metrics |-> After(metrics[k])] \in [DOMAIN metrics -> Metrics]
    BY <2>1
  <2>3. Scoped(metrics) = [k \in DOMAIN metrics |-> After(metrics[k])]
    BY DEF Scoped, After
  <2>4. MetricsKept(metrics, [k \in DOMAIN metrics |-> After(metrics[k])])
    BY <2>1 DEF MetricsKept
  <2> QED
    BY <2>2, <2>3, <2>4, OnSequence
<1>2. ASSUME NEW i \in DOMAIN d, NEW j \in DOMAIN d[i].scopes
      PROVE  WithScope(d, i, j) \in Scopes /\ ScopeKept(d[i].scopes[j], WithScope(d, i, j))
  <2> DEFINE s == d[i].scopes[j]
             info == Info("otel_scope_info", latestTime(s.metrics), TRUE)
  <2>1. s \in Scopes
    BY ResourceFields
  <2>2. s.metrics \in Seq(Metrics)
    BY <2>1, ScopeFields
  <2>3. "otel_scope_info" \in Names
    BY DEF Names
  <2>4. info \in Metrics
    BY <2>2, <2>3, InfoTyped
  <2> DEFINE new == Scoped(s.metrics) \o IF FirstOfScope(d, i, j) THEN <<info>> ELSE <<>>
  <2>5. new \in Seq(Metrics)
    <3>1. Scoped(s.metrics) \in Seq(Metrics)
      BY <1>1, <2>2
    <3>2. <<info>> \in Seq(Metrics)
      BY <2>4, SingleSequence
    <3>3. \A a, b \in Seq(Metrics) : a \o b \in Seq(Metrics) /\ a \o <<>> \in Seq(Metrics)
      OBVIOUS
    <3> HIDE DEF info
    <3> QED
      BY <3>1, <3>2, <3>3
  <2>6. [s EXCEPT !.metrics = new] \in Scopes
    BY <2>1, <2>5, ScopeFields
  <2>7. MetricsKept(s.metrics, new)
    <3>1. \A q \in Seq(Metrics) : q \o <<>> = q
      OBVIOUS
    <3>2. <<info>> \in Seq(Metrics)
      BY <2>4, SingleSequence
    <3> HIDE DEF info
    <3>3. MetricsKept(s.metrics, Scoped(s.metrics) \o <<info>>)
      BY <1>1, <2>2, <3>2, KeptBehind
    <3>4. MetricsKept(s.metrics, Scoped(s.metrics) \o <<>>)
      BY <1>1, <2>2, <3>1
    <3> QED
      BY <3>3, <3>4
  <2>8. ScopeKept(s, [s EXCEPT !.metrics = new])
    BY <2>1, <2>5, <2>7, KeptByMetrics
  <2> QED
    BY <2>1, <2>6, <2>8, KeptSame DEF WithScope
<1> DEFINE Each(i) == [j \in DOMAIN d[i].scopes |-> WithScope(d, i, j)]
           After(i) == [d[i] EXCEPT !.scopes = Each(i)]
<1>3. \A i \in DOMAIN d : Each(i) \in Seq(Scopes) /\ ScopesKept(d[i].scopes, Each(i))
  <2> TAKE i \in DOMAIN d
  <2>1. d[i].scopes \in Seq(Scopes)
    BY ResourceFields
  <2>2. Each(i) \in [DOMAIN d[i].scopes -> Scopes]
    BY <1>2
  <2>3. ScopesKept(d[i].scopes, Each(i))
    BY <1>2 DEF ScopesKept
  <2> QED
    BY <2>1, <2>2, <2>3, OnSequence
<1> HIDE DEF Each
<1>4. \A i \in DOMAIN d : After(i) \in Resources /\ ResourceKept(d[i], After(i))
  BY <1>3, ResourceFields, KeptByScopes
<1> HIDE DEF After
<1>5. [i \in DOMAIN d |-> After(i)] \in [DOMAIN d -> Resources]
  BY <1>4
<1>6. addScopeInfoMetric(d) = [i \in DOMAIN d |-> After(i)]
  BY DEF addScopeInfoMetric, After, Each
<1>7. Kept(d, [i \in DOMAIN d |-> After(i)])
  BY <1>4 DEF Kept
<1> QED
  BY <1>5, <1>6, <1>7, OnSequence

(* convertIntToDouble touches the values of points alone.                  *)
LEMMA ConvertedTyped ==
    ASSUME NEW d \in Seq(Resources)
    PROVE  convertIntToDouble(d) \in Seq(Resources) /\ Kept(d, convertIntToDouble(d))
<1>1. ASSUME NEW m \in Metrics PROVE Converted(m) \in Metrics /\ MetricKept(m, Converted(m))
  <2>1. m.points \in Seq(Points)
    BY MetricFields
  <2>2. \A p \in Points : [p EXCEPT !.int = FALSE] \in Points
    BY DEF Points
  <2>3. [n \in DOMAIN m.points |-> [m.points[n] EXCEPT !.int = FALSE]]
           \in [DOMAIN m.points -> Points]
    BY <2>1, <2>2
  <2>4. [n \in DOMAIN m.points |-> [m.points[n] EXCEPT !.int = FALSE]] \in Seq(Points)
    BY <2>1, <2>3, OnSequence
  <2>5. \A p \in Points : [p EXCEPT !.int = FALSE].time = p.time
    BY DEF Points
  <2>6. \A n \in DOMAIN m.points : [m.points[n] EXCEPT !.int = FALSE].time = m.points[n].time
    BY <2>1, <2>5
  <2>7. MetricKept(m, [m EXCEPT !.points = [n \in DOMAIN @ |-> [@[n] EXCEPT !.int = FALSE]]])
    BY <2>6, KeptByPoints
  <2> QED
    BY <2>4, <2>7, MetricFields, KeptSame DEF Converted
<1> DEFINE All(s) == [k \in DOMAIN s.metrics |-> Converted(s.metrics[k])]
           Each(r) == [j \in DOMAIN r.scopes |-> AllConverted(r.scopes[j])]
           After(r) == [r EXCEPT !.scopes = Each(r)]
<1>2. \A s \in Scopes : All(s) \in Seq(Metrics) /\ MetricsKept(s.metrics, All(s))
  <2> TAKE s \in Scopes
  <2>1. s.metrics \in Seq(Metrics)
    BY ScopeFields
  <2>2. All(s) \in [DOMAIN s.metrics -> Metrics]
    BY <1>1, <2>1
  <2>3. MetricsKept(s.metrics, All(s))
    BY <1>1, <2>1 DEF MetricsKept
  <2> QED
    BY <2>1, <2>2, <2>3, OnSequence
<1>3. \A s \in Scopes : AllConverted(s) \in Scopes /\ ScopeKept(s, AllConverted(s))
  <2> TAKE s \in Scopes
  <2>1. AllConverted(s) = [s EXCEPT !.metrics = All(s)]
    BY DEF AllConverted
  <2> HIDE DEF All
  <2> QED
    BY <1>2, <2>1, ScopeFields, KeptByMetrics
<1> HIDE DEF All
<1>4. \A r \in Resources : Each(r) \in Seq(Scopes) /\ ScopesKept(r.scopes, Each(r))
  <2> TAKE r \in Resources
  <2>1. r.scopes \in Seq(Scopes)
    BY ResourceFields
  <2>2. Each(r) \in [DOMAIN r.scopes -> Scopes]
    BY <1>3, <2>1
  <2>3. ScopesKept(r.scopes, Each(r))
    BY <1>3, <2>1 DEF ScopesKept
  <2> QED
    BY <2>1, <2>2, <2>3, OnSequence
<1> HIDE DEF Each
<1>5. \A r \in Resources : After(r) \in Resources /\ ResourceKept(r, After(r))
  BY <1>4, ResourceFields, KeptByScopes
<1> HIDE DEF After
<1>6. [i \in DOMAIN d |-> After(d[i])] \in [DOMAIN d -> Resources]
  BY <1>5
<1>7. convertIntToDouble(d) = [i \in DOMAIN d |-> After(d[i])]
  BY DEF convertIntToDouble, After, Each
<1>8. Kept(d, [i \in DOMAIN d |-> After(d[i])])
  BY <1>5 DEF Kept
<1> QED
  BY <1>6, <1>7, <1>8, OnSequence

(* ExtraMetrics, whichever of the four the config asks for.                *)
LEMMA ExtraTyped ==
    ASSUME NEW d \in Seq(Resources), NEW config \in Configs
    PROVE  ExtraMetrics(d, config) \in Seq(Resources) /\ Kept(d, ExtraMetrics(d, config))
<1> DEFINE untyped == addUntypedMetrics(d)
           target == IF config.targetInfo THEN addTargetInfoMetric(untyped) ELSE untyped
           scope == IF config.scopeInfo THEN addScopeInfoMetric(target) ELSE target
<1>1. untyped \in Seq(Resources) /\ Kept(d, untyped)
  BY UntypedAdded
<1> HIDE DEF untyped
<1>2. target \in Seq(Resources) /\ Kept(d, target)
  BY <1>1, TargetAdded, KeptTwice
<1> HIDE DEF target
<1>3. scope \in Seq(Resources) /\ Kept(d, scope)
  BY <1>2, ScopeAdded, KeptTwice
<1> HIDE DEF scope
<1>4. convertIntToDouble(scope) \in Seq(Resources) /\ Kept(d, convertIntToDouble(scope))
  BY <1>3, ConvertedTyped, KeptTwice
<1> QED
  BY <1>3, <1>4 DEF ExtraMetrics, scope, target, untyped
-----------------------------------------------------------------------------
(* The places of a payload, and their division by project.                 *)

(* The places of a metric, a scope, a resource and a payload: a sequence,   *)
(* in which each of them is, once.                                          *)
Four == Nat \X Nat \X Nat \X Nat
InMetric(d, i, j, k) == [n \in DOMAIN d[i].scopes[j].metrics[k].points |-> <<i, j, k, n>>]
InScope(d, i, j) == FlattenSeq([k \in DOMAIN d[i].scopes[j].metrics |-> InMetric(d, i, j, k)])
InResource(d, i) == FlattenSeq([j \in DOMAIN d[i].scopes |-> InScope(d, i, j)])
Listed(s, P) == s \in Seq(Four) /\ IsInjective(s) /\ Range(s) = P
OfMetric(d, i, j, k) == {<<i, j, k, n>> : n \in DOMAIN d[i].scopes[j].metrics[k].points}
OfScope(d, i, j) == UNION {OfMetric(d, i, j, k) : k \in DOMAIN d[i].scopes[j].metrics}
OfResource(d, i) == UNION {OfScope(d, i, j) : j \in DOMAIN d[i].scopes}
PlacesIn(d) == UNION {OfResource(d, i) : i \in DOMAIN d}

(* Lists of sets that have nothing in common make a list of their union.    *)
LEMMA ListedTogether ==
    ASSUME NEW seqs, NEW m \in Nat, DOMAIN seqs = 1..m, seqs = [i \in 1..m |-> seqs[i]],
           NEW P, \A i \in 1..m : Listed(seqs[i], P[i]),
           \A i, j \in 1..m : \A x : x \in P[i] /\ x \in P[j] => i = j
    PROVE  Listed(FlattenSeq(seqs), UNION {P[i] : i \in 1..m})
<1>1. seqs \in [1..m -> Seq(Four)]
  BY DEF Listed
<1>2. seqs \in Seq(Seq(Four)) /\ Len(seqs) = m
  <2> DEFINE D == Seq(Four)
  <2>1. seqs \in [1..m -> D]
    BY <1>1
  <2> HIDE DEF D
  <2>2. seqs \in Seq(D) /\ Len(seqs) = m
    BY <2>1
  <2> QED
    BY <2>2 DEF D
<1>8. \A i \in 1..m : IsInjective(seqs[i]) /\ Range(seqs[i]) = P[i]
  BY DEF Listed
<1>3. Apart(seqs)
  <2>1. \A i \in 1..m : IsInjective(seqs[i])
    BY <1>8
  <2>2. \A i, j \in 1..m : \A x : x \in Range(seqs[i]) /\ x \in Range(seqs[j]) => i = j
    BY <1>8
  <2>3. Len(seqs) = m
    BY <1>2
  <2> QED
    BY <2>1, <2>2, <2>3 DEF Apart
<1>4. FlattenSeq(seqs) \in Seq(Four)
  BY <1>2, Flattened
<1>5. IsInjective(FlattenSeq(seqs))
  BY <1>2, <1>3, FlattenedOnce
<1>6. \A x : x \in Range(FlattenSeq(seqs)) <=> \E i \in 1..m : x \in P[i]
  <2>1. \A x : x \in Range(FlattenSeq(seqs)) <=> \E i \in 1..Len(seqs) : x \in Range(seqs[i])
    BY <1>2, FlattenedRange
  <2> QED
    <3>1. Len(seqs) = m
      BY <1>2
    <3>2. \A x : (\E i \in 1..m : x \in Range(seqs[i])) <=> \E i \in 1..m : x \in P[i]
      BY <1>8, Zenon
    <3> QED
      BY <2>1, <3>1, <3>2, Zenon
<1>7. Range(FlattenSeq(seqs)) = UNION {P[i] : i \in 1..m}
  BY <1>6
<1> QED
  BY <1>4, <1>5, <1>7 DEF Listed

(* The points of a metric have their places in a list,                     *)
LEMMA MetricListed ==
    ASSUME NEW d \in Seq(Resources), NEW i \in DOMAIN d, NEW j \in DOMAIN d[i].scopes,
           NEW k \in DOMAIN d[i].scopes[j].metrics
    PROVE  Listed(InMetric(d, i, j, k), OfMetric(d, i, j, k))
<1> DEFINE ps == d[i].scopes[j].metrics[k].points
<1>1. i \in Nat /\ d[i] \in Resources
  OBVIOUS
<1>2. d[i].scopes \in Seq(Scopes)
  BY <1>1, ResourceFields
<1>3. j \in Nat /\ d[i].scopes[j] \in Scopes
  BY <1>2
<1>4. d[i].scopes[j].metrics \in Seq(Metrics)
  BY <1>3, ScopeFields
<1>5. k \in Nat /\ d[i].scopes[j].metrics[k] \in Metrics
  BY <1>4
<1>6. ps \in Seq(Points)
  BY <1>5, MetricFields
<1> HIDE DEF ps
<1>7. \A n \in DOMAIN ps : <<i, j, k, n>> \in Four
  BY <1>1, <1>3, <1>5, <1>6 DEF Four
<1> DEFINE s == [n \in DOMAIN ps |-> <<i, j, k, n>>]
<1>8. s \in [DOMAIN ps -> Four]
  BY <1>7
<1>9. s \in Seq(Four)
  BY <1>6, <1>8, OnSequence
<1>10. IsInjective(s)
  BY DEF IsInjective
<1>11. Range(s) = {<<i, j, k, n>> : n \in DOMAIN ps}
  BY DEF Range
<1> QED
  BY <1>9, <1>10, <1>11 DEF Listed, InMetric, OfMetric, ps

(* and so those of a scope,                                                *)
LEMMA ScopeListed ==
    ASSUME NEW d \in Seq(Resources), NEW i \in DOMAIN d, NEW j \in DOMAIN d[i].scopes
    PROVE  Listed(InScope(d, i, j), OfScope(d, i, j))
<1> DEFINE ms == d[i].scopes[j].metrics
           seqs == [k \in DOMAIN ms |-> InMetric(d, i, j, k)]
           P == [k \in DOMAIN ms |-> OfMetric(d, i, j, k)]
<1>1. d[i].scopes \in Seq(Scopes)
  BY ResourceFields
<1>2. ms \in Seq(Metrics)
  <2>1. d[i].scopes[j] \in Scopes
    BY <1>1
  <2> QED
    BY <2>1, ScopeFields
<1>3. PICK m \in Nat : DOMAIN ms = 1..m
  BY <1>2
<1>4. \A k \in 1..m : Listed(seqs[k], P[k])
  BY <1>3, MetricListed
<1>5. \A k, l \in 1..m : \A x : x \in P[k] /\ x \in P[l] => k = l
  BY <1>3 DEF OfMetric
<1>6. DOMAIN seqs = 1..m /\ seqs = [k \in 1..m |-> seqs[k]]
  BY <1>3
<1>7. {P[k] : k \in 1..m} = {OfMetric(d, i, j, k) : k \in DOMAIN ms}
  BY <1>3
<1> HIDE DEF seqs, P
<1>8. Listed(FlattenSeq(seqs), UNION {P[k] : k \in 1..m})
  BY <1>4, <1>5, <1>6, ListedTogether, SMTT(30)
<1> QED
  BY <1>7, <1>8 DEF InScope, OfScope, seqs

(* of a resource,                                                          *)
LEMMA ResourceListed ==
    ASSUME NEW d \in Seq(Resources), NEW i \in DOMAIN d
    PROVE  Listed(InResource(d, i), OfResource(d, i))
<1> DEFINE ss == d[i].scopes
           seqs == [j \in DOMAIN ss |-> InScope(d, i, j)]
           P == [j \in DOMAIN ss |-> OfScope(d, i, j)]
<1>1. ss \in Seq(Scopes)
  BY ResourceFields
<1>2. PICK m \in Nat : DOMAIN ss = 1..m
  BY <1>1
<1>3. \A j \in 1..m : Listed(seqs[j], P[j])
  BY <1>2, ScopeListed
<1>4. \A j, l \in 1..m : \A x : x \in P[j] /\ x \in P[l] => j = l
  <2>1. \A j \in DOMAIN ss : \A x \in OfScope(d, i, j) : x[2] = j
    BY DEF OfScope, OfMetric
  <2> QED
    BY <1>2, <2>1
<1>5. DOMAIN seqs = 1..m /\ seqs = [j \in 1..m |-> seqs[j]]
  BY <1>2
<1>6. {P[j] : j \in 1..m} = {OfScope(d, i, j) : j \in DOMAIN ss}
  BY <1>2
<1> HIDE DEF seqs, P
<1>7. Listed(FlattenSeq(seqs), UNION {P[j] : j \in 1..m})
  BY <1>3, <1>4, <1>5, ListedTogether, SMTT(30)
<1> QED
  BY <1>6, <1>7 DEF InResource, OfResource, seqs

(* and of a payload.                                                       *)
LEMMA PayloadListed ==
    ASSUME NEW d \in Seq(Resources)
    PROVE  Listed(Series(d), PlacesIn(d))
<1> DEFINE seqs == [i \in DOMAIN d |-> InResource(d, i)]
           P == [i \in DOMAIN d |-> OfResource(d, i)]
<1>1. PICK m \in Nat : DOMAIN d = 1..m
  OBVIOUS
<1>2. \A i \in 1..m : Listed(seqs[i], P[i])
  BY <1>1, ResourceListed
<1>3. \A i, l \in 1..m : \A x : x \in P[i] /\ x \in P[l] => i = l
  <2>1. \A i \in DOMAIN d : \A x \in OfResource(d, i) : x[1] = i
    BY DEF OfResource, OfScope, OfMetric
  <2> QED
    BY <1>1, <2>1
<1>4. DOMAIN seqs = 1..m /\ seqs = [i \in 1..m |-> seqs[i]]
  BY <1>1
<1>5. {P[i] : i \in 1..m} = {OfResource(d, i) : i \in DOMAIN d}
  BY <1>1
<1>6. FlattenSeq(seqs) = Series(d)
  BY DEF Series, seqs, InResource, InScope, InMetric
<1> HIDE DEF seqs, P
<1>7. Listed(FlattenSeq(seqs), UNION {P[i] : i \in 1..m})
  BY <1>2, <1>3, <1>4, ListedTogether
<1> QED
  BY <1>5, <1>6, <1>7 DEF PlacesIn

(* Every point of a payload, what ExtraMetrics adds included, becomes one    *)
(* time series, and nothing else does.                                      *)
THEOREM EveryPointOnce ==
    ASSUME NEW d \in Seq(Resources)
    PROVE  IsInjective(Series(d)) /\ Range(Series(d)) = PlacesIn(d)
<1>1. Listed(Series(d), PlacesIn(d))
  BY PayloadListed
<1> QED
  BY <1>1 DEF Listed

(* Each place is in the group of its project, and nothing else is.         *)
LEMMA GroupedByProject ==
    ASSUME NEW d \in Seq(Resources)
    PROVE  LET all == ByProject(d)
           IN  /\ all = [p \in DOMAIN all |-> all[p]]
               /\ \A p \in DOMAIN all : all[p] \in Seq(Nat)
               /\ \A p \in DOMAIN all : \A n \in Range(all[p]) :
                     d[Series(d)[n][1]].project \in {p, ""}
               /\ UNION {Range(all[p]) : p \in DOMAIN all} = DOMAIN Series(d)
<1> DEFINE series == Series(d)
           N == Len(series)
           keys == [n \in DOMAIN series |-> ProjectOf(d, series[n])]
           all == ByProject(d)
<1>1. N \in Nat /\ DOMAIN series = 1..N /\ Len(keys) = N
  <2>1. series \in Seq(Four)
    BY PayloadListed DEF Listed
  <2> HIDE DEF series
  <2>2. keys \in [DOMAIN series -> {ProjectOf(d, series[n]) : n \in DOMAIN series}]
    OBVIOUS
  <2> HIDE DEF keys
  <2> QED
    BY <2>1, <2>2, OnSequence
<1>2. all = [p \in Range(keys) |-> PlacesOf(p, keys)]
  BY DEF ByProject
<1>3. \A n \in 1..N : keys[n] = ProjectOf(d, series[n])
  BY <1>1
<1>4. DOMAIN all = Range(keys) /\ \A p \in DOMAIN all : all[p] = PlacesOf(p, keys)
  BY <1>2
<1>5. DOMAIN keys = 1..N
  BY <1>1
<1> HIDE DEF all, keys, N, series
<1>6. \A p \in DOMAIN all : /\ all[p] \in Seq(1..N)
                            /\ \A i \in 1..Len(all[p]) : keys[all[p][i]] = p
                            /\ \A k \in 1..N : keys[k] = p => \E i \in 1..Len(all[p]) : all[p][i] = k
  <2> TAKE p \in DOMAIN all
  <2>1. /\ PlacesOf(p, keys) \in Seq(1..N)
        /\ \A i \in 1..Len(PlacesOf(p, keys)) : keys[PlacesOf(p, keys)[i]] = p
        /\ \A k \in 1..N : keys[k] = p =>
              \E i \in 1..Len(PlacesOf(p, keys)) : PlacesOf(p, keys)[i] = k
    BY <1>1, PlacesUnderKey, ZenonT(30)
  <2> QED
    BY <1>4, <2>1
<1>7. \A p \in DOMAIN all : all[p] \in Seq(Nat)
  BY <1>1, <1>6
<1>8. \A p \in DOMAIN all : \A n \in Range(all[p]) : n \in 1..N /\ keys[n] = p
  <2> TAKE p \in DOMAIN all
  <2>1. DOMAIN all[p] = 1..Len(all[p]) /\ \A i \in 1..Len(all[p]) : all[p][i] \in 1..N
    BY <1>6, InSequence
  <2>2. \A i \in DOMAIN all[p] : all[p][i] \in 1..N /\ keys[all[p][i]] = p
    BY <1>6, <2>1
  <2> QED
    BY <2>2 DEF Range
<1>9. \A p \in DOMAIN all : \A n \in Range(all[p]) : d[series[n][1]].project \in {p, ""}
  BY <1>3, <1>8 DEF ProjectOf
<1>10. \A n \in 1..N : \E p \in DOMAIN all : n \in Range(all[p])
  <2> TAKE n \in 1..N
  <2>1. keys[n] \in DOMAIN all
    BY <1>4, <1>5 DEF Range
  <2>2. PICK i \in 1..Len(all[keys[n]]) : all[keys[n]][i] = n
    BY <1>6, <2>1
  <2>3. n \in Range(all[keys[n]])
    BY <1>6, <2>1, <2>2 DEF Range
  <2> QED
    BY <2>1, <2>3
<1>11. UNION {Range(all[p]) : p \in DOMAIN all} = 1..N
  BY <1>8, <1>10
<1>12. all = [p \in DOMAIN all |-> all[p]]
  BY <1>2, <1>4
<1> QED
  BY <1>1, <1>7, <1>9, <1>11, <1>12 DEF all, series, N

(* No project has anything of an empty payload.                            *)
LEMMA NothingGrouped == \A p \in DOMAIN ByProject(<<>>) : FALSE
<1>1. <<>> \in Seq(Resources)
  OBVIOUS
<1>2. \A i \in DOMAIN <<>> : FALSE
  OBVIOUS
<1> DEFINE none == [i \in DOMAIN <<>> |-> <<>>]
<1>3. Len(Series(<<>>)) = 0
  <2> DEFINE R(i) == FlattenSeq([j \in DOMAIN (<<>>)[i].scopes |->
                  FlattenSeq([k \in DOMAIN (<<>>)[i].scopes[j].metrics |->
                     [n \in DOMAIN (<<>>)[i].scopes[j].metrics[k].points |-> <<i, j, k, n>>]])])
  <2>1. Series(<<>>) = FlattenSeq([i \in DOMAIN <<>> |-> R(i)])
    BY DEF Series
  <2> HIDE DEF R
  <2>2. Len([i \in DOMAIN <<>> |-> R(i)]) = 0
    BY <1>2
  <2> QED
    BY <2>1, <2>2 DEF FlattenSeq
<1>4. DOMAIN Series(<<>>) = {}
  BY <1>1, <1>3, PayloadListed DEF Listed
<1>5. ASSUME NEW p \in DOMAIN ByProject(<<>>) PROVE FALSE
  BY <1>4, <1>5 DEF ByProject, Range
<1> QED
  BY <1>5
-----------------------------------------------------------------------------
(* The inductive invariant.  Between its two ends a call has each project's*)
(* places either sent or pending, in the order of the payload (Whole); a   *)
(* project that a request went to has nothing pending, unless it is open   *)
(* (Closed), and then the last request went to it and something is left    *)
(* (Opened); and before the first call, and after the last batch of each,  *)
(* nothing is pending.                                                     *)
Whole ==
    LET all == ByProject(given)
    IN  /\ DOMAIN pending = DOMAIN all /\ DOMAIN sentNow = DOMAIN all
        /\ \A p \in DOMAIN all : /\ pending[p] \in Seq(Nat) /\ sentNow[p] \in Seq(Nat)
                                 /\ sentNow[p] \o pending[p] = all[p]
OneByOne == \A a, b, c \in DOMAIN visits :
                a < b /\ b < c /\ visits[a] = visits[c] => visits[b] = visits[a]
Closed == \A n \in DOMAIN visits : pending[visits[n]] = <<>> \/ visits[n] \in open
Opened == open # {} => /\ visits # <<>> /\ open = {visits[Len(visits)]}
                       /\ pending[visits[Len(visits)]] # <<>>
PInv ==
    /\ push \in Pushes /\ given \in Seq(Resources) /\ pushPc \in {"returned", "sending"}
    /\ Kept(push.payload, given)
    /\ visits \in Seq(DOMAIN pending)
    /\ pushPc = "returned" => open = {} /\ \A p \in DOMAIN pending : pending[p] = <<>>
    /\ pushPc = "sending" => answer = "none"
    /\ pushPc = "sending" \/ answer = "ok" => Whole
    /\ pushPc = "sending" => OneByOne /\ Closed /\ Opened
    /\ (pushPc = "sending" /\ ~erred) \/ answer = "ok" => unsure = {}

(* What is sent next, is behind what was sent, and before the rest.        *)
LEMMA SentNext ==
    ASSUME NEW s \in Seq(Nat), NEW t \in Seq(Nat), NEW e \in 0..Len(t)
    PROVE  LET ts   == SubSeq(t, 1, e)
               rest == SubSeq(t, e + 1, Len(t))
           IN  /\ rest \in Seq(Nat) /\ s \o ts \in Seq(Nat)
               /\ (s \o ts) \o rest = s \o t
<1> DEFINE ts == SubSeq(t, 1, e)
           rest == SubSeq(t, e + 1, Len(t))
<1>1. ts \in Seq(Nat) /\ rest \in Seq(Nat) /\ ts \o rest = t
  BY Divided
<1> HIDE DEF ts, rest
<1>2. s \o ts \in Seq(Nat)
  BY <1>1
<1>3. \A a, b, c \in Seq(Nat) : (a \o b) \o c = a \o (b \o c)
  <2> TAKE a, b, c \in Seq(Nat)
  <2>1. /\ (a \o b) \o c \in Seq(Nat) /\ a \o (b \o c) \in Seq(Nat)
        /\ Len((a \o b) \o c) = Len(a \o (b \o c))
    OBVIOUS
  <2>2. \A i \in 1..Len((a \o b) \o c) : ((a \o b) \o c)[i] = (a \o (b \o c))[i]
    OBVIOUS
  <2> QED
    BY <2>1, <2>2, SeqEqual
<1>4. (s \o ts) \o rest = s \o (ts \o rest)
  BY <1>1, <1>3, ZenonT(30)
<1> QED
  BY <1>1, <1>2, <1>4 DEF ts, rest

(* What is behind something is in both together.                           *)
Behind(s, t, i) == \E k \in DOMAIN (s \o t) : (s \o t)[k] = t[i]
LEMMA FoundBehind ==
    ASSUME NEW s \in Seq(Nat), NEW t \in Seq(Nat), NEW i \in DOMAIN t
    PROVE  Behind(s, t, i)
<1> DEFINE k == Len(s) + i
<1>1. k \in DOMAIN (s \o t)
  OBVIOUS
<1>2. (s \o t)[k] = t[i]
  OBVIOUS
<1> QED
  BY <1>1, <1>2 DEF Behind

(* A batch is of at most what is pending.                                  *)
LEMMA SizeWithin == ASSUME NEW t \in Seq(Nat) PROVE SendSize(t) \in 0..Len(t)
  BY ProjectPushAssumption DEF SendSize

(* Nothing is pending before the first call.                               *)
LEMMA InitInv == PushInit => PInv
<1> SUFFICES ASSUME PushInit PROVE PInv
  OBVIOUS
<1>1. push \in Pushes /\ given \in Seq(Resources)
  BY ProjectPushAssumption DEF PushInit
<1>2. \A p \in DOMAIN pending : pending[p] = <<>>
  BY NothingGrouped DEF PushInit
<1>3. visits \in Seq(DOMAIN pending)
  BY DEF PushInit
<1>4. pushPc = "returned" /\ answer = "none" /\ open = {} /\ unsure = {}
  BY DEF PushInit
<1>5. Kept(push.payload, given)
  BY KeptSame DEF PushInit
<1> QED
  BY <1>1, <1>2, <1>3, <1>4, <1>5 DEF PInv

(* A call starts with everything pending.                                  *)
LEMMA CallInv == PInv /\ PushCall => PInv'
<1> SUFFICES ASSUME PInv, PushCall PROVE PInv'
  OBVIOUS
<1>1. CASE /\ push.started
           /\ given' = Called(given) /\ pending' = ByProject(given')
           /\ pushPc' = "sending" /\ erred' = FALSE /\ answer' = "none"
           /\ sentNow' = [p \in DOMAIN pending' |-> <<>>] /\ visits' = <<>> /\ unsure' = {}
  <2>1. push' = push /\ push \in Pushes /\ open' = open /\ open = {}
    BY DEF PInv, PushCall
  <2>2. given' \in Seq(Resources) /\ Kept(push.payload, given')
    <3>1. given \in Seq(Resources) /\ push.extra \in Configs /\ Kept(push.payload, given)
      BY <2>1, ProjectPushAssumption DEF PInv
    <3>2. /\ ExtraMetrics(given, push.extra) \in Seq(Resources)
          /\ Kept(given, ExtraMetrics(given, push.extra))
      BY <3>1, ExtraTyped
    <3>3. Kept(push.payload, ExtraMetrics(given, push.extra))
      BY <3>1, <3>2, KeptTwice
    <3> QED
      BY <1>1, <3>1, <3>2, <3>3 DEF Called
  <2>3. \A p \in DOMAIN ByProject(given') : ByProject(given')[p] \in Seq(Nat)
    BY <2>2, GroupedByProject
  <2>4. \A t \in Seq(Nat) : <<>> \in Seq(Nat) /\ <<>> \o t = t
    OBVIOUS
  <2>5. Whole'
    BY <1>1, <2>3, <2>4 DEF Whole
  <2>6. visits' \in Seq(DOMAIN pending') /\ DOMAIN visits' = {}
    BY <1>1
  <2>7. OneByOne' /\ Closed' /\ Opened'
    BY <2>1, <2>6 DEF OneByOne, Closed, Opened
  <2> QED
    BY <1>1, <2>1, <2>2, <2>5, <2>6, <2>7 DEF PInv
<1>2. CASE /\ ~push.started /\ answer' = "error"
           /\ UNCHANGED <<given, pending, pushPc, erred, sentNow, visits, unsure>>
  <2>1. pushPc = "returned" /\ push' = push /\ open' = open
    BY DEF PushCall
  <2> QED
    BY <1>2, <2>1 DEF PInv
<1> QED
  BY <1>1, <1>2 DEF PushCall

(* A request takes what is next of one project, the open one if there is   *)
(* one; the projects of earlier requests have nothing pending.             *)
LEMMA SendInv == PInv /\ PushSend => PInv'
<1> SUFFICES ASSUME PInv, PushSend PROVE PInv'
  OBVIOUS
<1> DEFINE size(p) == SendSize(pending[p])
           ts(p)   == SubSeq(pending[p], 1, size(p))
           rest(p) == SubSeq(pending[p], size(p) + 1, Len(pending[p]))
<1>1. PICK p \in DOMAIN pending, err \in BOOLEAN :
         /\ open \subseteq {p} /\ pending[p] # <<>>
         /\ pending' = [pending EXCEPT ![p] = rest(p)]
         /\ open' = IF pending'[p] = <<>> THEN {} ELSE {p}
         /\ Errs(err)
         /\ sentNow' = [sentNow EXCEPT ![p] = @ \o ts(p)]
         /\ visits' = Append(visits, p)
         /\ unsure' = unsure \cup IF err THEN Range(ts(p)) ELSE {}
  BY DEF PushSend
<1>2. /\ pushPc = "sending" /\ pushPc' = "sending" /\ answer' = "none" /\ answer = "none"
      /\ push' = push /\ push \in Pushes /\ given' = given /\ given \in Seq(Resources)
      /\ Kept(push.payload, given)
  BY DEF PushSend, PInv
<1>3. Whole /\ OneByOne /\ Closed /\ Opened /\ visits \in Seq(DOMAIN pending)
  BY <1>2 DEF PInv
<1>4. /\ rest(p) \in Seq(Nat) /\ sentNow[p] \o ts(p) \in Seq(Nat)
      /\ (sentNow[p] \o ts(p)) \o rest(p) = sentNow[p] \o pending[p]
  <2>1. pending[p] \in Seq(Nat) /\ sentNow[p] \in Seq(Nat)
    BY <1>3 DEF Whole
  <2>2. size(p) \in 0..Len(pending[p])
    BY <2>1, SizeWithin
  <2> QED
    BY <2>1, <2>2, SentNext
<1> HIDE DEF rest, ts
<1>5. Whole'
  <2>1. DOMAIN pending' = DOMAIN pending /\ DOMAIN sentNow' = DOMAIN sentNow /\ p \in DOMAIN sentNow
    BY <1>1, <1>3 DEF Whole
  <2>2. pending'[p] = rest(p) /\ sentNow'[p] = sentNow[p] \o ts(p)
    BY <1>1, <2>1
  <2>3. \A q \in DOMAIN pending : q # p => pending'[q] = pending[q] /\ sentNow'[q] = sentNow[q]
    BY <1>1, <1>3 DEF Whole
  <2>4. ByProject(given') = ByProject(given)
    BY <1>2
  <2> DEFINE all == ByProject(given)
  <2>5. /\ DOMAIN pending = DOMAIN all /\ DOMAIN sentNow = DOMAIN all
        /\ \A q \in DOMAIN all : /\ pending[q] \in Seq(Nat) /\ sentNow[q] \in Seq(Nat)
                                 /\ sentNow[q] \o pending[q] = all[q]
    BY <1>3 DEF Whole
  <2> HIDE DEF all
  <2>6. \A q \in DOMAIN all : /\ pending'[q] \in Seq(Nat) /\ sentNow'[q] \in Seq(Nat)
                              /\ sentNow'[q] \o pending'[q] = all[q]
    <3> TAKE q \in DOMAIN all
    <3>1. CASE q = p
      BY <1>4, <2>2, <2>5, <3>1
    <3>2. CASE q # p
      BY <2>3, <2>5, <3>2
    <3> QED
      BY <3>1, <3>2
  <2> QED
    BY <2>1, <2>4, <2>5, <2>6 DEF Whole, all
<1> DEFINE N == Len(visits)
<1>6. /\ N \in Nat /\ DOMAIN visits = 1..N /\ DOMAIN visits' = 1..(N + 1)
      /\ Len(visits') = N + 1 /\ visits'[N + 1] = p /\ visits' # <<>>
      /\ \A n \in 1..N : visits'[n] = visits[n] /\ visits[n] \in DOMAIN pending
  BY <1>1, <1>3
<1>7. visits' \in Seq(DOMAIN pending')
  <2>1. DOMAIN pending' = DOMAIN pending
    BY <1>1
  <2> QED
    BY <1>1, <1>3, <2>1
<1>8. \A n \in 1..N : visits[n] = p => open = {p} /\ N >= 1 /\ visits[N] = p
  <2> TAKE n \in 1..N
  <2> SUFFICES ASSUME visits[n] = p PROVE open = {p} /\ N >= 1 /\ visits[N] = p
    OBVIOUS
  <2>1. p \in open
    BY <1>1, <1>3, <1>6 DEF Closed
  <2>2. open = {p} /\ open = {visits[N]}
    BY <1>1, <1>3, <2>1 DEF Opened
  <2> QED
    BY <1>6, <2>2
<1>9. OneByOne'
  <2>1. SUFFICES ASSUME NEW a \in 1..(N + 1), NEW b \in 1..(N + 1), NEW c \in 1..(N + 1),
                        a < b, b < c, visits'[a] = visits'[c]
                 PROVE  visits'[b] = visits'[a]
    BY <1>6 DEF OneByOne
  <2>2. a \in 1..N /\ b \in 1..N /\ visits'[a] = visits[a] /\ visits'[b] = visits[b]
    BY <1>6, <2>1
  <2>3. CASE c \in 1..N
    BY <1>3, <1>6, <2>1, <2>2, <2>3 DEF OneByOne
  <2>4. CASE c = N + 1
    <3>1. visits[a] = p
      BY <1>6, <2>1, <2>2, <2>4
    <3>2. N \in 1..N /\ visits[N] = p
      BY <1>6, <1>8, <2>2, <3>1
    <3>3. CASE b = N
      BY <2>2, <3>1, <3>2, <3>3
    <3>4. CASE b < N
      BY <1>3, <1>6, <2>1, <2>2, <3>1, <3>2, <3>4 DEF OneByOne
    <3>5. \A m \in Nat : \A k \in 1..m : k = m \/ k < m
      OBVIOUS
    <3>6. b = N \/ b < N
      BY <1>6, <2>2, <3>5
    <3> QED
      BY <3>3, <3>4, <3>6
  <2> QED
    BY <1>6, <2>3, <2>4
<1>10. Closed'
  <2>1. SUFFICES ASSUME NEW n \in 1..(N + 1)
                 PROVE  pending'[visits'[n]] = <<>> \/ visits'[n] \in open'
    BY <1>6 DEF Closed
  <2>2. CASE visits'[n] = p
    BY <1>1, <2>2
  <2>3. CASE visits'[n] # p
    <3>1. n \in 1..N /\ visits'[n] = visits[n] /\ visits[n] \in DOMAIN pending
      BY <1>6, <2>3
    <3>2. visits[n] \notin open
      BY <1>1, <2>3, <3>1
    <3>3. pending[visits[n]] = <<>>
      BY <1>3, <1>6, <3>1, <3>2 DEF Closed
    <3> QED
      BY <1>1, <2>3, <3>1, <3>3
  <2> QED
    BY <2>2, <2>3
<1>11. Opened'
  BY <1>1, <1>6 DEF Opened
<1>12. ~erred' => unsure' = {}
  <2>1. ~erred => unsure = {}
    BY <1>2 DEF PInv
  <2>2. erred' = (erred \/ err)
    BY <1>1 DEF Errs
  <2>3. unsure' = unsure \cup IF err THEN Range(ts(p)) ELSE {}
    BY <1>1
  <2> QED
    BY <2>1, <2>2, <2>3
<1> QED
  BY <1>2, <1>5, <1>7, <1>9, <1>10, <1>11, <1>12 DEF PInv

(* A call returns when nothing is pending any more.                        *)
LEMMA ReturnInv == PInv /\ PushReturn => PInv'
<1> SUFFICES ASSUME PInv, PushReturn PROVE PInv'
  OBVIOUS
<1>1. /\ pushPc = "sending" /\ pushPc' = "returned" /\ \A p \in DOMAIN pending : pending[p] = <<>>
      /\ answer' = IF erred THEN "error" ELSE "ok"
      /\ UNCHANGED <<push, given, pushCalls, pending, open, erred, sentNow, visits, unsure>>
  BY DEF PushReturn
<1>2. Whole /\ Opened /\ Closed /\ (~erred => unsure = {})
  BY <1>1 DEF PInv
<1>3. Whole'
  BY <1>1, <1>2 DEF Whole
<1>4. open' = {} /\ \A p \in DOMAIN pending' : pending'[p] = <<>>
  <2>1. visits \in Seq(DOMAIN pending)
    BY DEF PInv
  <2>2. ASSUME open # {} PROVE FALSE
    <3>1. visits # <<>> /\ pending[visits[Len(visits)]] # <<>>
      BY <1>2, <2>2 DEF Opened
    <3>2. visits[Len(visits)] \in DOMAIN pending
      BY <2>1, <3>1
    <3> QED
      BY <1>1, <3>1, <3>2
  <2> QED
    BY <1>1, <2>2
<1>5. /\ push' \in Pushes /\ given' \in Seq(Resources) /\ visits' \in Seq(DOMAIN pending')
      /\ Kept(push'.payload, given')
  BY <1>1 DEF PInv
<1>6. answer' = "ok" => unsure' = {}
  BY <1>1, <1>2
<1> QED
  BY <1>1, <1>3, <1>4, <1>5, <1>6 DEF PInv

(* What is between the ends of a call, and outside of calls.               *)
THEOREM PushInvariant == PushSpec => []PInv
<1>1. PInv /\ UNCHANGED pushVars => PInv'
  <2> SUFFICES ASSUME PInv, UNCHANGED pushVars PROVE PInv'
    OBVIOUS
  <2>1. /\ Whole' = Whole /\ OneByOne' = OneByOne /\ Closed' = Closed /\ Opened' = Opened
    BY DEF pushVars, Whole, OneByOne, Closed, Opened
  <2>2. UNCHANGED <<push, given, pushPc, visits, pending, open, answer, erred, unsure>>
    BY DEF pushVars
  <2> QED
    BY <2>1, <2>2 DEF PInv
<1>2. PInv /\ [PushNext]_pushVars => PInv'
  BY <1>1, CallInv, SendInv, ReturnInv DEF PushNext
<1> QED
  BY <1>2, InitInv, PTL DEF PushSpec

(* CallsAreWhole: of every payload, in batches of any size, and whatever   *)
(* fails, a call of PushMetrics or ExportSpans sends each point once and   *)
(* under its own project, one project after the other, and a nil means that*)
(* no request of it failed and nothing was left out.                       *)
THEOREM EveryCallIsWhole == PushSpec => []CallsAreWhole
<1>1. PInv => CallsAreWhole
  <2> SUFFICES ASSUME PInv PROVE CallsAreWhole
    OBVIOUS
  <2> DEFINE all == ByProject(given)
  <2>1. given \in Seq(Resources)
    BY DEF PInv
  <2>2. /\ \A p \in DOMAIN all : all[p] \in Seq(Nat)
        /\ \A p \in DOMAIN all : \A n \in Range(all[p]) :
              given[Series(given)[n][1]].project \in {p, ""}
        /\ UNION {Range(all[p]) : p \in DOMAIN all} = DOMAIN Series(given)
    BY <2>1, GroupedByProject
  <2> HIDE DEF all
  <2>3. ASSUME pushPc = "sending"
        PROVE  /\ DOMAIN pending = DOMAIN all
               /\ \A p \in DOMAIN all : sentNow[p] \o pending[p] = all[p]
               /\ \A a, b, c \in DOMAIN visits :
                     a < b /\ b < c /\ visits[a] = visits[c] => visits[b] = visits[a]
    BY <2>3 DEF PInv, Whole, OneByOne, all
  <2>4. ASSUME NEW p \in DOMAIN pending, NEW n \in Range(pending[p])
        PROVE  given[Series(given)[n][1]].project \in {p, ""}
    <3>1. CASE pushPc = "returned"
      <4>1. pending[p] = <<>>
        BY <3>1 DEF PInv
      <4>2. Range(pending[p]) = {}
        BY <4>1 DEF Range
      <4> QED
        BY <2>4, <4>2
    <3>2. CASE pushPc = "sending"
      <4>1. /\ p \in DOMAIN all /\ pending[p] \in Seq(Nat) /\ sentNow[p] \in Seq(Nat)
            /\ sentNow[p] \o pending[p] = all[p]
        BY <3>2 DEF PInv, Whole, all
      <4>2. n \in Range(all[p])
        <5>1. PICK i \in DOMAIN pending[p] : n = pending[p][i]
          BY <2>4 DEF Range
        <5>2. Behind(sentNow[p], pending[p], i)
          BY <4>1, <5>1, FoundBehind
        <5>3. \E k \in DOMAIN all[p] : all[p][k] = pending[p][i]
          BY <4>1, <5>2 DEF Behind
        <5> QED
          BY <5>1, <5>3 DEF Range
      <4> QED
        BY <2>2, <4>1, <4>2
    <3> QED
      BY <3>1, <3>2 DEF PInv
  <2>5. ASSUME pushPc = "returned", answer = "ok"
        PROVE  /\ unsure = {}
               /\ UNION {Range(sentNow[p]) : p \in DOMAIN sentNow} = DOMAIN Series(given)
    <3>1. Whole /\ unsure = {} /\ \A p \in DOMAIN pending : pending[p] = <<>>
      BY <2>5 DEF PInv
    <3>2. DOMAIN pending = DOMAIN all /\ DOMAIN sentNow = DOMAIN all
      BY <3>1 DEF Whole, all
    <3>3. \A p \in DOMAIN all : sentNow[p] = all[p]
      <4> TAKE p \in DOMAIN all
      <4>1. sentNow[p] \in Seq(Nat) /\ pending[p] = <<>> /\ sentNow[p] \o pending[p] = all[p]
        BY <3>1, <3>2 DEF Whole, all
      <4>2. sentNow[p] \o <<>> = sentNow[p]
        BY <4>1
      <4> QED
        BY <4>1, <4>2
    <3>4. {Range(sentNow[p]) : p \in DOMAIN sentNow} = {Range(all[p]) : p \in DOMAIN all}
      BY <3>2, <3>3
    <3> QED
      BY <2>2, <3>1, <3>4
  <2> QED
    BY <2>3, <2>4, <2>5 DEF CallsAreWhole, all
<1> QED
  BY <1>1, PushInvariant, PTL

(* ExtraMetrics adds to the payload in place, again with each call: but the *)
(* points that the caller gave stay where they are, under their project,    *)
(* with the name, the type and the time they had.                           *)
PointsStay ==
    \A s \in PlacesIn(push.payload) :
        /\ s \in PlacesIn(given)
        /\ given[s[1]].project = push.payload[s[1]].project
        /\ MetricAt(given, s).name = MetricAt(push.payload, s).name
        /\ MetricAt(given, s).type = MetricAt(push.payload, s).type
        /\ MetricAt(given, s).points[s[4]].time = MetricAt(push.payload, s).points[s[4]].time
THEOREM NothingMoved == PushSpec => []PointsStay
<1>1. ASSUME PInv, NEW s \in PlacesIn(push.payload)
      PROVE  /\ s \in PlacesIn(given)
             /\ given[s[1]].project = push.payload[s[1]].project
             /\ MetricAt(given, s).name = MetricAt(push.payload, s).name
             /\ MetricAt(given, s).type = MetricAt(push.payload, s).type
             /\ MetricAt(given, s).points[s[4]].time = MetricAt(push.payload, s).points[s[4]].time
  <2> DEFINE d == push.payload
  <2>12. PICK i \in DOMAIN d : s \in OfResource(d, i)
    BY <1>1 DEF PlacesIn
  <2>13. PICK j \in DOMAIN d[i].scopes : s \in OfScope(d, i, j)
    BY <2>12 DEF OfResource
  <2>14. PICK k \in DOMAIN d[i].scopes[j].metrics : s \in OfMetric(d, i, j, k)
    BY <2>13 DEF OfScope
  <2>1. PICK n \in DOMAIN d[i].scopes[j].metrics[k].points : s = <<i, j, k, n>>
    BY <2>14 DEF OfMetric
  <2>2. Kept(d, given)
    BY <1>1 DEF PInv
  <2> HIDE DEF d
  <2>3. i \in DOMAIN given /\ ResourceKept(d[i], given[i])
    BY <2>1, <2>2 DEF Kept
  <2>4. j \in DOMAIN given[i].scopes /\ ScopeKept(d[i].scopes[j], given[i].scopes[j])
    BY <2>1, <2>3 DEF ResourceKept, ScopesKept
  <2>5. /\ k \in DOMAIN given[i].scopes[j].metrics
        /\ MetricKept(d[i].scopes[j].metrics[k], given[i].scopes[j].metrics[k])
    BY <2>1, <2>4 DEF ScopeKept, MetricsKept
  <2>6. n \in DOMAIN given[i].scopes[j].metrics[k].points
    BY <2>1, <2>5 DEF MetricKept
  <2>7. s[1] = i /\ s[2] = j /\ s[3] = k /\ s[4] = n
    BY <2>1
  <2>8. s \in PlacesIn(given)
    <3>1. s \in OfMetric(given, i, j, k)
      BY <2>1, <2>6 DEF OfMetric
    <3>2. s \in OfScope(given, i, j)
      BY <2>5, <3>1 DEF OfScope
    <3>3. s \in OfResource(given, i)
      BY <2>4, <3>2 DEF OfResource
    <3> QED
      BY <2>3, <3>3 DEF PlacesIn
  <2>9. given[i].project = d[i].project
    BY <2>3 DEF ResourceKept
  <2>10. /\ MetricAt(given, s) = given[i].scopes[j].metrics[k]
         /\ MetricAt(d, s) = d[i].scopes[j].metrics[k]
    BY <2>7 DEF MetricAt
  <2>11. /\ MetricAt(given, s).name = MetricAt(d, s).name
         /\ MetricAt(given, s).type = MetricAt(d, s).type
         /\ MetricAt(given, s).points[n].time = MetricAt(d, s).points[n].time
    BY <2>1, <2>5, <2>10 DEF MetricKept
  <2> QED
    BY <2>7, <2>8, <2>9, <2>11 DEF d
<1>2. PInv => PointsStay
  BY <1>1 DEF PointsStay
<1> QED
  BY <1>2, PushInvariant, PTL
-----------------------------------------------------------------------------
(* What a call adds: one of each, counted among the places of the payload. *)

(* What a place holds.                                                     *)
NameAt(d, x)    == MetricAt(d, x).name
TypeAt(d, x)    == MetricAt(d, x).type
UnknownAt(d, x) == MetricAt(d, x).type = "gauge" /\ MetricAt(d, x).unknown
TimeAt(d, x)    == MetricAt(d, x).points[x[4]].time
ScopeAt(d, x)   == d[x[1]].scopes[x[2]].scope
IdAt(d, x)      == d[x[1]].id
SameAt(d, e, x) ==
    /\ NameAt(e, x) = NameAt(d, x) /\ TypeAt(e, x) = TypeAt(d, x)
    /\ UnknownAt(e, x) <=> UnknownAt(d, x)
    /\ TimeAt(e, x) = TimeAt(d, x) /\ ScopeAt(e, x) = ScopeAt(d, x) /\ IdAt(e, x) = IdAt(d, x)

(* A place is that of a point.                                             *)
Holds(d, i, j, k, n) ==
    /\ i \in DOMAIN d /\ j \in DOMAIN d[i].scopes /\ k \in DOMAIN d[i].scopes[j].metrics
    /\ n \in DOMAIN d[i].scopes[j].metrics[k].points

(* A place in the payload is told by its four numbers.                     *)
LEMMA PlaceOf ==
    /\ \A d : \A x \in PlacesIn(d) : x = <<x[1], x[2], x[3], x[4]>> /\ Holds(d, x[1], x[2], x[3], x[4])
    /\ \A d, i, j, k, n : Holds(d, i, j, k, n) => <<i, j, k, n>> \in PlacesIn(d)
<1>1. ASSUME NEW d, NEW x \in PlacesIn(d)
      PROVE  x = <<x[1], x[2], x[3], x[4]>> /\ Holds(d, x[1], x[2], x[3], x[4])
  <2>1. PICK i \in DOMAIN d : x \in OfResource(d, i)
    BY <1>1 DEF PlacesIn
  <2>2. PICK j \in DOMAIN d[i].scopes : x \in OfScope(d, i, j)
    BY <2>1 DEF OfResource
  <2>3. PICK k \in DOMAIN d[i].scopes[j].metrics : x \in OfMetric(d, i, j, k)
    BY <2>2 DEF OfScope
  <2>4. PICK n \in DOMAIN d[i].scopes[j].metrics[k].points : x = <<i, j, k, n>>
    BY <2>3 DEF OfMetric
  <2> QED
    BY <2>4 DEF Holds
<1>2. ASSUME NEW d, NEW i, NEW j, NEW k, NEW n, Holds(d, i, j, k, n)
      PROVE  <<i, j, k, n>> \in PlacesIn(d)
  <2>1. <<i, j, k, n>> \in OfMetric(d, i, j, k)
    BY <1>2 DEF Holds, OfMetric
  <2>2. <<i, j, k, n>> \in OfScope(d, i, j)
    BY <1>2, <2>1 DEF Holds, OfScope
  <2>3. <<i, j, k, n>> \in OfResource(d, i)
    BY <1>2, <2>2 DEF Holds, OfResource
  <2> QED
    BY <1>2, <2>3 DEF Holds, PlacesIn
<1> QED
  BY <1>1, <1>2

(* What is kept holds what it held.                                        *)
LEMMA PlaceKept ==
    ASSUME NEW d, NEW e, Kept(d, e), NEW x \in PlacesIn(d)
    PROVE  x \in PlacesIn(e) /\ SameAt(d, e, x)
<1>1. x = <<x[1], x[2], x[3], x[4]>> /\ Holds(d, x[1], x[2], x[3], x[4])
  BY PlaceOf
<1>2. x[1] \in DOMAIN e /\ ResourceKept(d[x[1]], e[x[1]])
  BY <1>1 DEF Kept, Holds
<1>3. x[2] \in DOMAIN e[x[1]].scopes /\ ScopeKept(d[x[1]].scopes[x[2]], e[x[1]].scopes[x[2]])
  BY <1>1, <1>2 DEF ResourceKept, ScopesKept, Holds
<1>4. /\ x[3] \in DOMAIN e[x[1]].scopes[x[2]].metrics
      /\ MetricKept(d[x[1]].scopes[x[2]].metrics[x[3]], e[x[1]].scopes[x[2]].metrics[x[3]])
  BY <1>1, <1>3 DEF ScopeKept, MetricsKept, Holds
<1>5. x[4] \in DOMAIN e[x[1]].scopes[x[2]].metrics[x[3]].points
  BY <1>1, <1>4 DEF MetricKept, Holds
<1>6. x \in PlacesIn(e)
  <2>1. Holds(e, x[1], x[2], x[3], x[4])
    BY <1>2, <1>3, <1>4, <1>5 DEF Holds
  <2>2. <<x[1], x[2], x[3], x[4]>> \in PlacesIn(e)
    BY <2>1, PlaceOf
  <2> QED
    BY <1>1, <2>2
<1>7. /\ NameAt(e, x) = NameAt(d, x) /\ TypeAt(e, x) = TypeAt(d, x)
      /\ UnknownAt(e, x) <=> UnknownAt(d, x)
  BY <1>4 DEF NameAt, TypeAt, UnknownAt, MetricAt, MetricKept
<1>8. TimeAt(e, x) = TimeAt(d, x)
  BY <1>1, <1>4 DEF TimeAt, MetricAt, MetricKept, Holds
<1>9. ScopeAt(e, x) = ScopeAt(d, x) /\ IdAt(e, x) = IdAt(d, x)
  BY <1>2, <1>3 DEF ScopeAt, IdAt, ScopeKept, ResourceKept
<1> QED
  BY <1>6, <1>7, <1>8, <1>9 DEF SameAt

(* What AddedOncePerCall counts, among the places of d that are not in B.  *)
CountersOf(d, B, s) ==
    {t \in PlacesIn(d) \ B : /\ t[1] = s[1] /\ t[2] = s[2] /\ TypeAt(d, t) = "sum"
                             /\ NameAt(d, t) = NameAt(d, s) /\ TimeAt(d, t) = TimeAt(d, s)}
TargetsOf(d, B, id) == {t \in PlacesIn(d) \ B : IdAt(d, t) = id /\ NameAt(d, t) = "target_info"}
ScopesOf(d, B, id, scope) ==
    {t \in PlacesIn(d) \ B : IdAt(d, t) = id /\ ScopeAt(d, t) = scope /\ NameAt(d, t) = "otel_scope_info"}
Counted(X, c) == IsFiniteSet(X) /\ Cardinality(X) = c

(* What a step adds is counted on top of what there was.                   *)
LEMMA CountedOn ==
    ASSUME NEW d, NEW e, Kept(d, e), NEW B, B \subseteq PlacesIn(d)
    PROVE  /\ \A s \in PlacesIn(d) :
                 CountersOf(e, B, s) = CountersOf(d, B, s) \cup CountersOf(e, PlacesIn(d), s)
           /\ \A id : TargetsOf(e, B, id) = TargetsOf(d, B, id) \cup TargetsOf(e, PlacesIn(d), id)
           /\ \A id, scope : ScopesOf(e, B, id, scope) =
                 ScopesOf(d, B, id, scope) \cup ScopesOf(e, PlacesIn(d), id, scope)
<1>1. \A x \in PlacesIn(d) : x \in PlacesIn(e) /\ SameAt(d, e, x)
  BY PlaceKept
<1>2. ASSUME NEW s \in PlacesIn(d)
      PROVE  CountersOf(e, B, s) = CountersOf(d, B, s) \cup CountersOf(e, PlacesIn(d), s)
  <2>1. \A t \in PlacesIn(d) : /\ t \in PlacesIn(e) /\ TypeAt(e, t) = TypeAt(d, t)
                               /\ NameAt(e, t) = NameAt(d, t) /\ TimeAt(e, t) = TimeAt(d, t)
    BY <1>1 DEF SameAt
  <2> QED
    BY <1>2, <2>1 DEF CountersOf
<1>3. \A t \in PlacesIn(d) : /\ t \in PlacesIn(e) /\ IdAt(e, t) = IdAt(d, t)
                             /\ ScopeAt(e, t) = ScopeAt(d, t) /\ NameAt(e, t) = NameAt(d, t)
  BY <1>1 DEF SameAt
<1>4. \A id : TargetsOf(e, B, id) = TargetsOf(d, B, id) \cup TargetsOf(e, PlacesIn(d), id)
  BY <1>3 DEF TargetsOf
<1>5. \A id, scope : ScopesOf(e, B, id, scope) =
         ScopesOf(d, B, id, scope) \cup ScopesOf(e, PlacesIn(d), id, scope)
  BY <1>3 DEF ScopesOf
<1> QED
  BY <1>2, <1>4, <1>5

(* One more, or none.                                                      *)
LEMMA OneMore ==
    ASSUME NEW X, NEW c \in Nat, Counted(X, c), NEW Y, X \cap Y = {}
    PROVE  /\ Y = {} => Counted(X \cup Y, c)
           /\ \A y : Y = {y} => Counted(X \cup Y, c + 1)
<1>1. ASSUME Y = {} PROVE Counted(X \cup Y, c)
  <2>1. X \cup Y = X
    BY <1>1
  <2> QED
    BY <2>1
<1>2. ASSUME NEW y, Y = {y} PROVE Counted(X \cup Y, c + 1)
  <2>1. y \notin X
    BY <1>2
  <2> QED
    BY <1>2, <2>1, FS_AddElement DEF Counted
<1> QED
  BY <1>1, <1>2

(* There is a first among the resources, or the scopes, of a kind.         *)
LEMMA FirstOf ==
    ASSUME NEW N \in Nat, NEW T, NEW i \in 1..N, i \in T
    PROVE  \E h \in 1..N : h \in T /\ h <= i /\ \A g \in 1..(h - 1) : g \notin T
<1> DEFINE S == {h \in 1..N : h \in T}
<1>1. S \in SUBSET Nat /\ i \in S
  OBVIOUS
<1>2. PICK h \in S : \A g \in S : h <= g
  BY <1>1, Least
<1>3. \A g \in 1..(h - 1) : g \in 1..N /\ ~(h <= g)
  BY <1>1
<1> QED
  BY <1>1, <1>2, <1>3

(* The fields of places.                                                   *)
LEMMA PlaceFields ==
    ASSUME NEW d \in Seq(Resources)
    PROVE  /\ DOMAIN d = 1..Len(d) /\ Len(d) \in Nat
           /\ \A i \in DOMAIN d : /\ d[i] \in Resources /\ d[i].scopes \in Seq(Scopes)
                                 /\ DOMAIN d[i].scopes = 1..Len(d[i].scopes) /\ Len(d[i].scopes) \in Nat
           /\ \A i \in DOMAIN d : \A j \in DOMAIN d[i].scopes :
                 /\ d[i].scopes[j] \in Scopes /\ d[i].scopes[j].metrics \in Seq(Metrics)
                 /\ DOMAIN d[i].scopes[j].metrics = 1..Len(d[i].scopes[j].metrics)
                 /\ Len(d[i].scopes[j].metrics) \in Nat
           /\ \A i \in DOMAIN d : \A j \in DOMAIN d[i].scopes : \A k \in DOMAIN d[i].scopes[j].metrics :
                 /\ d[i].scopes[j].metrics[k] \in Metrics
                 /\ d[i].scopes[j].metrics[k].points \in Seq(Points)
<1>1. DOMAIN d = 1..Len(d) /\ Len(d) \in Nat /\ \A i \in DOMAIN d : d[i] \in Resources
  OBVIOUS
<1>2. \A i \in DOMAIN d : d[i].scopes \in Seq(Scopes)
  BY <1>1, ResourceFields
<1>3. \A s \in Seq(Scopes) : /\ DOMAIN s = 1..Len(s) /\ Len(s) \in Nat
                             /\ \A j \in DOMAIN s : s[j] \in Scopes
  OBVIOUS
<1>4. \A s \in Seq(Metrics) : /\ DOMAIN s = 1..Len(s) /\ Len(s) \in Nat
                              /\ \A j \in DOMAIN s : s[j] \in Metrics
  OBVIOUS
<1>5. \A i \in DOMAIN d : \A j \in DOMAIN d[i].scopes :
         d[i].scopes[j] \in Scopes /\ d[i].scopes[j].metrics \in Seq(Metrics)
  BY <1>2, <1>3, ScopeFields
<1>6. \A i \in DOMAIN d : \A j \in DOMAIN d[i].scopes : \A k \in DOMAIN d[i].scopes[j].metrics :
         /\ d[i].scopes[j].metrics[k] \in Metrics
         /\ d[i].scopes[j].metrics[k].points \in Seq(Points)
  BY <1>4, <1>5, MetricFields
<1> QED
  BY <1>1, <1>2, <1>3, <1>4, <1>5, <1>6

(* convertIntToDouble adds nothing.                                        *)
LEMMA ConvertedAddsNothing ==
    ASSUME NEW d \in Seq(Resources)
    PROVE  PlacesIn(convertIntToDouble(d)) \subseteq PlacesIn(d)
<1> DEFINE e == convertIntToDouble(d)
<1>1. \A i \in DOMAIN e : i \in DOMAIN d /\ e[i] = [d[i] EXCEPT !.scopes = [j \in DOMAIN d[i].scopes |-> AllConverted(d[i].scopes[j])]]
  BY DEF convertIntToDouble
<1>2. \A i \in DOMAIN e : \A j \in DOMAIN e[i].scopes :
         j \in DOMAIN d[i].scopes /\ e[i].scopes[j] = AllConverted(d[i].scopes[j])
  <2> TAKE i \in DOMAIN e
  <2>1. e[i].scopes = [j \in DOMAIN d[i].scopes |-> AllConverted(d[i].scopes[j])]
    <3>1. \A r \in Resources : \A q : [r EXCEPT !.scopes = q].scopes = q
      BY DEF Resources
    <3>2. i \in DOMAIN d /\ d[i] \in Resources
      BY <1>1
    <3> DEFINE q == [j \in DOMAIN d[i].scopes |-> AllConverted(d[i].scopes[j])]
    <3>3. e[i] = [d[i] EXCEPT !.scopes = q]
      BY <1>1
    <3> HIDE DEF q, e
    <3>4. e[i].scopes = q
      BY <3>1, <3>2, <3>3
    <3> QED
      BY <3>4 DEF q
  <2> QED
    BY <2>1
<1>3. \A i \in DOMAIN e : \A j \in DOMAIN e[i].scopes : \A k \in DOMAIN e[i].scopes[j].metrics :
         /\ k \in DOMAIN d[i].scopes[j].metrics
         /\ e[i].scopes[j].metrics[k] = Converted(d[i].scopes[j].metrics[k])
  <2> TAKE i \in DOMAIN e
  <2> TAKE j \in DOMAIN e[i].scopes
  <2> DEFINE s == d[i].scopes[j]
  <2>1. s \in Scopes /\ e[i].scopes[j] = AllConverted(s)
    BY <1>1, <1>2, PlaceFields
  <2> HIDE DEF s
  <2>2. e[i].scopes[j].metrics = [k \in DOMAIN s.metrics |-> Converted(s.metrics[k])]
    <3>1. AllConverted(s).metrics = [k \in DOMAIN s.metrics |-> Converted(s.metrics[k])]
      BY <2>1 DEF AllConverted, Scopes
    <3> QED
      BY <2>1, <3>1
  <2> QED
    BY <2>2 DEF s
<1>4. \A m \in Metrics : DOMAIN Converted(m).points = DOMAIN m.points
  <2> TAKE m \in Metrics
  <2> DEFINE P == Seq(Points)
  <2>1. m \in [name : Names, type : MetricTypes, unknown : BOOLEAN, monotonic : BOOLEAN, points : P]
    BY DEF Metrics
  <2> HIDE DEF P
  <2> DEFINE ps == [n \in DOMAIN m.points |-> [m.points[n] EXCEPT !.int = FALSE]]
  <2>2. Converted(m) = IF m.type \in {"sum", "gauge"} THEN [m EXCEPT !.points = ps] ELSE m
    BY DEF Converted
  <2>3. DOMAIN ps = DOMAIN m.points
    OBVIOUS
  <2> HIDE DEF ps
  <2>4. [m EXCEPT !.points = ps].points = ps
    BY <2>1
  <2> QED
    BY <2>2, <2>3, <2>4
<1> HIDE DEF e
<1>5. ASSUME NEW i, NEW j, NEW k, NEW n, Holds(e, i, j, k, n) PROVE Holds(d, i, j, k, n)
  <2>1. i \in DOMAIN d /\ j \in DOMAIN d[i].scopes /\ k \in DOMAIN d[i].scopes[j].metrics
    BY <1>1, <1>2, <1>3, <1>5 DEF Holds
  <2>2. e[i].scopes[j].metrics[k] = Converted(d[i].scopes[j].metrics[k])
    BY <1>3, <1>5 DEF Holds
  <2>3. d[i].scopes[j].metrics[k] \in Metrics
    BY <2>1, PlaceFields
  <2>4. n \in DOMAIN d[i].scopes[j].metrics[k].points
    BY <1>4, <1>5, <2>2, <2>3 DEF Holds
  <2> QED
    BY <2>1, <2>4 DEF Holds
<1>6. ASSUME NEW x \in PlacesIn(e) PROVE x \in PlacesIn(d)
  <2>1. x = <<x[1], x[2], x[3], x[4]>> /\ Holds(e, x[1], x[2], x[3], x[4])
    BY PlaceOf
  <2>2. <<x[1], x[2], x[3], x[4]>> \in PlacesIn(d)
    BY <1>5, <2>1, PlaceOf
  <2> QED
    BY <2>1, <2>2
<1> QED
  BY <1>6 DEF e

(* A metric of one point that addTargetInfoMetric and addScopeInfoMetric   *)
(* write.                                                                  *)
LEMMA InfoFields ==
    \A name, time, scoped :
        /\ Info(name, time, scoped).name = name /\ Info(name, time, scoped).type = "gauge"
        /\ ~Info(name, time, scoped).unknown /\ DOMAIN Info(name, time, scoped).points = {1}
  BY DEF Info

(* addTargetInfoMetric adds one place for each identity, and nothing else. *)
LEMMA TargetAddsOne ==
    ASSUME NEW d \in Seq(Resources)
    PROVE  LET e == addTargetInfoMetric(d)
               B == PlacesIn(d)
           IN  /\ \A x \in PlacesIn(e) \ B : TypeAt(e, x) = "gauge" /\ ~UnknownAt(e, x)
                                             /\ NameAt(e, x) = "target_info"
               /\ \A s \in B : \E y : TargetsOf(e, B, IdAt(d, s)) = {y}
<1> DEFINE e == addTargetInfoMetric(d)
           B == PlacesIn(d)
           M(i) == Info("target_info", latestTime(MetricsOf(d[i])), FALSE)
           Added(i) == [scope |-> "", metrics |-> <<M(i)>>]
           AtEnd(i) == Len(d[i].scopes) + 1
<1>1. /\ DOMAIN e = DOMAIN d
      /\ \A i \in DOMAIN d : e[i].id = d[i].id
      /\ \A i \in DOMAIN d : e[i].scopes = IF FirstOfResource(d, i) THEN Append(d[i].scopes, Added(i))
                                         ELSE d[i].scopes
  <2>1. \A r \in Resources : \A q : [r EXCEPT !.scopes = q].scopes = q /\ [r EXCEPT !.scopes = q].id = r.id
    BY DEF Resources
  <2>2. \A i \in DOMAIN d : e[i] = IF FirstOfResource(d, i)
                                THEN [d[i] EXCEPT !.scopes = Append(d[i].scopes, Added(i))] ELSE d[i]
    BY DEF addTargetInfoMetric
  <2>3. DOMAIN e = DOMAIN d
    BY DEF addTargetInfoMetric
  <2>4. \A i \in DOMAIN d : d[i] \in Resources
    OBVIOUS
  <2> HIDE DEF e, Added
  <2>5. ASSUME NEW i \in DOMAIN d
        PROVE  /\ e[i].id = d[i].id
               /\ e[i].scopes = IF FirstOfResource(d, i) THEN Append(d[i].scopes, Added(i)) ELSE d[i].scopes
    <3> DEFINE q == Append(d[i].scopes, Added(i))
    <3> HIDE DEF q
    <3>1. [d[i] EXCEPT !.scopes = q].scopes = q /\ [d[i] EXCEPT !.scopes = q].id = d[i].id
      BY <2>1, <2>4
    <3>2. CASE FirstOfResource(d, i)
      <4>1. e[i] = [d[i] EXCEPT !.scopes = q]
        BY <2>2, <3>2 DEF q
      <4> QED
        BY <3>1, <3>2, <4>1 DEF q
    <3>3. CASE ~FirstOfResource(d, i)
      BY <2>2, <3>3
    <3> QED
      BY <3>2, <3>3
  <2> QED
    BY <2>3, <2>5
<1> HIDE DEF e
<1>2. ASSUME NEW i \in DOMAIN d, FirstOfResource(d, i)
      PROVE  /\ DOMAIN e[i].scopes = 1..AtEnd(i) /\ AtEnd(i) \in 1..AtEnd(i)
             /\ AtEnd(i) \notin DOMAIN d[i].scopes
             /\ \A j \in 1..AtEnd(i) : j # AtEnd(i) => j \in DOMAIN d[i].scopes
                                                       /\ e[i].scopes[j] = d[i].scopes[j]
             /\ e[i].scopes[AtEnd(i)] = Added(i)
  <2>1. d[i].scopes \in Seq(Scopes) /\ e[i].scopes = Append(d[i].scopes, Added(i))
    BY <1>1, <1>2, PlaceFields
  <2> HIDE DEF Added
  <2> QED
    BY <2>1
<1>3. \A i : DOMAIN Added(i).metrics = {1} /\ Added(i).metrics[1] = M(i)
  OBVIOUS
<1>4. \A i : M(i).name = "target_info" /\ M(i).type = "gauge" /\ ~M(i).unknown /\ DOMAIN M(i).points = {1}
  <2> TAKE i
  <2> DEFINE t == latestTime(MetricsOf(d[i]))
             m == Info("target_info", t, FALSE)
  <2>1. m.name = "target_info" /\ m.type = "gauge" /\ ~m.unknown /\ DOMAIN m.points = {1}
    <3> HIDE DEF t
    <3> QED
      BY InfoFields, ZenonT(60)
  <2> QED
    BY <2>1
<1> HIDE DEF M, Added, AtEnd
<1>5. ASSUME NEW x \in PlacesIn(e) \ B
      PROVE  /\ x[1] \in DOMAIN d /\ FirstOfResource(d, x[1]) /\ x = <<x[1], AtEnd(x[1]), 1, 1>>
             /\ MetricAt(e, x) = M(x[1])
  <2>1. x = <<x[1], x[2], x[3], x[4]>> /\ Holds(e, x[1], x[2], x[3], x[4])
    BY PlaceOf
  <2>2. ~Holds(d, x[1], x[2], x[3], x[4])
    BY <1>5, <2>1, PlaceOf
  <2>3. x[1] \in DOMAIN d
    BY <1>1, <2>1 DEF Holds
  <2>4. CASE ~FirstOfResource(d, x[1])
    BY <1>1, <2>1, <2>2, <2>3, <2>4 DEF Holds
  <2>5. CASE FirstOfResource(d, x[1])
    <3>1. x[2] = AtEnd(x[1])
      BY <1>2, <2>1, <2>2, <2>3, <2>5, SMTT(30) DEF Holds
    <3>2. x[3] = 1 /\ x[4] = 1
      BY <1>2, <1>3, <1>4, <2>1, <2>3, <2>5, <3>1 DEF Holds
    <3> QED
      BY <1>2, <1>3, <2>1, <2>3, <2>5, <3>1, <3>2 DEF MetricAt
  <2> QED
    BY <2>4, <2>5
<1>6. ASSUME NEW x \in PlacesIn(e) \ B
      PROVE  TypeAt(e, x) = "gauge" /\ ~UnknownAt(e, x) /\ NameAt(e, x) = "target_info"
  BY <1>4, <1>5 DEF TypeAt, UnknownAt, NameAt
<1>7. ASSUME NEW i \in DOMAIN d, FirstOfResource(d, i)
      PROVE  <<i, AtEnd(i), 1, 1>> \in PlacesIn(e) \ B
  <2>1. Holds(e, i, AtEnd(i), 1, 1)
    BY <1>1, <1>2, <1>3, <1>4, <1>7 DEF Holds
  <2>2. <<i, AtEnd(i), 1, 1>> \in PlacesIn(e)
    BY <2>1, PlaceOf
  <2>3. ASSUME <<i, AtEnd(i), 1, 1>> \in B PROVE FALSE
    <3> DEFINE x == <<i, AtEnd(i), 1, 1>>
    <3>1. Holds(d, x[1], x[2], x[3], x[4])
      BY <2>3, PlaceOf
    <3> QED
      BY <1>2, <1>7, <3>1 DEF Holds
  <2> QED
    BY <2>2, <2>3
<1>8. ASSUME NEW s \in B PROVE \E y : TargetsOf(e, B, IdAt(d, s)) = {y}
  <2> DEFINE T == {h \in DOMAIN d : d[h].id = d[s[1]].id}
  <2>1. s[1] \in DOMAIN d
    BY PlaceOf DEF Holds
  <2>2. PICK h \in DOMAIN d : h \in T /\ \A g \in 1..(h - 1) : g \notin T
    <3>1. DOMAIN d = 1..Len(d) /\ Len(d) \in Nat /\ s[1] \in T
      BY <2>1, PlaceFields
    <3>2. s[1] \in 1..Len(d)
      BY <2>1, <3>1
    <3> DEFINE N == Len(d)
               g0 == s[1]
    <3> HIDE DEF T, N, g0
    <3>3. N \in Nat /\ g0 \in 1..N /\ g0 \in T
      BY <3>1, <3>2 DEF N, g0
    <3>4. \E h \in 1..N : h \in T /\ \A g \in 1..(h - 1) : g \notin T
      BY <3>3, FirstOf
    <3> QED
      BY <3>1, <3>4 DEF N
  <2>3. \A g \in 1..(h - 1) : g \in DOMAIN d
    BY <2>2, PlaceFields
  <2>4. FirstOfResource(d, h) /\ d[h].id = d[s[1]].id
    BY <2>2, <2>3 DEF FirstOfResource
  <2>5. ASSUME NEW i \in DOMAIN d, FirstOfResource(d, i), d[i].id = d[s[1]].id PROVE i = h
    <3>1. i \in Nat /\ h \in Nat /\ (h < i => h \in 1..(i - 1)) /\ (i < h => i \in 1..(h - 1))
      BY PlaceFields
    <3>2. ~(h < i)
      BY <2>4, <2>5, <3>1 DEF FirstOfResource
    <3>3. ~(i < h)
      BY <2>4, <2>5, <3>1 DEF FirstOfResource
    <3> QED
      BY <3>1, <3>2, <3>3
  <2> DEFINE y == <<h, AtEnd(h), 1, 1>>
  <2>6. y \in TargetsOf(e, B, IdAt(d, s))
    BY <1>1, <1>6, <1>7, <2>4 DEF TargetsOf, IdAt
  <2>7. ASSUME NEW x \in TargetsOf(e, B, IdAt(d, s)) PROVE x = y
    <3>1. x \in PlacesIn(e) \ B /\ e[x[1]].id = d[s[1]].id
      BY DEF TargetsOf, IdAt
    <3>2. x[1] \in DOMAIN d /\ FirstOfResource(d, x[1]) /\ x = <<x[1], AtEnd(x[1]), 1, 1>>
      BY <1>5, <3>1
    <3>3. x[1] = h
      BY <1>1, <2>5, <3>1, <3>2
    <3> QED
      BY <3>2, <3>3
  <2> QED
    BY <2>6, <2>7
<1> QED
  BY <1>6, <1>8 DEF e

(* Of the scopes of one name in resources of one identity one is the first. *)
SameScope(d, i, j, h, g) == d[h].id = d[i].id /\ d[h].scopes[g].scope = d[i].scopes[j].scope

(* Among the scopes of one name and identity there is a first.             *)
LEMMA FirstScope ==
    ASSUME NEW d \in Seq(Resources), NEW i \in DOMAIN d, NEW j \in DOMAIN d[i].scopes
    PROVE  \E h \in DOMAIN d : \E g \in DOMAIN d[h].scopes :
              FirstOfScope(d, h, g) /\ SameScope(d, i, j, h, g)
<1> DEFINE T == {h \in DOMAIN d : \E g \in DOMAIN d[h].scopes : SameScope(d, i, j, h, g)}
<1>1. DOMAIN d = 1..Len(d) /\ Len(d) \in Nat /\ i \in T
  BY PlaceFields DEF SameScope
<1>2. PICK h \in DOMAIN d : h \in T /\ \A g \in 1..(h - 1) : g \notin T
  <2> HIDE DEF T
  <2>1. i \in 1..Len(d)
    BY <1>1
  <2> QED
    BY <1>1, <2>1, FirstOf
<1> DEFINE U == {g \in DOMAIN d[h].scopes : SameScope(d, i, j, h, g)}
           M == Len(d[h].scopes)
<1>3. DOMAIN d[h].scopes = 1..M /\ M \in Nat
  BY PlaceFields
<1>4. PICK f \in DOMAIN d[h].scopes : f \in U
  BY <1>2
<1>5. PICK g \in DOMAIN d[h].scopes : g \in U /\ \A f2 \in 1..(g - 1) : f2 \notin U
  <2> HIDE DEF U, M
  <2>1. f \in 1..M
    BY <1>3, <1>4
  <2> QED
    BY <1>3, <1>4, <2>1, FirstOf
<1>6. h \in Nat /\ g \in Nat
  BY <1>1, <1>3
<1>7. ASSUME NEW h2 \in 1..h, NEW g2 \in DOMAIN d[h2].scopes, h2 < h \/ g2 < g
      PROVE  d[h2].id # d[h].id \/ d[h2].scopes[g2].scope # d[h].scopes[g].scope
  <2>1. CASE h2 < h
    <3>1. h2 \in 1..(h - 1) /\ h2 \in DOMAIN d
      BY <1>1, <1>6, <1>7, <2>1
    <3>2. ~SameScope(d, i, j, h2, g2)
      BY <1>2, <3>1
    <3> QED
      BY <1>5, <3>2 DEF SameScope
  <2>2. CASE ~(h2 < h)
    <3>1. h2 = h /\ g2 < g
      BY <1>6, <1>7, <2>2
    <3>2. g2 \in 1..(g - 1)
      BY <1>3, <1>6, <1>7, <3>1
    <3>3. ~SameScope(d, i, j, h, g2)
      BY <1>5, <1>7, <3>1, <3>2
    <3> QED
      BY <1>5, <3>1, <3>3 DEF SameScope
  <2> QED
    BY <2>1, <2>2
<1> QED
  BY <1>5, <1>7 DEF FirstOfScope

(* And there is only one first.                                            *)
LEMMA FirstScopeOnce ==
    ASSUME NEW d \in Seq(Resources), NEW i \in DOMAIN d, NEW j \in DOMAIN d[i].scopes,
           NEW h \in DOMAIN d, NEW g \in DOMAIN d[h].scopes,
           FirstOfScope(d, i, j), FirstOfScope(d, h, g), SameScope(d, i, j, h, g)
    PROVE  h = i /\ g = j
<1>1. i \in Nat /\ h \in Nat /\ j \in Nat /\ g \in Nat /\ i >= 1 /\ h >= 1
  BY PlaceFields
<1>2. ~(i < h)
  BY <1>1 DEF FirstOfScope, SameScope
<1>3. ~(h < i)
  BY <1>1 DEF FirstOfScope, SameScope
<1>4. i = h
  BY <1>1, <1>2, <1>3
<1>5. ~(j < g)
  BY <1>1, <1>4 DEF FirstOfScope, SameScope
<1>6. ~(g < j)
  BY <1>1, <1>4 DEF FirstOfScope, SameScope
<1> QED
  BY <1>1, <1>4, <1>5, <1>6

(* addScopeInfoMetric adds one place for each named scope of an identity,  *)
(* and nothing else.                                                       *)
LEMMA ScopeAddsOne ==
    ASSUME NEW d \in Seq(Resources)
    PROVE  LET e == addScopeInfoMetric(d)
               B == PlacesIn(d)
           IN  /\ \A x \in PlacesIn(e) \ B : TypeAt(e, x) = "gauge" /\ ~UnknownAt(e, x)
                                             /\ NameAt(e, x) = "otel_scope_info"
               /\ \A s \in B : ScopeAt(d, s) = "" => ScopesOf(e, B, IdAt(d, s), ScopeAt(d, s)) = {}
               /\ \A s \in B : ScopeAt(d, s) # "" =>
                     \E y : ScopesOf(e, B, IdAt(d, s), ScopeAt(d, s)) = {y}
<1> DEFINE e == addScopeInfoMetric(d)
           B == PlacesIn(d)
           M(i, j) == Info("otel_scope_info", latestTime(d[i].scopes[j].metrics), TRUE)
           AtEnd(i, j) == Len(d[i].scopes[j].metrics) + 1
           Has(i, j) == d[i].scopes[j].scope # "" /\ FirstOfScope(d, i, j)
<1>1. DOMAIN e = DOMAIN d /\ \A i \in DOMAIN d : e[i].id = d[i].id /\ DOMAIN e[i].scopes = DOMAIN d[i].scopes
                             /\ \A j \in DOMAIN d[i].scopes : e[i].scopes[j] = WithScope(d, i, j)
  <2>1. \A r \in Resources : \A q : [r EXCEPT !.scopes = q].scopes = q /\ [r EXCEPT !.scopes = q].id = r.id
    BY DEF Resources
  <2>2. DOMAIN e = DOMAIN d
    BY DEF addScopeInfoMetric
  <2>3. ASSUME NEW i \in DOMAIN d
        PROVE  e[i].id = d[i].id /\ e[i].scopes = [j \in DOMAIN d[i].scopes |-> WithScope(d, i, j)]
    <3> DEFINE q == [j \in DOMAIN d[i].scopes |-> WithScope(d, i, j)]
    <3>1. e[i] = [d[i] EXCEPT !.scopes = q]
      BY DEF addScopeInfoMetric
    <3> HIDE DEF q, e
    <3>2. e[i].id = d[i].id /\ e[i].scopes = q
      BY <2>1, <3>1
    <3> QED
      BY <3>2 DEF q
  <2> QED
    BY <2>2, <2>3
<1>2. Kept(d, e)
  BY ScopeAdded
<1> HIDE DEF e
<1>3. ASSUME NEW i \in DOMAIN d, NEW j \in DOMAIN d[i].scopes
      PROVE  /\ e[i].scopes[j].scope = d[i].scopes[j].scope
             /\ ~Has(i, j) => DOMAIN e[i].scopes[j].metrics = DOMAIN d[i].scopes[j].metrics
             /\ Has(i, j) => /\ DOMAIN e[i].scopes[j].metrics = 1..AtEnd(i, j)
                             /\ e[i].scopes[j].metrics[AtEnd(i, j)] = M(i, j)
  <2> DEFINE s == d[i].scopes[j]
             ms == s.metrics
             sc == Scoped(ms)
             info == M(i, j)
  <2>1. s \in Scopes /\ ms \in Seq(Metrics)
    BY PlaceFields
  <2>2. sc \in [DOMAIN ms -> {sc[k] : k \in DOMAIN ms}]
    BY DEF Scoped
  <2> HIDE DEF ms, sc, info
  <2>3. sc \in Seq({sc[k] : k \in DOMAIN ms}) /\ Len(sc) = Len(ms) /\ DOMAIN sc = DOMAIN ms
    BY <2>1, <2>2, OnSequence
  <2>4. /\ DOMAIN (sc \o <<>>) = DOMAIN ms
        /\ DOMAIN (sc \o <<info>>) = 1..(Len(ms) + 1) /\ (sc \o <<info>>)[Len(ms) + 1] = info
    <3> DEFINE R == {sc[k] : k \in DOMAIN ms} \cup {info}
    <3>1. sc \in Seq(R) /\ info \in R
      BY <2>3
    <3> HIDE DEF R
    <3>2. \A t \in Seq(R) : /\ t \o <<>> = t
                            /\ DOMAIN (t \o <<info>>) = 1..(Len(t) + 1) /\ (t \o <<info>>)[Len(t) + 1] = info
      BY <3>1
    <3>3. sc \o <<>> = sc
      BY <3>1, <3>2
    <3>4. DOMAIN (sc \o <<info>>) = 1..(Len(sc) + 1) /\ (sc \o <<info>>)[Len(sc) + 1] = info
      BY <3>1, <3>2
    <3> QED
      BY <2>3, <3>3, <3>4
  <2>5. e[i].scopes[j] = IF s.scope = "" THEN s
            ELSE [s EXCEPT !.metrics = sc \o IF FirstOfScope(d, i, j) THEN <<info>> ELSE <<>>]
    BY <1>1 DEF WithScope, sc, ms, info
  <2>6. \A q : [s EXCEPT !.metrics = q].metrics = q /\ [s EXCEPT !.metrics = q].scope = s.scope
    BY <2>1 DEF Scopes
  <2>7. CASE s.scope = ""
    BY <2>5, <2>7
  <2>8. CASE s.scope # "" /\ ~FirstOfScope(d, i, j)
    <3>1. e[i].scopes[j] = [s EXCEPT !.metrics = sc \o <<>>]
      BY <2>5, <2>8
    <3>2. e[i].scopes[j].metrics = sc \o <<>> /\ e[i].scopes[j].scope = s.scope
      BY <2>6, <3>1
    <3> QED
      BY <2>4, <2>8, <3>2 DEF ms
  <2>9. CASE s.scope # "" /\ FirstOfScope(d, i, j)
    <3>1. e[i].scopes[j] = [s EXCEPT !.metrics = sc \o <<info>>]
      BY <2>5, <2>9
    <3>2. e[i].scopes[j].metrics = sc \o <<info>> /\ e[i].scopes[j].scope = s.scope
      BY <2>6, <3>1
    <3> QED
      BY <2>4, <2>9, <3>2 DEF ms, info
  <2> QED
    BY <2>7, <2>8, <2>9
<1>4. \A i, j : M(i, j).name = "otel_scope_info" /\ M(i, j).type = "gauge" /\ ~M(i, j).unknown
                /\ DOMAIN M(i, j).points = {1}
  <2> TAKE i, j
  <2> DEFINE t == latestTime(d[i].scopes[j].metrics)
             m == Info("otel_scope_info", t, TRUE)
  <2>1. m.name = "otel_scope_info" /\ m.type = "gauge" /\ ~m.unknown /\ DOMAIN m.points = {1}
    <3> HIDE DEF t
    <3> QED
      BY InfoFields, ZenonT(60)
  <2> QED
    BY <2>1
<1>5. ASSUME NEW i \in DOMAIN d, NEW j \in DOMAIN d[i].scopes
      PROVE  /\ DOMAIN d[i].scopes[j].metrics = 1..(AtEnd(i, j) - 1) /\ AtEnd(i, j) \in Nat \ {0}
             /\ \A k \in DOMAIN d[i].scopes[j].metrics :
                   DOMAIN e[i].scopes[j].metrics[k].points = DOMAIN d[i].scopes[j].metrics[k].points
  <2>1. /\ DOMAIN d[i].scopes[j].metrics = 1..(AtEnd(i, j) - 1) /\ AtEnd(i, j) \in Nat \ {0}
    BY PlaceFields
  <2>2. ScopeKept(d[i].scopes[j], e[i].scopes[j])
    BY <1>2 DEF Kept, ResourceKept, ScopesKept
  <2> QED
    BY <2>1, <2>2 DEF ScopeKept, MetricsKept, MetricKept
<1> HIDE DEF M, AtEnd, Has
<1>6. ASSUME NEW x \in PlacesIn(e) \ B
      PROVE  /\ x[1] \in DOMAIN d /\ x[2] \in DOMAIN d[x[1]].scopes /\ Has(x[1], x[2])
             /\ x = <<x[1], x[2], AtEnd(x[1], x[2]), 1>> /\ MetricAt(e, x) = M(x[1], x[2])
  <2>1. x = <<x[1], x[2], x[3], x[4]>> /\ Holds(e, x[1], x[2], x[3], x[4])
    BY PlaceOf
  <2>2. ~Holds(d, x[1], x[2], x[3], x[4])
    BY <1>6, <2>1, PlaceOf
  <2>3. x[1] \in DOMAIN d /\ x[2] \in DOMAIN d[x[1]].scopes
    BY <1>1, <2>1 DEF Holds
  <2>4. x[3] \notin DOMAIN d[x[1]].scopes[x[2]].metrics
    BY <1>5, <2>1, <2>2, <2>3 DEF Holds
  <2>5. Has(x[1], x[2])
    BY <1>3, <2>1, <2>3, <2>4 DEF Holds
  <2>6. x[3] = AtEnd(x[1], x[2])
    BY <1>3, <1>5, <2>1, <2>3, <2>4, <2>5 DEF Holds
  <2>7. x[4] = 1
    BY <1>3, <1>4, <2>1, <2>3, <2>5, <2>6 DEF Holds
  <2> QED
    BY <1>3, <2>1, <2>3, <2>5, <2>6, <2>7 DEF MetricAt
<1>7. ASSUME NEW x \in PlacesIn(e) \ B
      PROVE  TypeAt(e, x) = "gauge" /\ ~UnknownAt(e, x) /\ NameAt(e, x) = "otel_scope_info"
  BY <1>4, <1>6 DEF TypeAt, UnknownAt, NameAt
<1>8. ASSUME NEW i \in DOMAIN d, NEW j \in DOMAIN d[i].scopes, Has(i, j)
      PROVE  <<i, j, AtEnd(i, j), 1>> \in PlacesIn(e) \ B
  <2> DEFINE x == <<i, j, AtEnd(i, j), 1>>
  <2>1. Holds(e, i, j, AtEnd(i, j), 1)
    BY <1>1, <1>3, <1>4, <1>5, <1>8 DEF Holds
  <2>2. x \in PlacesIn(e)
    BY <2>1, PlaceOf
  <2>3. ASSUME x \in B PROVE FALSE
    <3>1. Holds(d, x[1], x[2], x[3], x[4])
      BY <2>3, PlaceOf
    <3> QED
      BY <1>5, <1>8, <3>1 DEF Holds
  <2> QED
    BY <2>2, <2>3
<1>9. ASSUME NEW s \in B, ScopeAt(d, s) = ""
      PROVE  ScopesOf(e, B, IdAt(d, s), ScopeAt(d, s)) = {}
  <2>1. ASSUME NEW x \in PlacesIn(e) \ B PROVE ScopeAt(e, x) # ""
    BY <1>3, <1>6, <2>1 DEF ScopeAt, Has
  <2> QED
    BY <1>9, <2>1 DEF ScopesOf
<1>10. ASSUME NEW s \in B, ScopeAt(d, s) # ""
       PROVE  \E y : ScopesOf(e, B, IdAt(d, s), ScopeAt(d, s)) = {y}
  <2> DEFINE i == s[1]
             j == s[2]
  <2>1. i \in DOMAIN d /\ j \in DOMAIN d[i].scopes
    BY PlaceOf DEF Holds
  <2> HIDE DEF i, j
  <2>0. PICK h \in DOMAIN d : \E g \in DOMAIN d[h].scopes : FirstOfScope(d, h, g) /\ SameScope(d, i, j, h, g)
    BY <2>1, FirstScope
  <2>2. PICK g \in DOMAIN d[h].scopes : FirstOfScope(d, h, g) /\ SameScope(d, i, j, h, g)
    BY <2>0
  <2>3. IdAt(d, s) = d[h].id /\ ScopeAt(d, s) = d[h].scopes[g].scope
    BY <2>2 DEF IdAt, ScopeAt, SameScope, i, j
  <2>4. Has(h, g)
    BY <1>10, <2>2, <2>3 DEF Has
  <2> DEFINE y == <<h, g, AtEnd(h, g), 1>>
  <2>5. y \in ScopesOf(e, B, IdAt(d, s), ScopeAt(d, s))
    <3>1. y \in PlacesIn(e) \ B
      BY <1>8, <2>4
    <3>2. IdAt(e, y) = d[h].id /\ ScopeAt(e, y) = d[h].scopes[g].scope
      BY <1>1, <1>3 DEF IdAt, ScopeAt
    <3> HIDE DEF y
    <3> QED
      BY <1>7, <2>3, <3>1, <3>2 DEF ScopesOf
  <2>6. ASSUME NEW x \in ScopesOf(e, B, IdAt(d, s), ScopeAt(d, s)) PROVE x = y
    <3>1. x \in PlacesIn(e) \ B /\ IdAt(e, x) = d[h].id /\ ScopeAt(e, x) = d[h].scopes[g].scope
      BY <2>3 DEF ScopesOf
    <3>2. /\ x[1] \in DOMAIN d /\ x[2] \in DOMAIN d[x[1]].scopes /\ Has(x[1], x[2])
          /\ x = <<x[1], x[2], AtEnd(x[1], x[2]), 1>>
      BY <1>6, <3>1
    <3>3. SameScope(d, h, g, x[1], x[2])
      BY <1>1, <1>3, <3>1, <3>2 DEF IdAt, ScopeAt, SameScope
    <3>4. x[1] = h /\ x[2] = g
      BY <2>2, <3>2, <3>3, FirstScopeOnce DEF Has
    <3> QED
      BY <3>2, <3>4
  <2> QED
    BY <2>5, <2>6
<1> QED
  BY <1>7, <1>9, <1>10 DEF e

(* No two unknown gauges in a scope have points of one name and time.      *)
GaugesApart(d) ==
    \A s, t \in PlacesIn(d) :
        /\ UnknownAt(d, s) /\ UnknownAt(d, t) /\ s[1] = t[1] /\ s[2] = t[2]
        /\ NameAt(d, s) = NameAt(d, t) /\ TimeAt(d, s) = TimeAt(d, t)
        => s = t

(* The counter of a point of an unknown gauge.                             *)
CopyOf(c, m, n) ==
    /\ m.type = "gauge" /\ m.unknown /\ n \in DOMAIN m.points
    /\ c.name = m.name /\ c.type = "sum" /\ c.points = <<m.points[n]>>

(* What addUntypedMetrics makes of an unknown gauge: a copy for each       *)
(* point.                                                                  *)
LEMMA CopyFields ==
    ASSUME NEW m \in Metrics
    PROVE  /\ UntypedCopies(m) \in Seq(Metrics)
           /\ \A n \in DOMAIN UntypedCopies(m) : CopyOf(UntypedCopies(m)[n], m, n)
           /\ m.type = "gauge" /\ m.unknown => DOMAIN UntypedCopies(m) = DOMAIN m.points
<1> DEFINE c(n) == [Untyped(m) EXCEPT !.points = <<m.points[n]>>]
<1>1. m.points \in Seq(Points) /\ Untyped(m) \in Metrics
  BY MetricFields
<1>2. Untyped(m).name = m.name /\ Untyped(m).type = "sum"
  <2> DEFINE P == Seq(Points)
  <2>1. m \in [name : Names, type : MetricTypes, unknown : BOOLEAN, monotonic : BOOLEAN, points : P]
    BY DEF Metrics
  <2> HIDE DEF P
  <2>2. [m EXCEPT !.type = "sum"].name = m.name /\ [m EXCEPT !.type = "sum"].type = "sum"
        /\ [m EXCEPT !.type = "sum"] \in [name : Names, type : STRING \cup {"sum"}, unknown : BOOLEAN, monotonic : BOOLEAN, points : P]
    BY <2>1
  <2>3. Untyped(m) = [[m EXCEPT !.type = "sum"] EXCEPT !.monotonic = TRUE]
    BY DEF Untyped
  <2> QED
    BY <2>2, <2>3
<1>3. \A r \in Metrics : \A q : /\ [r EXCEPT !.points = q].name = r.name
                                /\ [r EXCEPT !.points = q].type = r.type
                                /\ [r EXCEPT !.points = q].points = q
  <2> DEFINE P == Seq(Points)
  <2>1. Metrics = [name : Names, type : MetricTypes, unknown : BOOLEAN, monotonic : BOOLEAN, points : P]
    BY DEF Metrics
  <2> HIDE DEF P
  <2> QED
    BY <2>1
<1>4. \A n \in DOMAIN m.points : /\ c(n) \in Metrics /\ c(n).name = m.name /\ c(n).type = "sum"
                                 /\ c(n).points = <<m.points[n]>>
  <2> TAKE n \in DOMAIN m.points
  <2>1. <<m.points[n]>> \in Seq(Points)
    BY <1>1
  <2> DEFINE q == <<m.points[n]>>
  <2>2. q \in Seq(Points) /\ c(n) = [Untyped(m) EXCEPT !.points = q]
    BY <2>1
  <2> HIDE DEF q, c
  <2>3. c(n) \in Metrics
    BY <1>1, <2>2, MetricFields
  <2>4. c(n).name = m.name /\ c(n).type = "sum" /\ c(n).points = q
    BY <1>1, <1>2, <1>3, <2>2
  <2> QED
    BY <2>3, <2>4 DEF q
<1> HIDE DEF c
<1>5. [n \in DOMAIN m.points |-> c(n)] \in Seq(Metrics)
  <2>1. [n \in DOMAIN m.points |-> c(n)] \in [DOMAIN m.points -> Metrics]
    BY <1>4
  <2> QED
    BY <1>1, <2>1, OnSequence
<1>6. CASE m.type = "gauge" /\ m.unknown
  <2>1. UntypedCopies(m) = [n \in DOMAIN m.points |-> c(n)]
    BY <1>6 DEF UntypedCopies, c
  <2> QED
    BY <1>4, <1>5, <1>6, <2>1 DEF CopyOf
<1>7. CASE ~(m.type = "gauge" /\ m.unknown)
  <2>1. UntypedCopies(m) = <<>>
    BY <1>7 DEF UntypedCopies
  <2> QED
    BY <1>7, <2>1
<1> QED
  BY <1>6, <1>7

(* The counters of a scope: of every point of an unknown gauge one.         *)
Copies(ms) == FlattenSeq([k \in DOMAIN ms |-> UntypedCopies(ms[k])])

(* The copies of a scope, each of one point of one of its gauges.          *)
LEMMA CopiesOf ==
    ASSUME NEW ms \in Seq(Metrics)
    PROVE  /\ Copies(ms) \in Seq(Metrics)
           /\ \A q \in DOMAIN Copies(ms) : \E k \in DOMAIN ms : \E n \in DOMAIN ms[k].points :
                 CopyOf(Copies(ms)[q], ms[k], n)
           /\ \A k \in DOMAIN ms : \A n \in DOMAIN ms[k].points :
                 ms[k].type = "gauge" /\ ms[k].unknown =>
                    \E q \in DOMAIN Copies(ms) : CopyOf(Copies(ms)[q], ms[k], n)
<1> DEFINE seqs == [k \in DOMAIN ms |-> UntypedCopies(ms[k])]
<1>1. \A k \in DOMAIN ms : ms[k] \in Metrics
  OBVIOUS
<1>2. seqs \in Seq(Seq(Metrics)) /\ DOMAIN seqs = DOMAIN ms /\ Len(seqs) = Len(ms)
  <2> DEFINE D == Seq(Metrics)
  <2>1. \A k \in DOMAIN ms : UntypedCopies(ms[k]) \in D
    BY <1>1, CopyFields
  <2>2. seqs \in [DOMAIN ms -> D]
    BY <2>1
  <2> HIDE DEF D, seqs
  <2>3. seqs \in Seq(D) /\ DOMAIN seqs = DOMAIN ms /\ Len(seqs) = Len(ms)
    BY <2>2, OnSequence
  <2> QED
    BY <2>3 DEF D
<1>3. Copies(ms) = FlattenSeq(seqs)
  BY DEF Copies
<1>4. \A k \in DOMAIN ms : seqs[k] = UntypedCopies(ms[k])
  OBVIOUS
<1>5. DOMAIN ms = 1..Len(ms)
  OBVIOUS
<1> HIDE DEF seqs
<1>6. Copies(ms) \in Seq(Metrics)
  BY <1>2, <1>3, Flattened
<1>7. \A x : x \in Range(Copies(ms)) <=> \E k \in DOMAIN ms : x \in Range(UntypedCopies(ms[k]))
  <2>1. \A x : x \in Range(Copies(ms)) <=> \E k \in 1..Len(seqs) : x \in Range(seqs[k])
    BY <1>2, <1>3, FlattenedRange
  <2> QED
    BY <1>2, <1>4, <1>5, <2>1
<1>8. ASSUME NEW q \in DOMAIN Copies(ms)
      PROVE  \E k \in DOMAIN ms : \E n \in DOMAIN ms[k].points : CopyOf(Copies(ms)[q], ms[k], n)
  <2>1. Copies(ms)[q] \in Range(Copies(ms))
    BY DEF Range
  <2>2. PICK k \in DOMAIN ms : Copies(ms)[q] \in Range(UntypedCopies(ms[k]))
    BY <1>7, <2>1
  <2>3. PICK n \in DOMAIN UntypedCopies(ms[k]) : Copies(ms)[q] = UntypedCopies(ms[k])[n]
    BY <2>2 DEF Range
  <2>4. CopyOf(UntypedCopies(ms[k])[n], ms[k], n)
    BY <1>1, <2>3, CopyFields
  <2> QED
    BY <2>3, <2>4 DEF CopyOf
<1>9. ASSUME NEW k \in DOMAIN ms, NEW n \in DOMAIN ms[k].points, ms[k].type = "gauge", ms[k].unknown
      PROVE  \E q \in DOMAIN Copies(ms) : CopyOf(Copies(ms)[q], ms[k], n)
  <2>1. n \in DOMAIN UntypedCopies(ms[k]) /\ CopyOf(UntypedCopies(ms[k])[n], ms[k], n)
    BY <1>1, <1>9, CopyFields
  <2>2. UntypedCopies(ms[k])[n] \in Range(Copies(ms))
    BY <1>7, <2>1 DEF Range
  <2>3. PICK q \in DOMAIN Copies(ms) : Copies(ms)[q] = UntypedCopies(ms[k])[n]
    BY <2>2 DEF Range
  <2> QED
    BY <2>1, <2>3
<1> QED
  BY <1>6, <1>8, <1>9

(* No two of them are alike, if the points are told apart.                 *)
PointsApart(ms) ==
    \A k, l \in DOMAIN ms : \A n \in DOMAIN ms[k].points : \A p \in DOMAIN ms[l].points :
        /\ ms[k].type = "gauge" /\ ms[k].unknown /\ ms[l].type = "gauge" /\ ms[l].unknown
        /\ ms[k].name = ms[l].name /\ ms[k].points[n].time = ms[l].points[p].time
        => k = l /\ n = p

(* Gauges whose points are told apart make copies that are.                *)
LEMMA CopiesApart ==
    ASSUME NEW ms \in Seq(Metrics), PointsApart(ms)
    PROVE  \A q, r \in DOMAIN Copies(ms) :
              /\ Copies(ms)[q].name = Copies(ms)[r].name
              /\ Copies(ms)[q].points[1].time = Copies(ms)[r].points[1].time
              => q = r
<1> DEFINE seqs == [k \in DOMAIN ms |-> UntypedCopies(ms[k])]
           F == Copies(ms)
<1>1. \A k \in DOMAIN ms : ms[k] \in Metrics
  OBVIOUS
<1>2. seqs \in Seq(Seq(Metrics)) /\ DOMAIN seqs = DOMAIN ms /\ Len(seqs) = Len(ms)
  <2> DEFINE D == Seq(Metrics)
  <2>1. \A k \in DOMAIN ms : UntypedCopies(ms[k]) \in D
    BY <1>1, CopyFields
  <2>2. seqs \in [DOMAIN ms -> D]
    BY <2>1
  <2> HIDE DEF D, seqs
  <2>3. seqs \in Seq(D) /\ DOMAIN seqs = DOMAIN ms /\ Len(seqs) = Len(ms)
    BY <2>2, OnSequence
  <2> QED
    BY <2>3 DEF D
<1>3. F = FlattenSeq(seqs)
  BY DEF Copies
<1>4. \A k \in DOMAIN ms : seqs[k] = UntypedCopies(ms[k])
  OBVIOUS
<1>5. DOMAIN ms = 1..Len(ms)
  OBVIOUS
<1> HIDE DEF seqs, F
<1>6. ASSUME NEW k \in DOMAIN ms, NEW l \in DOMAIN ms, NEW n \in DOMAIN UntypedCopies(ms[k]),
             NEW p \in DOMAIN UntypedCopies(ms[l]),
             UntypedCopies(ms[k])[n] = UntypedCopies(ms[l])[p]
      PROVE  k = l /\ n = p
  <2>1. CopyOf(UntypedCopies(ms[k])[n], ms[k], n) /\ CopyOf(UntypedCopies(ms[l])[p], ms[l], p)
    BY <1>1, <1>6, CopyFields
  <2>2. <<ms[k].points[n]>> = <<ms[l].points[p]>> /\ ms[k].name = ms[l].name
    BY <1>6, <2>1 DEF CopyOf
  <2>3. ms[k].points[n] = ms[l].points[p]
    BY <2>2
  <2> QED
    BY <2>1, <2>2, <2>3 DEF CopyOf, PointsApart
<1>7. Apart(seqs)
  <2>1. \A i \in 1..Len(seqs) : IsInjective(seqs[i])
    <3> TAKE i \in 1..Len(seqs)
    <3>1. i \in DOMAIN ms /\ seqs[i] = UntypedCopies(ms[i])
      BY <1>2, <1>4, <1>5
    <3>2. \A n, p \in DOMAIN seqs[i] : seqs[i][n] = seqs[i][p] => n = p
      BY <1>6, <3>1
    <3> QED
      BY <3>2 DEF IsInjective
  <2>2. ASSUME NEW i \in 1..Len(seqs), NEW j \in 1..Len(seqs), NEW x,
               x \in Range(seqs[i]), x \in Range(seqs[j])
        PROVE  i = j
    <3>1. /\ i \in DOMAIN ms /\ seqs[i] = UntypedCopies(ms[i])
          /\ j \in DOMAIN ms /\ seqs[j] = UntypedCopies(ms[j])
      BY <1>2, <1>4, <1>5
    <3>2. PICK n \in DOMAIN seqs[i] : x = seqs[i][n]
      BY <2>2 DEF Range
    <3>3. PICK p \in DOMAIN seqs[j] : x = seqs[j][p]
      BY <2>2 DEF Range
    <3>4. /\ n \in DOMAIN UntypedCopies(ms[i]) /\ p \in DOMAIN UntypedCopies(ms[j])
          /\ UntypedCopies(ms[i])[n] = UntypedCopies(ms[j])[p]
      BY <3>1, <3>2, <3>3
    <3> QED
      BY <1>6, <3>1, <3>4
  <2> QED
    BY <2>1, <2>2 DEF Apart
<1>8. \A q, r \in DOMAIN F : F[q] = F[r] => q = r
  <2>1. IsInjective(F)
    BY <1>2, <1>3, <1>7, FlattenedOnce
  <2> QED
    BY <2>1 DEF IsInjective
<1>9. \A q \in DOMAIN F : \E k \in DOMAIN ms : \E n \in DOMAIN UntypedCopies(ms[k]) :
         F[q] = UntypedCopies(ms[k])[n]
  <2> TAKE q \in DOMAIN F
  <2>1. F[q] \in Range(F)
    BY DEF Range
  <2>2. PICK k \in 1..Len(seqs) : F[q] \in Range(seqs[k])
    BY <1>2, <1>3, <2>1, FlattenedRange
  <2>3. k \in DOMAIN ms /\ F[q] \in Range(UntypedCopies(ms[k]))
    BY <1>2, <1>4, <1>5, <2>2
  <2> QED
    BY <2>3 DEF Range
<1>10. ASSUME NEW q \in DOMAIN F, NEW r \in DOMAIN F, F[q].name = F[r].name,
              F[q].points[1].time = F[r].points[1].time
       PROVE  q = r
  <2>1. PICK k \in DOMAIN ms : \E n \in DOMAIN UntypedCopies(ms[k]) : F[q] = UntypedCopies(ms[k])[n]
    BY <1>9
  <2>2. PICK n \in DOMAIN UntypedCopies(ms[k]) : F[q] = UntypedCopies(ms[k])[n]
    BY <2>1
  <2>3. PICK l \in DOMAIN ms : \E p \in DOMAIN UntypedCopies(ms[l]) : F[r] = UntypedCopies(ms[l])[p]
    BY <1>9
  <2>4. PICK p \in DOMAIN UntypedCopies(ms[l]) : F[r] = UntypedCopies(ms[l])[p]
    BY <2>3
  <2>5. CopyOf(F[q], ms[k], n) /\ CopyOf(F[r], ms[l], p)
    BY <1>1, <2>2, <2>4, CopyFields
  <2>6. F[q].points[1] = ms[k].points[n] /\ F[r].points[1] = ms[l].points[p]
    BY <2>5 DEF CopyOf
  <2>7. k = l /\ n = p
    <3>1. ms[k].points[n].time = ms[l].points[p].time
      BY <1>10, <2>6
    <3>2. /\ ms[k].name = ms[l].name /\ n \in DOMAIN ms[k].points /\ p \in DOMAIN ms[l].points
          /\ ms[k].type = "gauge" /\ ms[k].unknown /\ ms[l].type = "gauge" /\ ms[l].unknown
      BY <1>10, <2>5 DEF CopyOf
    <3> QED
      BY <3>1, <3>2 DEF PointsApart
  <2> QED
    BY <1>8, <2>2, <2>4, <2>7
<1> QED
  BY <1>10 DEF F

(* addUntypedMetrics adds one place for each point of an unknown gauge, and *)
(* nothing else.                                                           *)
CounterOf(d, e, x, s) ==
    /\ x[1] = s[1] /\ x[2] = s[2] /\ UnknownAt(d, s) /\ TypeAt(e, x) = "sum"
    /\ NameAt(e, x) = NameAt(d, s) /\ TimeAt(e, x) = TimeAt(d, s)

(* addUntypedMetrics adds the copies and nothing else: one to each point.  *)
LEMMA UntypedAddsOne ==
    ASSUME NEW d \in Seq(Resources), GaugesApart(d)
    PROVE  LET e == addUntypedMetrics(d)
               B == PlacesIn(d)
           IN  /\ \A x \in PlacesIn(e) \ B : \E s \in B : CounterOf(d, e, x, s)
               /\ \A s \in B : UnknownAt(d, s) => \E y : CountersOf(e, B, s) = {y}
<1> DEFINE e == addUntypedMetrics(d)
           B == PlacesIn(d)
           ms(i, j) == d[i].scopes[j].metrics
           F(i, j) == Copies(ms(i, j))
           L(i, j) == Len(ms(i, j))
<1>1. DOMAIN e = DOMAIN d /\ \A i \in DOMAIN d :
         DOMAIN e[i].scopes = DOMAIN d[i].scopes
         /\ \A j \in DOMAIN d[i].scopes : e[i].scopes[j].metrics = ms(i, j) \o F(i, j)
  <2>1. \A r \in Resources : \A q : [r EXCEPT !.scopes = q].scopes = q
    BY DEF Resources
  <2>2. DOMAIN e = DOMAIN d
    BY DEF addUntypedMetrics
  <2>3. ASSUME NEW i \in DOMAIN d
        PROVE  e[i].scopes = [j \in DOMAIN d[i].scopes |-> WithUntyped(d[i].scopes[j])]
    <3> DEFINE q == [j \in DOMAIN d[i].scopes |-> WithUntyped(d[i].scopes[j])]
    <3>1. e[i] = [d[i] EXCEPT !.scopes = q]
      BY DEF addUntypedMetrics
    <3> HIDE DEF q, e
    <3>2. e[i].scopes = q
      BY <2>1, <3>1
    <3> QED
      BY <3>2 DEF q
  <2>4. ASSUME NEW i \in DOMAIN d, NEW j \in DOMAIN d[i].scopes
        PROVE  WithUntyped(d[i].scopes[j]).metrics = ms(i, j) \o F(i, j)
    <3> DEFINE s == d[i].scopes[j]
               q == s.metrics \o FlattenSeq([k \in DOMAIN s.metrics |-> UntypedCopies(s.metrics[k])])
    <3>1. WithUntyped(s) = [s EXCEPT !.metrics = q]
      BY DEF WithUntyped
    <3>2. s \in Scopes
      BY PlaceFields
    <3>3. q = ms(i, j) \o F(i, j)
      BY DEF Copies
    <3> HIDE DEF q, s
    <3>4. [s EXCEPT !.metrics = q].metrics = q
      BY <3>2 DEF Scopes
    <3> QED
      BY <3>1, <3>3, <3>4 DEF s
  <2> HIDE DEF e
  <2>5. ASSUME NEW i \in DOMAIN d
        PROVE  DOMAIN e[i].scopes = DOMAIN d[i].scopes
    BY <2>3
  <2>6. ASSUME NEW i \in DOMAIN d, NEW j \in DOMAIN d[i].scopes
        PROVE  e[i].scopes[j].metrics = ms(i, j) \o F(i, j)
    <3>1. e[i].scopes[j] = WithUntyped(d[i].scopes[j])
      BY <2>3
    <3> QED
      BY <2>4, <3>1
  <2> HIDE DEF ms, F
  <2> QED
    BY <2>2, <2>5, <2>6
<1> HIDE DEF e
<1>2. ASSUME NEW i \in DOMAIN d, NEW j \in DOMAIN d[i].scopes
      PROVE  /\ ms(i, j) \in Seq(Metrics) /\ F(i, j) \in Seq(Metrics)
             /\ \A q \in DOMAIN F(i, j) : \E k \in DOMAIN ms(i, j) : \E n \in DOMAIN ms(i, j)[k].points :
                   CopyOf(F(i, j)[q], ms(i, j)[k], n)
             /\ \A k \in DOMAIN ms(i, j) : \A n \in DOMAIN ms(i, j)[k].points :
                   ms(i, j)[k].type = "gauge" /\ ms(i, j)[k].unknown =>
                      \E q \in DOMAIN F(i, j) : CopyOf(F(i, j)[q], ms(i, j)[k], n)
  <2>1. ms(i, j) \in Seq(Metrics)
    BY PlaceFields
  <2> QED
    BY <2>1, CopiesOf
<1>3. ASSUME NEW i \in DOMAIN d, NEW j \in DOMAIN d[i].scopes
      PROVE  PointsApart(ms(i, j))
  <2> DEFINE m == ms(i, j)
  <2>1. ASSUME NEW k \in DOMAIN m, NEW l \in DOMAIN m,
               NEW n \in DOMAIN m[k].points, NEW p \in DOMAIN m[l].points,
               m[k].type = "gauge", m[k].unknown, m[l].type = "gauge", m[l].unknown,
               m[k].name = m[l].name, m[k].points[n].time = m[l].points[p].time
        PROVE  k = l /\ n = p
    <3> DEFINE s == <<i, j, k, n>>
               t == <<i, j, l, p>>
    <3>1. s \in PlacesIn(d) /\ t \in PlacesIn(d)
      BY PlaceOf DEF Holds
    <3>2. /\ UnknownAt(d, s) /\ UnknownAt(d, t) /\ s[1] = t[1] /\ s[2] = t[2]
          /\ NameAt(d, s) = NameAt(d, t) /\ TimeAt(d, s) = TimeAt(d, t)
      BY <2>1 DEF UnknownAt, NameAt, TimeAt, MetricAt
    <3> HIDE DEF s, t, m
    <3>3. s = t
      BY <3>1, <3>2 DEF GaugesApart
    <3> QED
      BY <3>3 DEF s, t
  <2>2. PointsApart(m)
    <3> HIDE DEF m
    <3> QED
      BY <2>1, ZenonT(30) DEF PointsApart
  <2> QED
    BY <2>2
<1>4. ASSUME NEW i \in DOMAIN d, NEW j \in DOMAIN d[i].scopes
      PROVE  \A q, r \in DOMAIN F(i, j) :
                /\ F(i, j)[q].name = F(i, j)[r].name
                /\ F(i, j)[q].points[1].time = F(i, j)[r].points[1].time
                => q = r
  BY <1>2, <1>3, CopiesApart
<1> HIDE DEF F
<1>5. ASSUME NEW i \in DOMAIN d, NEW j \in DOMAIN d[i].scopes
      PROVE  /\ L(i, j) \in Nat /\ DOMAIN ms(i, j) = 1..L(i, j)
             /\ \A k \in DOMAIN ms(i, j) : e[i].scopes[j].metrics[k] = ms(i, j)[k]
             /\ \A k \in DOMAIN e[i].scopes[j].metrics :
                   k \notin DOMAIN ms(i, j) => /\ k - L(i, j) \in DOMAIN F(i, j)
                                               /\ k = L(i, j) + (k - L(i, j))
                                               /\ e[i].scopes[j].metrics[k] = F(i, j)[k - L(i, j)]
             /\ \A q \in DOMAIN F(i, j) : /\ L(i, j) + q \in DOMAIN e[i].scopes[j].metrics
                                          /\ L(i, j) + q \notin DOMAIN ms(i, j)
                                          /\ e[i].scopes[j].metrics[L(i, j) + q] = F(i, j)[q]
  <2> DEFINE a == ms(i, j)
             b == F(i, j)
             c == e[i].scopes[j].metrics
  <2>1. a \in Seq(Metrics) /\ b \in Seq(Metrics) /\ c = a \o b
    BY <1>1, <1>2
  <2> HIDE DEF a, b, c
  <2>2. Len(a) \in Nat /\ Len(b) \in Nat /\ DOMAIN a = 1..Len(a) /\ DOMAIN b = 1..Len(b)
        /\ DOMAIN c = 1..(Len(a) + Len(b))
    BY <2>1
  <2>3. \A k \in DOMAIN c : c[k] = IF k <= Len(a) THEN a[k] ELSE b[k - Len(a)]
    BY <2>1
  <2>4. \A k \in DOMAIN a : k \in DOMAIN c /\ k <= Len(a)
    BY <2>2
  <2>5. \A k \in DOMAIN c : k \notin DOMAIN a => /\ ~(k <= Len(a)) /\ k - Len(a) \in DOMAIN b
                                                 /\ k = Len(a) + (k - Len(a))
    BY <2>2
  <2>6. \A q \in DOMAIN b : /\ Len(a) + q \in DOMAIN c /\ Len(a) + q \notin DOMAIN a
                            /\ ~(Len(a) + q <= Len(a)) /\ (Len(a) + q) - Len(a) = q
    BY <2>2
  <2>7. /\ \A k \in DOMAIN a : c[k] = a[k]
        /\ \A k \in DOMAIN c : k \notin DOMAIN a => c[k] = b[k - Len(a)]
        /\ \A q \in DOMAIN b : c[Len(a) + q] = b[q]
    BY <2>3, <2>4, <2>5, <2>6
  <2> QED
    BY <2>2, <2>5, <2>6, <2>7 DEF a, b, c
<1>6. ASSUME NEW x \in PlacesIn(e) \ B
      PROVE  /\ x[1] \in DOMAIN d /\ x[2] \in DOMAIN d[x[1]].scopes
             /\ x[3] - L(x[1], x[2]) \in DOMAIN F(x[1], x[2])
             /\ x = <<x[1], x[2], L(x[1], x[2]) + (x[3] - L(x[1], x[2])), 1>>
             /\ MetricAt(e, x) = F(x[1], x[2])[x[3] - L(x[1], x[2])]
             /\ TimeAt(e, x) = F(x[1], x[2])[x[3] - L(x[1], x[2])].points[1].time
  <2> DEFINE i == x[1]
             j == x[2]
             k == x[3]
             q == k - L(i, j)
             m == e[i].scopes[j].metrics[k]
  <2>1. x = <<i, j, k, x[4]>> /\ Holds(e, i, j, k, x[4])
    BY PlaceOf
  <2>2. ~Holds(d, i, j, k, x[4])
    BY <1>6, <2>1, PlaceOf
  <2> HIDE DEF i, j, k
  <2>3. i \in DOMAIN d /\ j \in DOMAIN d[i].scopes
    BY <1>1, <2>1 DEF Holds
  <2>4. k \in DOMAIN e[i].scopes[j].metrics /\ x[4] \in DOMAIN m.points
    BY <2>1 DEF Holds
  <2>5. ASSUME k \in DOMAIN ms(i, j) PROVE FALSE
    <3>1. m = ms(i, j)[k]
      BY <1>5, <2>3, <2>5
    <3>2. x[4] \in DOMAIN ms(i, j)[k].points
      BY <2>4, <3>1
    <3> QED
      BY <2>2, <2>3, <2>5, <3>2 DEF Holds
  <2>6. q \in DOMAIN F(i, j) /\ k = L(i, j) + q /\ m = F(i, j)[q]
    BY <1>5, <2>3, <2>4, <2>5
  <2> HIDE DEF q, m
  <2>7. DOMAIN m.points = {1}
    <3>1. \E l \in DOMAIN ms(i, j) : \E n \in DOMAIN ms(i, j)[l].points : CopyOf(m, ms(i, j)[l], n)
      BY <1>2, <2>3, <2>6
    <3>2. PICK l, n : CopyOf(m, ms(i, j)[l], n)
      BY <3>1
    <3> QED
      BY <3>2 DEF CopyOf
  <2>8. x[4] = 1
    BY <2>4, <2>7
  <2>9. MetricAt(e, x) = m /\ TimeAt(e, x) = m.points[1].time
    BY <2>8 DEF MetricAt, TimeAt, i, j, k, m
  <2> QED
    BY <2>1, <2>3, <2>6, <2>8, <2>9 DEF i, j, k, q
<1>7. ASSUME NEW x \in PlacesIn(e) \ B PROVE \E s \in B : CounterOf(d, e, x, s)
  <2> DEFINE i == x[1]
             j == x[2]
             q == x[3] - L(x[1], x[2])
  <2>1. /\ i \in DOMAIN d /\ j \in DOMAIN d[i].scopes /\ q \in DOMAIN F(i, j)
        /\ MetricAt(e, x) = F(i, j)[q] /\ TimeAt(e, x) = F(i, j)[q].points[1].time
    BY <1>6
  <2> HIDE DEF q
  <2>2. PICK k \in DOMAIN ms(i, j) : \E n \in DOMAIN ms(i, j)[k].points : CopyOf(F(i, j)[q], ms(i, j)[k], n)
    BY <1>2, <2>1
  <2>3. PICK n \in DOMAIN ms(i, j)[k].points : CopyOf(F(i, j)[q], ms(i, j)[k], n)
    BY <2>2
  <2> DEFINE s == <<i, j, k, n>>
  <2>4. s \in B
    BY <2>1, <2>3, PlaceOf DEF Holds
  <2>5. /\ UnknownAt(d, s) /\ TypeAt(e, x) = "sum" /\ NameAt(e, x) = NameAt(d, s)
        /\ TimeAt(e, x) = TimeAt(d, s)
    <3> DEFINE m == ms(i, j)[k]
               c == F(i, j)[q]
    <3>1. MetricAt(d, s) = m /\ s[4] = n
      BY DEF MetricAt
    <3>2. CopyOf(c, m, n) /\ MetricAt(e, x) = c /\ TimeAt(e, x) = c.points[1].time
      BY <2>1, <2>3
    <3> HIDE DEF s, m, c
    <3>3. UnknownAt(d, s)
      BY <3>1, <3>2 DEF UnknownAt, CopyOf
    <3>4. TypeAt(e, x) = "sum" /\ NameAt(e, x) = NameAt(d, s)
      BY <3>1, <3>2 DEF TypeAt, NameAt, CopyOf
    <3>5. c.points[1] = m.points[n]
      BY <3>2 DEF CopyOf
    <3>6. TimeAt(e, x) = TimeAt(d, s)
      BY <3>1, <3>2, <3>5 DEF TimeAt
    <3> QED
      BY <3>3, <3>4, <3>6
  <2>6. CounterOf(d, e, x, s)
    BY <2>5 DEF CounterOf
  <2> QED
    BY <2>4, <2>6
<1>8. ASSUME NEW s \in B, UnknownAt(d, s) PROVE \E y : CountersOf(e, B, s) = {y}
  <2> DEFINE i == s[1]
             j == s[2]
  <2>1. s = <<s[1], s[2], s[3], s[4]>> /\ Holds(d, s[1], s[2], s[3], s[4])
    BY PlaceOf
  <2>2. /\ i \in DOMAIN d /\ j \in DOMAIN d[i].scopes /\ s[3] \in DOMAIN ms(i, j)
        /\ s[4] \in DOMAIN ms(i, j)[s[3]].points
    BY <2>1 DEF Holds
  <2>3. ms(i, j)[s[3]].type = "gauge" /\ ms(i, j)[s[3]].unknown
    BY <1>8 DEF UnknownAt, MetricAt
  <2>4. PICK q \in DOMAIN F(i, j) : CopyOf(F(i, j)[q], ms(i, j)[s[3]], s[4])
    BY <1>2, <2>2, <2>3
  <2>12. s[1] = i /\ s[2] = j
    OBVIOUS
  <2>13. MetricAt(d, s) = ms(i, j)[s[3]]
    BY DEF MetricAt
  <2> HIDE DEF i, j
  <2> DEFINE y == <<i, j, L(i, j) + q, 1>>
  <2>5. /\ L(i, j) + q \in DOMAIN e[i].scopes[j].metrics /\ L(i, j) + q \notin DOMAIN ms(i, j)
        /\ e[i].scopes[j].metrics[L(i, j) + q] = F(i, j)[q]
    <3>1. \A r \in DOMAIN F(i, j) :
             /\ L(i, j) + r \in DOMAIN e[i].scopes[j].metrics /\ L(i, j) + r \notin DOMAIN ms(i, j)
             /\ e[i].scopes[j].metrics[L(i, j) + r] = F(i, j)[r]
      BY <1>5, <2>2
    <3> QED
      BY <2>4, <3>1
  <2>6. y \in PlacesIn(e) /\ y \notin B
    <3>4. DOMAIN F(i, j)[q].points = {1}
      BY <2>4 DEF CopyOf
    <3>5. i \in DOMAIN e /\ j \in DOMAIN e[i].scopes
      BY <1>1, <2>2
    <3>6. 1 \in DOMAIN e[i].scopes[j].metrics[L(i, j) + q].points
      BY <2>5, <3>4
    <3>1. Holds(e, i, j, L(i, j) + q, 1)
      BY <2>5, <3>5, <3>6 DEF Holds
    <3>2. y \in PlacesIn(e)
      BY <3>1, PlaceOf
    <3>3. ASSUME y \in B PROVE FALSE
      <4>1. Holds(d, y[1], y[2], y[3], y[4])
        BY <3>3, PlaceOf
      <4> QED
        BY <2>5, <4>1 DEF Holds
    <3> QED
      BY <3>2, <3>3
  <2>7. MetricAt(e, y) = F(i, j)[q] /\ TimeAt(e, y) = F(i, j)[q].points[1].time
    BY <2>5 DEF MetricAt, TimeAt
  <2>8. NameAt(d, s) = F(i, j)[q].name /\ TimeAt(d, s) = F(i, j)[q].points[1].time
    <3>1. F(i, j)[q].points[1] = ms(i, j)[s[3]].points[s[4]] /\ F(i, j)[q].name = ms(i, j)[s[3]].name
      BY <2>4 DEF CopyOf
    <3> QED
      BY <2>13, <3>1 DEF NameAt, TimeAt
  <2>9. NameAt(e, s) = NameAt(d, s) /\ TimeAt(e, s) = TimeAt(d, s)
    <3>1. Kept(d, e)
      BY UntypedAdded DEF e
    <3> QED
      BY <3>1, PlaceKept DEF SameAt
  <2>10. y \in CountersOf(e, B, s)
    <3>1. TypeAt(e, y) = "sum" /\ NameAt(e, y) = NameAt(e, s) /\ TimeAt(e, y) = TimeAt(e, s)
      BY <2>4, <2>7, <2>8, <2>9 DEF TypeAt, NameAt, CopyOf
    <3>2. y[1] = s[1] /\ y[2] = s[2]
      BY <2>12
    <3> HIDE DEF y
    <3> QED
      BY <2>6, <3>1, <3>2 DEF CountersOf
  <2>11. ASSUME NEW x \in CountersOf(e, B, s) PROVE x = y
    <3>1. /\ x \in PlacesIn(e) \ B /\ x[1] = i /\ x[2] = j
          /\ NameAt(e, x) = NameAt(e, s) /\ TimeAt(e, x) = TimeAt(e, s)
      BY <2>12 DEF CountersOf
    <3> DEFINE r == x[3] - L(i, j)
    <3>2. /\ r \in DOMAIN F(i, j) /\ x = <<i, j, L(i, j) + r, 1>>
          /\ MetricAt(e, x) = F(i, j)[r] /\ TimeAt(e, x) = F(i, j)[r].points[1].time
      BY <1>6, <3>1
    <3> HIDE DEF r
    <3>3. F(i, j)[r].name = F(i, j)[q].name /\ F(i, j)[r].points[1].time = F(i, j)[q].points[1].time
      BY <2>8, <2>9, <3>1, <3>2 DEF NameAt
    <3>4. r = q
      BY <1>4, <2>2, <2>4, <3>2, <3>3
    <3> QED
      BY <3>2, <3>4
  <2> QED
    BY <2>10, <2>11
<1> QED
  BY <1>7, <1>8 DEF e

(* What the calls have added to the payload p that is d by now: a counters *)
(* for each point of an unknown gauge, b target_infos for each identity,   *)
(* and c otel_scope_infos for each named scope of one.                     *)
Added(p, d, a, b, c) ==
    /\ \A x \in PlacesIn(d) \ PlacesIn(p) : ~UnknownAt(d, x)
    /\ \A s \in PlacesIn(p) :
          /\ Counted(CountersOf(d, PlacesIn(p), s), IF UnknownAt(p, s) THEN a ELSE 0)
          /\ Counted(TargetsOf(d, PlacesIn(p), IdAt(p, s)), b)
          /\ Counted(ScopesOf(d, PlacesIn(p), IdAt(p, s), ScopeAt(p, s)),
                     IF ScopeAt(p, s) # "" THEN c ELSE 0)
(* What a step from d to e adds to that.                                   *)
More(Y, n) == (n = 0 /\ Y = {}) \/ (n = 1 /\ \E y : Y = {y})

Adds(p, d, e, u, t, v) ==
    /\ \A x \in PlacesIn(e) \ PlacesIn(d) : ~UnknownAt(e, x)
    /\ \A s \in PlacesIn(p) :
          /\ More(CountersOf(e, PlacesIn(d), s), IF UnknownAt(p, s) THEN u ELSE 0)
          /\ More(TargetsOf(e, PlacesIn(d), IdAt(p, s)), t)
          /\ More(ScopesOf(e, PlacesIn(d), IdAt(p, s), ScopeAt(p, s)),
                  IF ScopeAt(p, s) # "" THEN v ELSE 0)

(* A step that adds so many.                                               *)
LEMMA CountedMore ==
    ASSUME NEW X, NEW c \in Nat, Counted(X, c), NEW Y, X \cap Y = {}, NEW n, More(Y, n)
    PROVE  Counted(X \cup Y, c + n)
<1>1. CASE n = 0 /\ Y = {}
  <2>1. c + n = c
    BY <1>1
  <2> QED
    BY <1>1, <2>1, OneMore
<1>2. CASE n = 1 /\ \E y : Y = {y}
  BY <1>2, OneMore
<1> QED
  BY <1>1, <1>2 DEF More

(* After a step that adds u, t and v, the calls have added that much more. *)
LEMMA AddedOn ==
    ASSUME NEW p, NEW d, NEW e, Kept(p, d), Kept(d, e), NEW a \in Nat, NEW b \in Nat, NEW c \in Nat,
           Added(p, d, a, b, c), NEW u \in Nat, NEW t \in Nat, NEW v \in Nat,
           Adds(p, d, e, u, t, v)
    PROVE  Added(p, e, a + u, b + t, c + v)
<1> DEFINE B == PlacesIn(p)
<1>1. B \subseteq PlacesIn(d)
  BY PlaceKept
<1> HIDE DEF B
<1>2. /\ \A s \in PlacesIn(d) :
            CountersOf(e, B, s) = CountersOf(d, B, s) \cup CountersOf(e, PlacesIn(d), s)
      /\ \A id : TargetsOf(e, B, id) = TargetsOf(d, B, id) \cup TargetsOf(e, PlacesIn(d), id)
      /\ \A id, scope : ScopesOf(e, B, id, scope) =
            ScopesOf(d, B, id, scope) \cup ScopesOf(e, PlacesIn(d), id, scope)
  BY <1>1, CountedOn
<1>3. ASSUME NEW x \in PlacesIn(e) \ B PROVE ~UnknownAt(e, x)
  <2>1. CASE x \in PlacesIn(d)
    <3>1. UnknownAt(e, x) <=> UnknownAt(d, x)
      BY <2>1, PlaceKept DEF SameAt
    <3>2. ~UnknownAt(d, x)
      BY <2>1 DEF Added, B
    <3> QED
      BY <3>1, <3>2
  <2>2. CASE x \notin PlacesIn(d)
    BY <2>2 DEF Adds
  <2> QED
    BY <2>1, <2>2
<1>4. ASSUME NEW s \in B
      PROVE  Counted(CountersOf(e, B, s), IF UnknownAt(p, s) THEN a + u ELSE 0)
  <2> DEFINE k == IF UnknownAt(p, s) THEN a ELSE 0
             n == IF UnknownAt(p, s) THEN u ELSE 0
             X == CountersOf(d, B, s)
             Y == CountersOf(e, PlacesIn(d), s)
  <2>1. Counted(X, k) /\ More(Y, n)
    BY <1>4 DEF Added, Adds, B
  <2>2. CountersOf(e, B, s) = X \cup Y
    BY <1>1, <1>4, <1>2, Zenon
  <2>3. X \cap Y = {}
    BY DEF CountersOf
  <2>4. k \in Nat /\ k + n = IF UnknownAt(p, s) THEN a + u ELSE 0
    <3>1. CASE UnknownAt(p, s)
      BY <3>1
    <3>2. CASE ~UnknownAt(p, s)
      <4>1. k = 0 /\ n = 0
        BY <3>2
      <4> HIDE DEF k, n
      <4>2. k + n = 0
        BY <4>1
      <4> QED
        BY <3>2, <4>1, <4>2
    <3> QED
      BY <3>1, <3>2
  <2> HIDE DEF k, n, X, Y
  <2>5. Counted(X \cup Y, k + n)
    BY <2>1, <2>3, <2>4, CountedMore
  <2> QED
    BY <2>2, <2>4, <2>5
<1>5. ASSUME NEW s \in B PROVE Counted(TargetsOf(e, B, IdAt(p, s)), b + t)
  <2> DEFINE id == IdAt(p, s)
             X == TargetsOf(d, B, id)
             Y == TargetsOf(e, PlacesIn(d), id)
  <2>1. Counted(X, b) /\ More(Y, t)
    BY <1>5 DEF Added, Adds, B
  <2>2. TargetsOf(e, B, id) = X \cup Y
    BY <1>2, Zenon
  <2>3. X \cap Y = {}
    BY DEF TargetsOf
  <2> HIDE DEF X, Y
  <2>4. Counted(X \cup Y, b + t)
    BY <2>1, <2>3, CountedMore
  <2> QED
    BY <2>2, <2>4
<1>6. ASSUME NEW s \in B
      PROVE  Counted(ScopesOf(e, B, IdAt(p, s), ScopeAt(p, s)), IF ScopeAt(p, s) # "" THEN c + v ELSE 0)
  <2> DEFINE k == IF ScopeAt(p, s) # "" THEN c ELSE 0
             n == IF ScopeAt(p, s) # "" THEN v ELSE 0
             X == ScopesOf(d, B, IdAt(p, s), ScopeAt(p, s))
             Y == ScopesOf(e, PlacesIn(d), IdAt(p, s), ScopeAt(p, s))
  <2>1. Counted(X, k) /\ More(Y, n)
    BY <1>6 DEF Added, Adds, B
  <2>2. ScopesOf(e, B, IdAt(p, s), ScopeAt(p, s)) = X \cup Y
    BY <1>2, Zenon
  <2>3. X \cap Y = {}
    BY DEF ScopesOf
  <2>4. k \in Nat /\ k + n = IF ScopeAt(p, s) # "" THEN c + v ELSE 0
    <3>1. CASE ScopeAt(p, s) # ""
      BY <3>1
    <3>2. CASE ScopeAt(p, s) = ""
      <4>1. k = 0 /\ n = 0
        BY <3>2
      <4> HIDE DEF k, n
      <4>2. k + n = 0
        BY <4>1
      <4> QED
        BY <3>2, <4>1, <4>2
    <3> QED
      BY <3>1, <3>2
  <2> HIDE DEF k, n, X, Y
  <2>5. Counted(X \cup Y, k + n)
    BY <2>1, <2>3, <2>4, CountedMore
  <2> QED
    BY <2>2, <2>4, <2>5
<1> QED
  BY <1>3, <1>4, <1>5, <1>6 DEF Added, B

(* The points of a scope are told apart by their names and times, where    *)
(* one of them is of an unknown gauge; and no unknown gauge has the name   *)
(* of a metric that ExtraMetrics adds.                                     *)
ToldApart(p) ==
    \A s, t \in PlacesIn(p) :
        /\ UnknownAt(p, t) /\ s[1] = t[1] /\ s[2] = t[2]
        /\ NameAt(p, s) = NameAt(p, t) /\ TimeAt(p, s) = TimeAt(p, t)
        => s = t
NamesFree(p) ==
    \A s \in PlacesIn(p) : UnknownAt(p, s) => NameAt(p, s) \notin {"target_info", "otel_scope_info"}

(* addUntypedMetrics adds a counter to each point of an unknown gauge.      *)
LEMMA UntypedCounted ==
    ASSUME NEW p, NEW d \in Seq(Resources), Kept(p, d), ToldApart(p), NamesFree(p),
           NEW a \in Nat, NEW b \in Nat, NEW c \in Nat, Added(p, d, a, b, c)
    PROVE  Added(p, addUntypedMetrics(d), a + 1, b, c)
<1> DEFINE e == addUntypedMetrics(d)
<1>1. Kept(d, e)
  BY UntypedAdded
<1>2. \A s \in PlacesIn(p) : s \in PlacesIn(d) /\ SameAt(p, d, s)
  BY PlaceKept
<1>3. \A s \in PlacesIn(d) : UnknownAt(d, s) => s \in PlacesIn(p)
  BY DEF Added
<1>4. \A s \in PlacesIn(d) : s \in PlacesIn(e) /\ SameAt(d, e, s)
  BY <1>1, PlaceKept
<1>5. GaugesApart(d)
  BY <1>2, <1>3 DEF GaugesApart, ToldApart, SameAt
<1>6. /\ \A x \in PlacesIn(e) \ PlacesIn(d) : \E s \in PlacesIn(d) : CounterOf(d, e, x, s)
      /\ \A s \in PlacesIn(d) : UnknownAt(d, s) => \E y : CountersOf(e, PlacesIn(d), s) = {y}
  BY <1>5, UntypedAddsOne
<1> HIDE DEF e
<1>7. \A x \in PlacesIn(e) \ PlacesIn(d) :
         \E s \in PlacesIn(p) : CounterOf(d, e, x, s) /\ UnknownAt(p, s) /\ NameAt(p, s) = NameAt(e, x)
                                /\ TimeAt(p, s) = TimeAt(e, x)
  BY <1>2, <1>3, <1>6 DEF CounterOf, SameAt
<1>8. \A x \in PlacesIn(e) \ PlacesIn(d) :
         ~UnknownAt(e, x) /\ NameAt(e, x) \notin {"target_info", "otel_scope_info"}
  BY <1>7 DEF UnknownAt, TypeAt, CounterOf, NamesFree
<1>9. ASSUME NEW s \in PlacesIn(p)
      PROVE  /\ More(CountersOf(e, PlacesIn(d), s), IF UnknownAt(p, s) THEN 1 ELSE 0)
             /\ More(TargetsOf(e, PlacesIn(d), IdAt(p, s)), 0)
             /\ More(ScopesOf(e, PlacesIn(d), IdAt(p, s), ScopeAt(p, s)),
                     IF ScopeAt(p, s) # "" THEN 0 ELSE 0)
  <2>1. TargetsOf(e, PlacesIn(d), IdAt(p, s)) = {}
    BY <1>8 DEF TargetsOf
  <2>2. ScopesOf(e, PlacesIn(d), IdAt(p, s), ScopeAt(p, s)) = {}
    BY <1>8 DEF ScopesOf
  <2>3. CASE UnknownAt(p, s)
    <3>1. \E y : CountersOf(e, PlacesIn(d), s) = {y}
      BY <1>2, <1>6, <2>3 DEF SameAt
    <3> QED
      BY <2>1, <2>2, <2>3, <3>1 DEF More
  <2>4. CASE ~UnknownAt(p, s)
    <3>1. ASSUME NEW x \in CountersOf(e, PlacesIn(d), s) PROVE FALSE
      <4>1. /\ x \in PlacesIn(e) \ PlacesIn(d) /\ x[1] = s[1] /\ x[2] = s[2]
            /\ NameAt(e, x) = NameAt(p, s) /\ TimeAt(e, x) = TimeAt(p, s)
        BY <1>2, <1>4 DEF CountersOf, SameAt
      <4>2. PICK r \in PlacesIn(p) : CounterOf(d, e, x, r) /\ UnknownAt(p, r)
                /\ NameAt(p, r) = NameAt(e, x) /\ TimeAt(p, r) = TimeAt(e, x)
        BY <1>7, <4>1
      <4>3. s[1] = r[1] /\ s[2] = r[2] /\ NameAt(p, s) = NameAt(p, r) /\ TimeAt(p, s) = TimeAt(p, r)
        BY <4>1, <4>2 DEF CounterOf
      <4>4. s = r
        BY <4>2, <4>3 DEF ToldApart
      <4> QED
        BY <2>4, <4>2, <4>4
    <3>2. CountersOf(e, PlacesIn(d), s) = {}
      BY <3>1
    <3> QED
      BY <2>1, <2>2, <2>4, <3>2 DEF More
  <2> QED
    BY <2>3, <2>4
<1>10. Added(p, e, a + 1, b + 0, c + 0)
  BY <1>1, <1>8, <1>9, AddedOn DEF Adds
<1> QED
  BY <1>10 DEF e

(* addTargetInfoMetric adds a target_info to each identity.                *)
LEMMA TargetCounted ==
    ASSUME NEW p, NEW d \in Seq(Resources), Kept(p, d),
           NEW a \in Nat, NEW b \in Nat, NEW c \in Nat, Added(p, d, a, b, c)
    PROVE  Added(p, addTargetInfoMetric(d), a, b + 1, c)
<1> DEFINE e == addTargetInfoMetric(d)
<1>1. Kept(d, e)
  BY TargetAdded
<1>2. \A s \in PlacesIn(p) : s \in PlacesIn(d) /\ IdAt(d, s) = IdAt(p, s)
  BY PlaceKept DEF SameAt
<1>3. /\ \A x \in PlacesIn(e) \ PlacesIn(d) : /\ TypeAt(e, x) = "gauge" /\ ~UnknownAt(e, x)
                                              /\ NameAt(e, x) = "target_info"
      /\ \A s \in PlacesIn(d) : \E y : TargetsOf(e, PlacesIn(d), IdAt(d, s)) = {y}
  BY TargetAddsOne
<1> HIDE DEF e
<1>4. ASSUME NEW s \in PlacesIn(p)
      PROVE  /\ More(CountersOf(e, PlacesIn(d), s), IF UnknownAt(p, s) THEN 0 ELSE 0)
             /\ More(TargetsOf(e, PlacesIn(d), IdAt(p, s)), 1)
             /\ More(ScopesOf(e, PlacesIn(d), IdAt(p, s), ScopeAt(p, s)),
                     IF ScopeAt(p, s) # "" THEN 0 ELSE 0)
  <2>1. CountersOf(e, PlacesIn(d), s) = {}
    BY <1>3 DEF CountersOf
  <2>2. ScopesOf(e, PlacesIn(d), IdAt(p, s), ScopeAt(p, s)) = {}
    BY <1>3 DEF ScopesOf
  <2>3. \E y : TargetsOf(e, PlacesIn(d), IdAt(p, s)) = {y}
    BY <1>2, <1>3
  <2> QED
    BY <2>1, <2>2, <2>3 DEF More
<1>5. Added(p, e, a + 0, b + 1, c + 0)
  BY <1>1, <1>3, <1>4, AddedOn DEF Adds
<1> QED
  BY <1>5 DEF e

(* addScopeInfoMetric adds an otel_scope_info to each named scope of one.   *)
LEMMA ScopeCounted ==
    ASSUME NEW p, NEW d \in Seq(Resources), Kept(p, d),
           NEW a \in Nat, NEW b \in Nat, NEW c \in Nat, Added(p, d, a, b, c)
    PROVE  Added(p, addScopeInfoMetric(d), a, b, c + 1)
<1> DEFINE e == addScopeInfoMetric(d)
<1>1. Kept(d, e)
  BY ScopeAdded
<1>2. \A s \in PlacesIn(p) : s \in PlacesIn(d) /\ IdAt(d, s) = IdAt(p, s) /\ ScopeAt(d, s) = ScopeAt(p, s)
  BY PlaceKept DEF SameAt
<1>3. /\ \A x \in PlacesIn(e) \ PlacesIn(d) : /\ TypeAt(e, x) = "gauge" /\ ~UnknownAt(e, x)
                                              /\ NameAt(e, x) = "otel_scope_info"
      /\ \A s \in PlacesIn(d) : ScopeAt(d, s) = "" =>
            ScopesOf(e, PlacesIn(d), IdAt(d, s), ScopeAt(d, s)) = {}
      /\ \A s \in PlacesIn(d) : ScopeAt(d, s) # "" =>
            \E y : ScopesOf(e, PlacesIn(d), IdAt(d, s), ScopeAt(d, s)) = {y}
  BY ScopeAddsOne
<1> HIDE DEF e
<1>4. ASSUME NEW s \in PlacesIn(p)
      PROVE  /\ More(CountersOf(e, PlacesIn(d), s), IF UnknownAt(p, s) THEN 0 ELSE 0)
             /\ More(TargetsOf(e, PlacesIn(d), IdAt(p, s)), 0)
             /\ More(ScopesOf(e, PlacesIn(d), IdAt(p, s), ScopeAt(p, s)),
                     IF ScopeAt(p, s) # "" THEN 1 ELSE 0)
  <2>1. CountersOf(e, PlacesIn(d), s) = {}
    BY <1>3 DEF CountersOf
  <2>2. TargetsOf(e, PlacesIn(d), IdAt(p, s)) = {}
    BY <1>3 DEF TargetsOf
  <2>3. More(ScopesOf(e, PlacesIn(d), IdAt(p, s), ScopeAt(p, s)), IF ScopeAt(p, s) # "" THEN 1 ELSE 0)
    <3>1. CASE ScopeAt(p, s) = ""
      <4>1. ScopesOf(e, PlacesIn(d), IdAt(p, s), ScopeAt(p, s)) = {}
        BY <1>2, <1>3, <3>1
      <4> QED
        BY <3>1, <4>1 DEF More
    <3>2. CASE ScopeAt(p, s) # ""
      <4>1. \E y : ScopesOf(e, PlacesIn(d), IdAt(p, s), ScopeAt(p, s)) = {y}
        BY <1>2, <1>3, <3>2
      <4> QED
        BY <3>2, <4>1 DEF More
    <3> QED
      BY <3>1, <3>2
  <2> QED
    BY <2>1, <2>2, <2>3 DEF More
<1>5. Added(p, e, a + 0, b + 0, c + 1)
  BY <1>1, <1>3, <1>4, AddedOn DEF Adds
<1> QED
  BY <1>5 DEF e

(* convertIntToDouble leaves the counts as they are.                       *)
LEMMA ConvertedCounted ==
    ASSUME NEW p, NEW d \in Seq(Resources), Kept(p, d),
           NEW a \in Nat, NEW b \in Nat, NEW c \in Nat, Added(p, d, a, b, c)
    PROVE  Added(p, convertIntToDouble(d), a, b, c)
<1> DEFINE e == convertIntToDouble(d)
<1>1. Kept(d, e)
  BY ConvertedTyped
<1>2. \A x \in PlacesIn(e) \ PlacesIn(d) : FALSE
  BY ConvertedAddsNothing
<1> HIDE DEF e
<1>3. ASSUME NEW s \in PlacesIn(p)
      PROVE  /\ More(CountersOf(e, PlacesIn(d), s), IF UnknownAt(p, s) THEN 0 ELSE 0)
             /\ More(TargetsOf(e, PlacesIn(d), IdAt(p, s)), 0)
             /\ More(ScopesOf(e, PlacesIn(d), IdAt(p, s), ScopeAt(p, s)),
                     IF ScopeAt(p, s) # "" THEN 0 ELSE 0)
  BY <1>2 DEF More, CountersOf, TargetsOf, ScopesOf
<1>4. Added(p, e, a + 0, b + 0, c + 0)
  BY <1>1, <1>2, <1>3, AddedOn DEF Adds
<1> QED
  BY <1>4 DEF e

(* A call of ExtraMetrics adds one of each, as the config says.             *)
LEMMA ExtraCounted ==
    ASSUME NEW p, NEW d \in Seq(Resources), Kept(p, d), ToldApart(p), NamesFree(p), NEW config \in Configs,
           NEW n \in Nat,
           Added(p, d, n, IF config.targetInfo THEN n ELSE 0, IF config.scopeInfo THEN n ELSE 0)
    PROVE  Added(p, ExtraMetrics(d, config), n + 1, IF config.targetInfo THEN n + 1 ELSE 0,
                 IF config.scopeInfo THEN n + 1 ELSE 0)
<1> DEFINE b == IF config.targetInfo THEN n ELSE 0
           c == IF config.scopeInfo THEN n ELSE 0
           b1 == IF config.targetInfo THEN n + 1 ELSE 0
           c1 == IF config.scopeInfo THEN n + 1 ELSE 0
           untyped == addUntypedMetrics(d)
           target == IF config.targetInfo THEN addTargetInfoMetric(untyped) ELSE untyped
           scope == IF config.scopeInfo THEN addScopeInfoMetric(target) ELSE target
<1>1. b \in Nat /\ c \in Nat /\ b1 \in Nat /\ c1 \in Nat
      /\ (config.targetInfo => b1 = b + 1) /\ (~config.targetInfo => b1 = b)
      /\ (config.scopeInfo => c1 = c + 1) /\ (~config.scopeInfo => c1 = c)
  OBVIOUS
<1> HIDE DEF b, c, b1, c1
<1>2. untyped \in Seq(Resources) /\ Kept(p, untyped)
  BY UntypedAdded, KeptTwice
<1>3. Added(p, untyped, n + 1, b, c)
  BY <1>1, UntypedCounted DEF b, c
<1> HIDE DEF untyped
<1>4. target \in Seq(Resources) /\ Kept(p, target) /\ Added(p, target, n + 1, b1, c)
  <2>1. CASE config.targetInfo
    <3>1. addTargetInfoMetric(untyped) \in Seq(Resources) /\ Kept(p, addTargetInfoMetric(untyped))
      BY <1>2, TargetAdded, KeptTwice
    <3>2. Added(p, addTargetInfoMetric(untyped), n + 1, b + 1, c)
      BY <1>1, <1>2, <1>3, TargetCounted
    <3> QED
      BY <1>1, <2>1, <3>1, <3>2
  <2>2. CASE ~config.targetInfo
    BY <1>1, <1>2, <1>3, <2>2
  <2> QED
    BY <2>1, <2>2
<1> HIDE DEF target
<1>5. scope \in Seq(Resources) /\ Kept(p, scope) /\ Added(p, scope, n + 1, b1, c1)
  <2>1. CASE config.scopeInfo
    <3>1. addScopeInfoMetric(target) \in Seq(Resources) /\ Kept(p, addScopeInfoMetric(target))
      BY <1>4, ScopeAdded, KeptTwice
    <3>2. Added(p, addScopeInfoMetric(target), n + 1, b1, c + 1)
      BY <1>1, <1>4, ScopeCounted
    <3> QED
      BY <1>1, <2>1, <3>1, <3>2
  <2>2. CASE ~config.scopeInfo
    BY <1>1, <1>4, <2>2
  <2> QED
    BY <2>1, <2>2
<1> HIDE DEF scope
<1>6. Added(p, convertIntToDouble(scope), n + 1, b1, c1)
  BY <1>1, <1>5, ConvertedCounted
<1>7. ExtraMetrics(d, config) = IF config.intToDouble THEN convertIntToDouble(scope) ELSE scope
  BY DEF ExtraMetrics, scope, target, untyped
<1> QED
  BY <1>5, <1>6, <1>7 DEF b1, c1

(* Nothing has been added to a payload that is as it was.                  *)
LEMMA NothingAdded == \A p : Added(p, p, 0, 0, 0)
<1> SUFFICES ASSUME NEW p PROVE Added(p, p, 0, 0, 0)
  OBVIOUS
<1>1. \A x \in PlacesIn(p) \ PlacesIn(p) : FALSE
  OBVIOUS
<1>2. ASSUME NEW s \in PlacesIn(p)
      PROVE  /\ CountersOf(p, PlacesIn(p), s) = {}
             /\ TargetsOf(p, PlacesIn(p), IdAt(p, s)) = {}
             /\ ScopesOf(p, PlacesIn(p), IdAt(p, s), ScopeAt(p, s)) = {}
  BY <1>1 DEF CountersOf, TargetsOf, ScopesOf
<1>3. Counted({}, 0)
  BY FS_EmptySet DEF Counted
<1> QED
  BY <1>1, <1>2, <1>3 DEF Added

(* The counts are part of the invariant.                                   *)
Calls == IF push.signal = "metrics" /\ push.started THEN pushCalls ELSE 0
AddedNow ==
    /\ pushCalls \in Nat
    /\ Added(push.payload, given, Calls, IF push.extra.targetInfo THEN Calls ELSE 0,
             IF push.extra.scopeInfo THEN Calls ELSE 0)
PayloadsApart == \A p \in Pushes : ToldApart(p.payload) /\ NamesFree(p.payload)

(* The counts hold before the first call, and each step keeps them.        *)
LEMMA AddedInit == PushInit => AddedNow
<1> SUFFICES ASSUME PushInit PROVE AddedNow
  OBVIOUS
<1>1. pushCalls = 0 /\ given = push.payload
  BY DEF PushInit
<1>2. Calls = 0 /\ (IF push.extra.targetInfo THEN Calls ELSE 0) = 0 /\ (IF push.extra.scopeInfo THEN Calls ELSE 0) = 0
  BY <1>1 DEF Calls
<1> QED
  BY <1>1, <1>2, NothingAdded DEF AddedNow

(* Only PushCall changes them, and it adds one of each.                    *)
LEMMA AddedNext == PayloadsApart /\ PInv /\ AddedNow /\ [PushNext]_pushVars => AddedNow'
<1> SUFFICES ASSUME PayloadsApart, PInv, AddedNow, [PushNext]_pushVars PROVE AddedNow'
  OBVIOUS
<1>0. /\ push \in Pushes /\ given \in Seq(Resources) /\ Kept(push.payload, given)
      /\ push.extra \in Configs
  BY ProjectPushAssumption DEF PInv
<1>1. ASSUME UNCHANGED <<push, given>>, pushCalls' = pushCalls PROVE AddedNow'
  BY <1>1 DEF AddedNow, Calls
<1>2. CASE PushSend
  BY <1>1, <1>2 DEF PushSend
<1>3. CASE PushReturn
  BY <1>1, <1>3 DEF PushReturn
<1>4. CASE UNCHANGED pushVars
  BY <1>1, <1>4 DEF pushVars
<1>5. CASE PushCall
  <2>1. push' = push /\ pushCalls' = pushCalls + 1 /\ pushCalls' \in Nat
    BY <1>5 DEF PushCall, AddedNow
  <2>2. CASE push.started /\ push.signal = "metrics"
    <3>1. given' = ExtraMetrics(given, push.extra)
      BY <1>5, <2>2 DEF PushCall, Called
    <3>2. Calls = pushCalls /\ Calls' = pushCalls + 1
      BY <2>1, <2>2 DEF Calls
    <3>3. ToldApart(push.payload) /\ NamesFree(push.payload)
      BY <1>0 DEF PayloadsApart
    <3> DEFINE n == pushCalls
    <3>4. n \in Nat /\ Added(push.payload, given, n, IF push.extra.targetInfo THEN n ELSE 0,
                             IF push.extra.scopeInfo THEN n ELSE 0)
      BY <3>2 DEF AddedNow
    <3> HIDE DEF n
    <3>5. Added(push.payload, ExtraMetrics(given, push.extra), n + 1,
                IF push.extra.targetInfo THEN n + 1 ELSE 0, IF push.extra.scopeInfo THEN n + 1 ELSE 0)
      BY <1>0, <3>3, <3>4, ExtraCounted
    <3> QED
      BY <2>1, <3>1, <3>2, <3>5 DEF AddedNow, n
  <2>3. CASE ~(push.started /\ push.signal = "metrics")
    <3>1. given' = given
      BY <1>5, <2>3 DEF PushCall, Called
    <3>2. Calls = 0 /\ Calls' = 0
      BY <2>1, <2>3 DEF Calls
    <3> QED
      BY <2>1, <3>1, <3>2 DEF AddedNow
  <2> QED
    BY <2>2, <2>3
<1> QED
  BY <1>2, <1>3, <1>4, <1>5 DEF PushNext

(* AddedOncePerCall: however often the exporterhelper calls again with the *)
(* payload that ExtraMetrics has added to already, each call adds one      *)
(* target_info per identity, one otel_scope_info per named scope, and one  *)
(* counter per point of an unknown gauge, never one for what was added;    *)
(* and it loses and moves nothing of what was there.                       *)
THEOREM EachCallAddsOnce == PayloadsApart => (PushSpec => []AddedOncePerCall)
<1> SUFFICES ASSUME PayloadsApart PROVE PushSpec => []AddedOncePerCall
  OBVIOUS
<1>1. PInv /\ AddedNow => AddedOncePerCall
  <2> SUFFICES ASSUME PInv, AddedNow PROVE AddedOncePerCall
    OBVIOUS
  <2> DEFINE p == push.payload
             before == Range(Series(p))
             now == Range(Series(given))
             t == IF push.extra.targetInfo THEN Calls ELSE 0
             v == IF push.extra.scopeInfo THEN Calls ELSE 0
  <2>1. /\ push \in Pushes /\ given \in Seq(Resources) /\ p \in Seq(Resources) /\ Kept(p, given)
    BY ProjectPushAssumption DEF PInv
  <2>2. before = PlacesIn(p) /\ now = PlacesIn(given)
    BY <2>1, EveryPointOnce
  <2>3. Added(p, given, Calls, t, v)
    BY DEF AddedNow
  <2> HIDE DEF p, before, now, t, v
  <2>4. \A s \in before : s \in now /\ SameAt(p, given, s)
    BY <2>1, <2>2, PlaceKept
  <2>5. ASSUME NEW s \in before
        PROVE  [MetricAt(given, s) EXCEPT !.points = <<>>] = [MetricAt(p, s) EXCEPT !.points = <<>>]
    <3>1. MetricAt(given, s) \in Metrics /\ MetricAt(p, s) \in Metrics
      <4>1. Holds(given, s[1], s[2], s[3], s[4]) /\ Holds(p, s[1], s[2], s[3], s[4])
        BY <2>2, <2>4, PlaceOf
      <4> QED
        BY <2>1, <4>1, PlaceFields DEF Holds, MetricAt
    <3>2. MetricKept(MetricAt(p, s), MetricAt(given, s))
      <4>1. Holds(p, s[1], s[2], s[3], s[4])
        BY <2>2, PlaceOf
      <4> QED
        BY <2>1, <4>1 DEF Holds, MetricAt, Kept, ResourceKept, ScopesKept, ScopeKept, MetricsKept
    <3> DEFINE P == Seq(Points)
               m == MetricAt(given, s)
               n == MetricAt(p, s)
    <3>3. /\ m \in [name : Names, type : MetricTypes, unknown : BOOLEAN, monotonic : BOOLEAN, points : P]
          /\ n \in [name : Names, type : MetricTypes, unknown : BOOLEAN, monotonic : BOOLEAN, points : P]
          /\ m.name = n.name /\ m.type = n.type /\ m.unknown = n.unknown /\ m.monotonic = n.monotonic
      BY <3>1, <3>2 DEF Metrics, MetricKept
    <3> HIDE DEF P, m, n
    <3>4. [m EXCEPT !.points = <<>>] = [n EXCEPT !.points = <<>>]
      BY <3>3
    <3> QED
      BY <3>4 DEF m, n
  <2>6. ASSUME NEW s \in before
        PROVE  /\ Cardinality(CountersOf(given, before, s)) = IF UnknownAt(given, s) THEN Calls ELSE 0
               /\ Cardinality(TargetsOf(given, before, IdAt(given, s))) = t
               /\ Cardinality(ScopesOf(given, before, IdAt(given, s), ScopeAt(given, s))) =
                     IF ScopeAt(given, s) # "" THEN v ELSE 0
    <3>1. /\ UnknownAt(given, s) <=> UnknownAt(p, s)
          /\ IdAt(given, s) = IdAt(p, s) /\ ScopeAt(given, s) = ScopeAt(p, s)
      BY <2>4 DEF SameAt
    <3>2. s \in PlacesIn(p)
      BY <2>2
    <3> QED
      BY <2>2, <2>3, <3>1, <3>2 DEF Added, Counted
  <2>7. ASSUME NEW s \in before
        PROVE  /\ CountersOf(given, before, s) =
                     {x \in now \ before : /\ x[1] = s[1] /\ x[2] = s[2] /\ MetricAt(given, x).type = "sum"
                                  /\ MetricAt(given, x).name = MetricAt(given, s).name
                                  /\ MetricAt(given, x).points[x[4]].time = MetricAt(given, s).points[s[4]].time}
               /\ TargetsOf(given, before, IdAt(given, s)) =
                     {x \in now \ before : given[x[1]].id = given[s[1]].id /\ MetricAt(given, x).name = "target_info"}
               /\ ScopesOf(given, before, IdAt(given, s), ScopeAt(given, s)) =
                     {x \in now \ before : /\ given[x[1]].id = given[s[1]].id
                                  /\ given[x[1]].scopes[x[2]].scope = given[s[1]].scopes[s[2]].scope
                                  /\ MetricAt(given, x).name = "otel_scope_info"}
    BY <2>2 DEF CountersOf, TargetsOf, ScopesOf, NameAt, TypeAt, TimeAt, IdAt, ScopeAt
  <2>8. before \subseteq now
    BY <2>4
  <2> QED
    BY <2>5, <2>6, <2>7, <2>8, ZenonT(30) DEF AddedOncePerCall, p, before, now, t, v, Calls, UnknownAt, ScopeAt
<1>2. PushSpec => []AddedNow
  <2>1. PInv /\ AddedNow /\ [PushNext]_pushVars => AddedNow'
    BY AddedNext
  <2> QED
    BY <2>1, AddedInit, PushInvariant, PTL DEF PushSpec
<1> QED
  BY <1>1, <1>2, PushInvariant, PTL
=============================================================================
