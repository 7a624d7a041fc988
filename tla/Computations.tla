---------------------------- MODULE Computations ----------------------------
(***************************************************************************)
(* The parts of the system that are functions of their inputs: how a log   *)
(* entry is split, what a log record, a resource, a metric, a histogram or *)
(* a span is mapped to, what is put in and read from a trace header, and   *)
(* which of the settings are taken.  Compute applies one of them to one of *)
(* its inputs; the properties relate the input to what comes out of it.    *)
(***************************************************************************)
EXTENDS LogSplit, LogRecords, MonitoredResources, PrometheusMetrics, MetricMapping,
        Distributions, Propagator, TraceSpans, Settings

CONSTANTS Inputs,        \* the inputs that are tried, by the function they are for
          maxEntrySize,  \* the size a log entry is split at
          spanDigits,    \* the digits a span may have in a header
          spanLimit      \* and the number it is below

VARIABLES part,   \* the function
          input   \* {its input}, or {} before it is chosen

computeVars == <<part, input>>
-----------------------------------------------------------------------------
(* What the inputs are: those that the functions are called with.  A log   *)
(* entry has some overhead, its log name for one.                          *)
IsSplit(x) ==
    /\ x.n \in Nat /\ x.overhead \in Nat \ {0}
    /\ x.slips \subseteq Inexact(x.n, SplitsFor(x.n, Room(maxEntrySize, x.overhead)))
IsText(text) == text \in Seq(Nat)

IsLogRecord(r) ==
    r \in [logName : STRING, time : Nat, observed : Nat, severity : Int, text : STRING,
           sourceLocation : STRING, httpRequest : STRING, operation : STRING,
           traceSampled : STRING, sampledFlag : BOOLEAN, eventName : STRING,
           attributes : {r.attributes}, body : Bodies]
IsMapped(x) == IsLogRecord(x.r) /\ x.now \in Int /\ x.later \in Int
IsNumber(x) == x.n \in Int /\ x.half \in Nat \ {0} /\ x.wide \in Nat /\ x.half <= x.wide

(* A pod with the name of an unknown service is passed over, and an empty  *)
(* gcp.resource_type or an unknown function is not written by a detector.  *)
IsResource(x) ==
    LET attrs == x.attrs IN
    /\ Has(attrs, "k8s.pod.name") => attrs["k8s.pod.name"] # Unknown
    /\ Has(attrs, "gcp.resource_type") => attrs["gcp.resource_type"] # ""
    /\ GetString(attrs, "faas.name") # Unknown
IsNamed(m) ==
    m \in [type : {"sum", "gauge", "summary", "histogram", "exponential"}, monotonic : BOOLEAN,
           unknown : BOOLEAN, total : BOOLEAN, own : STRING]

(* A metric of any number of points, with whatever unit and attributes.    *)
PointsWith(Attributes) ==
    [value : {"int", "double", "empty"}, noValue : BOOLEAN, hasSum : BOOLEAN, bounds : Nat,
     kept : BOOLEAN, quantiles : Nat, attrs : Attributes]
MetricsWith(Units, Attributes) ==
    [type : {"gauge", "sum", "histogram", "exponential", "summary"}, monotonic : BOOLEAN,
     cumulative : BOOLEAN, named : BOOLEAN, unit : Units, points : Seq(PointsWith(Attributes))]
Sanitized(labels) == \A k \in DOMAIN labels : sanitizeKey(k) = k
IsMetricOf(x) ==
    /\ x.m \in MetricsWith({x.m.unit}, {p.attrs : p \in Range(x.m.points)})
    /\ Sanitized(x.extra)

(* A histogram has one bucket more than bounds, and counts all of them.    *)
ExemplarsOf == [value : Int, span : BOOLEAN, trace : BOOLEAN, labels : BOOLEAN]
IsSum(sum) == sum = NaN \/ (sum[1] \in Int /\ sum = <<sum[1]>>)
HistogramPoint(p) ==
    /\ p.counts \in Seq(Nat) /\ p.bounds \in Seq(Int) /\ Len(p.counts) = Len(p.bounds) + 1
    /\ p.count = Total(p.counts) /\ IsSum(p.sum) /\ p.exemplars \in Seq(ExemplarsOf)
ExponentialPoint(p) ==
    /\ p.negative \in Seq(Nat) /\ p.positive \in Seq(Nat) /\ p.zero \in Nat
    /\ p.count = Total(p.negative) + Total(p.positive) + p.zero
    /\ p.exemplars \in Seq(ExemplarsOf)

(* maxDigits digits are enough for a number below limit.                   *)
PowersOf(base, N) ==
    LET value[d \in 0..N] == IF d = 0 THEN 1 ELSE base * value[d - 1] IN value
SizesFit(maxDigits, limit) ==
    /\ maxDigits \in Nat \ {0} /\ limit \in Nat
    /\ limit <= PowersOf(10, maxDigits)[maxDigits]
Contexts(limit) == [trace : Nat, span : 0..(limit - 1), flags : 0..255]
Headers == [trace : Nat, span : Nat, digits : Nat, flag : Seq(0..9)]
IsSequence(s) == s \in Seq(Range(s))

(* No variable of the environment has the value that stands for none, and  *)
(* a client that is not given options by GetClientOptions has none.        *)
IsEnvironment(env) == \A name \in DOMAIN env : env[name] # Absent
ExtensionConfigs ==
    [project : STRING, quota : STRING, tokenType : STRING, audience : STRING, tokenHeader : STRING]
Credentials == [found : BOOLEAN, project : STRING, quota : STRING, source : BOOLEAN]
IsExtension(x) ==
    x.config \in ExtensionConfigs /\ x.creds \in Credentials /\ x.creds2 \in Credentials
OptionSets == SUBSET (STRING \ {"impersonate"})
ExporterClients ==
    {c \in [endpoint : STRING, insecure : BOOLEAN, given : BOOLEAN, options : OptionSets] :
        ~c.given => c.options = {}}
IsHost(host) ==
    host.there => \A name \in DOMAIN host.extensions : host.extensions[name].options \in OptionSets
IsExporter(x) ==
    /\ x.config \in [project : STRING, impersonate : BOOLEAN, authenticator : STRING]
    /\ x.client \in ExporterClients /\ IsHost(x.host)
    /\ x.failing \subseteq {"grpc.NewClient", "impersonate.NewCredentials"}

ASSUME InputsAssumption ==
    /\ maxEntrySize \in Int /\ SizesFit(spanDigits, spanLimit)
    /\ \A x \in Inputs.split : IsSplit(x)
    /\ \A x \in Inputs.chars : IsText(x.text) /\ x.overhead \in Nat \ {0}
    /\ \A x \in Inputs.record : IsMapped(x)
    /\ \A x \in Inputs.int : IsNumber(x)
    /\ \A x \in Inputs.resource : IsResource(x)
    /\ \A m \in Inputs.name : IsNamed(m)
    /\ \A x \in Inputs.metric : IsMetricOf(x)
    /\ \A t \in Inputs.interval : t[1] \in Int /\ t[2] \in Int
    /\ \A p \in Inputs.histogram : HistogramPoint(p)
    /\ \A p \in Inputs.exponential : ExponentialPoint(p)
    /\ \A x \in Inputs.context : x.sc \in Contexts(spanLimit)
    /\ \A x \in Inputs.header : x.h \in Headers
    /\ \A x \in Inputs.list : IsSequence(x[1]) /\ x[2] \in Nat
    /\ \A x \in Inputs.text : IsText(x[1]) /\ x[2] \in Nat
    /\ \A x \in Inputs.platform : IsEnvironment(x[1])
    /\ \A parts \in Inputs.zone : IsSequence(parts)
    /\ \A x \in Inputs.auth : IsExtension(x)
    /\ \A x \in Inputs.exporter : IsExporter(x)
    /\ \A x \in Inputs.mapping : IsSequence(x[1])
-----------------------------------------------------------------------------
ComputeInit == part \in DOMAIN Inputs /\ input = {}
Compute ==
    /\ input = {}
    /\ \E x \in Inputs[part] : input' = {x}
    /\ UNCHANGED part
ComputeSpec == ComputeInit /\ [][Compute]_computeVars
-----------------------------------------------------------------------------
(* The inputs of a function that have been chosen: one of them, or none.   *)
Given(function) == {x \in input : part = function}

(* logToSplitEntries: the slices it takes are legal and in order, they are *)
(* the text, and each fits the room there is for it, up to a byte.         *)
LogPiecesLegal ==
    /\ \A x \in Given("split") : PiecesLegal(x.n, maxEntrySize, x.overhead, x.slips)
    /\ \A x \in Given("chars") : PiecesLegal(BytesOf(x.text), maxEntrySize, x.overhead, {})

(* logs.go says of the splitting that not all characters are one byte: no  *)
(* piece ends inside a character.                                          *)
CharactersWhole == \A x \in Given("chars") : CharactersKept(x.text, maxEntrySize, x.overhead)

(* A log record gives the same entry each time its payload is pushed, is   *)
(* reported if and only if it is an error, keeps the labels it was given   *)
(* and the numbers of its HTTP request.                                    *)
LogEntriesFaithful ==
    /\ \A x \in Given("record") :
          /\ MappedAgainIsSame(x.r, x.cfg, x.labels, x.now, x.later)
          /\ ReportedAreErrors(x.r, x.cfg) /\ LabelsNotHidden(x.r, x.labels)
    /\ \A x \in Given("int") : QuotedIntsAreKept(x.n, x.half, x.wide)

(* What is told apart by its resource or its name is not written to the    *)
(* same monitored resource, or the same metric.                            *)
ResourcesToldApart ==
    /\ \A x \in Given("resource") :
          /\ \A key \in DOMAIN x.attrs : InstancesToldApart(x.attrs, key, x.other)
          /\ ServiceIsNamed(x.attrs)
    /\ \A m \in Given("name") : NamesToldApart(m)

(* The time series of a metric are legal under its own descriptor, with    *)
(* the labels of the resource, whatever points it mixes.                   *)
SeriesAreDescribed ==
    /\ \A x \in Given("metric") :
          /\ DescriptorsFitSeries(x.m, x.extra) /\ ResourceLabelsWin(x.m, x.extra)
          /\ LabelsListed(x.m, x.extra)
    /\ \A t \in Given("interval") : IntervalsNotEmpty(t[1], t[2])

(* No point of a histogram is lost on the way to its distribution.         *)
DistributionsAddUp ==
    /\ \A p \in Given("histogram") : HistogramAddsUp(p)
    /\ \A p \in Given("exponential") : ExponentialAddsUp(p)

(* A trace goes on across two processes that use the propagator, and a     *)
(* header that is passed on stays the header it was.                       *)
TraceContextSurvives ==
    /\ \A x \in Given("context") : ContextSurvives(x.sc, x.ctx, spanDigits, spanLimit)
    /\ \A x \in Given("header") : HeaderSurvives(x.h, x.ctx, spanDigits, spanLimit)

(* What a span holds is sent, or counted as dropped.                       *)
SpansKeepAttributes ==
    /\ \A span \in Given("span") : AttributesArrive(span, 2, 2)
    /\ \A x \in Given("list") : ListsAddUp(x[1], x[2])
    /\ \A x \in Given("text") : TextCutAtCharacters(x[1], x[2])

(* Platform, zone, project and credentials are found by one order of       *)
(* precedence, the same wherever they are asked for.                       *)
SettingsResolved ==
    /\ \A x \in Given("platform") : PlatformDetected(x[1], x[2])
    /\ \A parts \in Given("zone") : ZonesAgree(parts)
    /\ \A x \in Given("auth") : ExtensionResolved(x.config, x.env, x.creds, x.env2, x.creds2)
    /\ \A x \in Given("exporter") :
          /\ ConfiguredIsEnough(x.config, x.client, x.host, x.creds, x.failing)
          /\ ProjectResolved(x.config, x.client, x.host, x.creds, x.failing)
          /\ InsecureAtEndpoint(x.config, x.client, x.host, x.creds, x.failing)
    /\ \A x \in Given("mapping") : MappedKeysApart(x[1], x[2], x[3])
=============================================================================
