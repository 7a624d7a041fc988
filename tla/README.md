# A TLA+ model of the Google Cloud exporters for OpenTelemetry

Specifications, model-checking configurations and machine-checked proofs for
the code of this repository: the OpenTelemetry Collector exporter for Google
Cloud (`exporter/collector`), the SDK exporters (`exporter/metric`,
`exporter/trace`), and what surrounds them. The models are translated from the
Go source; `PROJECT.json` names, for each definition, the lines it stands for.

    tlc -workers 2 -config ExporterWAL_safety.cfg MCExporterWAL.tla
    tlapm ExporterWAL_proofs.tla

## 1. The system

### Components

| Component | State it keeps | Operations | Interacts with |
|---|---|---|---|
| Collector metrics exporter, write-ahead log (`exporter/collector/metrics.go`) | log on disk, open log handle, mutex, `shutdownC`, wait group | `Start`, `PushMetrics`, `readWALAndExport`, `watchWALFile`, `runWALReadAndExportLoop`, `Shutdown` | the collector's pipeline, tidwall/wal, fsnotify, Cloud Monitoring |
| - its backoff | loop counter, sleeps | the retry loop of `readWALAndExport` | holds the mutex meanwhile |
| - its metric descriptors | channel `metricDescriptorC`, `mdCache` | offers of `PushMetrics`, `exportMetricDescriptorRunner`, `exportMetricDescriptor` | `shutdownC`, Cloud Monitoring |
| - direct export (no log) | none | batches of 200 per project | exporterhelper retries; the payload is changed in place |
| - cumulative normalization (`internal/normalization`, `internal/datapointstorage`) | `startCache`, `previousCache` with `used` flags | four `Normalize...DataPoint`, `Get`, `Set`, `gc` | the mapping of each point; two tickers |
| - mapping of metrics | none | `metricToTimeSeries`, `metricDescriptor`, histograms, exemplars, labels | normalizer |
| Collector logs exporter (`exporter/collector/logs.go`) | client | `PushLogs`, `createEntries`, `logEntry`, `logToSplitEntries`, `writeLogEntries` | exporterhelper, Cloud Logging |
| Collector trace exporter (`traces.go`, `spandata.go`, `spansnapshot.go`) | an SDK exporter | `PushTraces` | `exporter/trace` |
| SDK metric exporter (`exporter/metric`) | `mdCache` and its `RWMutex`, `shutdown` | `Export`, `Shutdown`, get-then-create of descriptors | SDK reader, Cloud Monitoring |
| SDK trace exporter (`exporter/trace`) | client | `ExportSpans`, `uploadSpans`, `Shutdown` | SDK batcher, Cloud Trace |
| Google Managed Prometheus (`googlemanagedprometheus`) | none; edits the payload in place | `ExtraMetrics` (`addUntypedMetrics`, `addTargetInfoMetric`, `addScopeInfoMetric`, `convertIntToDouble`), `GetMetricName`, `MapToPrometheusTarget` | `PushMetrics` |
| Resource mapping (`internal/resourcemapping`, `monitoredresource.go`) | none | attribute table to monitored resource | all exporters |
| Propagator (`propagator`) | none | `Inject`, `Extract` | HTTP headers |
| Detector (`detectors/gcp`) | metadata client | platform and attribute look-ups | environment, metadata server |
| Auth extension (`extension/googleclientauthextension`) | token source | round tripper, per-RPC credentials | exporters through the host |
| Client options (`exporter/collector/config.go`) | none | authenticator, project, connection, validation | Start of the exporters, auth extension |
| Mocks, end-to-end server, examples, release tool | - | - | tests |

### What makes them hard, and what makes them correct

* **Write-ahead log.** Two kinds of goroutines share an on-disk log through one
  mutex held over whole functions; the runner sleeps on retries with it,
  blocks on a file watch without it, and must stop on `shutdownC` or on the
  context of `Start`; the process may die between the answer of the backend
  and the truncation. Correct: requests reach Cloud Monitoring in order, none
  leaves the log before its export ended, none is exported twice unless the
  process or a call failed, the flush at shutdown is complete, and everybody
  who waits gets on.
* **Metric descriptors.** A full channel, overlapping callers, a shutdown at
  any point. Correct: no push waits, a descriptor is sent until it has a final
  answer and not after, and shutdown publishes what is queued.
* **Logs.** Boundary conditions in the batching loop and in float64
  boundaries; one verdict for the mixed results of many requests. Correct:
  every byte and every entry goes out once, in order, within its limits, and a
  payload is not given up while a retry could store it.
* **Normalization.** Two caches with independent collectors, points modified in
  place, restarts of the source. Correct: intervals are not empty and do not
  overlap, values are what was counted in them, resets are noticed and never
  imagined.
* **Direct export and traces.** Every error is retryable, so a call may send
  again what it sent. Correct: each call tries all that it holds, once, under
  its own project, and what is added to the payload is added once.
* **SDK metric exporter.** `Export` checks for shutdown and then uses the
  client; the descriptor lock is held over network calls; some of the
  descriptors, points or batches of a call fail. Correct: an export that
  returns nil is stored whole, a descriptor is not asked for twice, a shutdown
  is final, nobody waits for ever.
* **Translations.** They branch a lot and keep nothing. Correct: a series fits
  the descriptor that is sent for its metric, a distribution adds up, what is
  told apart by a resource or a name stays apart, nothing is lost without being
  counted, a setting is found by one order of precedence.

## 2. Modules

| Module | Models | EXTENDS / INSTANCE |
|---|---|---|
| `WALOutbox` | what the write-ahead log promises: an in-order outbox | |
| `ExporterWAL` | the write-ahead log: pushes, runner, watch, start, shutdown, crash | `INSTANCE WALOutbox` |
| `WALBackoff` | the retry loop on one entry, in seconds | |
| `MetricDescriptors` | the descriptor channel, its runner and the cache | |
| `Grouping` | a payload grouped by project: the places of each group, in order | |
| `PrometheusMetrics` | names, and the metrics added in place | |
| `ProjectPush` | `PushMetrics` without a log, and `ExportSpans` behind `PushTraces`: batches per project, joined errors, the calls of the exporterhelper | `EXTENDS PrometheusMetrics, Grouping` |
| `Sums` | the sum of a sequence, as a recursive function | |
| `LogPush` | `PushLogs` on a payload, and the exporterhelper's retries | `EXTENDS Grouping, Sums` |
| `Normalizer` | the standard normalizer, its two caches, and a source | |
| `SDKMetricExporter` | calls of `Export` and `Shutdown` of the SDK exporter | |
| `LogSplit` | the cutting of a text in `logToSplitEntries` | |
| `LogRecords` | a log record as a `LogEntry` | |
| `MetricMapping` | time series and descriptors of both metric exporters | |
| `Distributions` | histogram points and exemplars as distributions | `EXTENDS Sums` |
| `MonitoredResources` | resource attributes as a monitored resource | |
| `TraceSpans` | spans with their limits, attributes, events and links | `EXTENDS MonitoredResources` |
| `Propagator` | the headers of the propagators | |
| `Settings` | detector, auth extension, options of the exporters | |
| `Computations` | the nine translations as one specification: a function applied to an input; what inputs there are; the properties | `EXTENDS` all nine |
| `Recursion_proofs` | lemmas: induction up to a number, recursive functions, sums, the groups of `Grouping`, flattened sequences | `EXTENDS Grouping, Sums` |
| `Computations_proofs` | theorems on `WALBackoff` and on each of the nine translations | `EXTENDS WALBackoff, Computations, Recursion_proofs` |
| `ExporterWAL_proofs`, `MetricDescriptors_proofs`, `SDKMetricExporter_proofs`, `Normalizer_proofs`, `LogPush_proofs`, `ProjectPush_proofs` | theorems | their module, `Recursion_proofs` where it is needed |
| `MCComputations` | the sequential code, one case to a state | `EXTENDS WALBackoff, ProjectPush, Computations` |
| other `MC...` | values of the constants for TLC | their module |

Operators with a suffix (`KeepFrom_WriteIndex`, `Offer_Blocking`) are wrong
variants of the definition they are named after; they appear in no
specification, and show that a property notices the mistake.

### ExporterWAL

State. `log` holds every entry ever written, so that index `i` of the library
is `log[i]`; `first` is the first index still on disk. `handle` is
`me.wal.Log`, `mutex` is `me.wal.mutex`, `pc` says where the runner is, `ppc[p]`
where a `PushMetrics` call is. Local variables (`rIdx`, `wIdx`, `attempt`,
`pIdx`, `batch`, `perr`) are reset when their function returns. `last` and
`fate` are histories: what Cloud Monitoring received, and how each export loop
ended.

| Action | Code |
|---|---|
| `PushCall`, `PushLock`, `PushIndex`, `PushWrite`, `PushReturn` | `PushMetrics`: lock, `LastIndex` and `Write` for each batch, `errors.Join`, unlock |
| `PushPanic` | `LastIndex` on the nil log that a failed `setupWAL` leaves |
| `RunnerTop` | the `select` of `runWALReadAndExportLoop` |
| `RunnerLock`, `RunnerSetup` | the lock, `setupWAL` with `closeWAL`, `Read` |
| `RunnerExport`, `RunnerAnswer` | `export` in the retry loop, and the answer to it |
| `RunnerFill`, `RunnerTruncate` | the empty request behind the last one; `TruncateFront` |
| `RunnerWatch`, `RunnerWake` | `watchWALFile`, before and after `walWatcher.Add` takes effect |
| `RunnerClose` | the deferred `me.wal.Close()` |
| `Start`, `ShutdownCall`, `ShutdownReturn`, `CancelCtx`, `Exit`, `Crash` | the life of the process |

A panic is the end of the process (`Down`); what is on disk stays. A process
that ends before its runner is done is a `Crash`. A write is atomic with
respect to a crash: the library syncs each write, and the segments torn by a
crash in the middle of one are not modelled. An entry that does not unmarshal
cannot arise from what the exporter writes.

### WALBackoff

`Retry` is one turn of the loop after a retryable error; `Answered` leaves it.
`ExporterWAL` only needs that the number of turns is bounded (`MaxAttempts`).

### MetricDescriptors

`PushCall` and `PushStep` are the offers of one `PushMetrics` call, one
descriptor at a time. `Offer` is the `select` with a `default`: the value is
handed to a runner blocked in its own select (`parked`), or queued, or
dropped. `RunnerSelect` is the outer select (Go picks any ready case),
`RunnerDrain` the inner one, `RunnerExport` the look-up in `mdCache`,
`RunnerAnswer` the call and what is cached. With the write-ahead log pushes
do not overlap, as the lock covers them; without it they do, as here.

### ProjectPush

`given` is the payload of the caller, which `ExtraMetrics` changes; `pushPc`,
`pending` (what is unsent of each project), `open` (the project whose batches
are being sent), `erred` and `answer` are the locals of one call; `sentNow`,
`visits` (the projects of its requests) and `unsure` (what a failed request may
have stored) are histories of it.

| Action | Code |
|---|---|
| `PushCall` | `PushMetrics` up to its loop over projects (`ExtraMetrics`, conversion, grouping), or `ExportSpans` up to its uploads; also the next call by the exporterhelper |
| `PushSend` | one batch of a project, and whatever the service answers |
| `PushReturn` | `errors.Join`, and the verdict |

A point is known by its place in the payload, `<<resource, scope, metric,
point>>`, because a retried call adds the extra metrics behind those that are
there. `Series` lists the places, and a call handles the numbers of that list,
which `ByProject` groups. An answer that is an error may hide
that the request was stored.

### SDKMetricExporter

Each call of `Export` has its own locals (`mds`, `tss`, `sent`, `errs`,
`next`); `mdLock`, `mdCache`, `shutdown`, `once` and `client` are the
exporter's; `descriptors` and `stored` are what the service knows.

| Action | Code |
|---|---|
| `Export` | the checks for shutdown and for an empty payload, the descriptors of the metrics that are not disabled |
| `LockDescriptors`, `GetDescriptor`, `CreateDescriptor`, `UnlockDescriptors` | `exportMetricDescriptor`: the lock and the test of the cache, get, create, unlock |
| `ConvertPoint`, `EndConversion` | `recordsToTspbs`, a point at a time; the reader's side of the lock |
| `SendBatch`, `Return` | the batches of time series; the joined error |
| `ShutdownFirst`, `CloseClient`, `ShutdownAgain` | `shutdownOnce.Do`; a second caller waits for the first |

### LogPush, LogSplit, LogRecords

`LogPush` groups the entries by project, once for each call (`PlacesOf`), and
keeps what was sent of each. It follows the index arithmetic of the batching loop: `Fill` is one turn
that adds an entry, or finds that it does not fit; `Write` is a request, its
answer and the reset of the indices; `Return` the verdict. The order of the
projects is any, as Go's map iteration. `Call` is the exporterhelper, outside
this repository: it calls again with the whole payload after an error that is
not permanent. With `PartialSuccess`, Cloud Logging stores the valid entries of
a refused request. `Repeat` is the client of Cloud Logging, outside this
repository as well: unless `DisableRetries` is set (`disableRetries`), it sends a
request again within one `WriteLogEntries` when the answer does not say that it
was not stored. `repeated` counts, for each entry, the requests sent again that
hold it. The size PushLogs compares is that of the entries (`SumOfSizes`); the
request has a tag and a size before each, and `partial_success` (`Framing`).

`LogSplit` is the loop of `logToSplitEntries`. A text is the widths of its
characters in bytes. A boundary is the float64 computation
`floor((k/s)*n)`: where the exact product is an integer the result may be one
below it, for ten pieces or more; enumerating the arithmetic up to texts of 3
MB shows no case with fewer pieces, and none at the last boundary. A room of
zero divides by zero, and converting the infinity to `int` depends on the
platform: the value that panics is taken.

`LogRecords` keeps of a record what the mapping branches on: its times,
severity, kind of body, labels and special attributes, each absent, well
formed or not; and the width of integers given as text. `toProtoStruct` gets the
`[]byte` of a bytes body, which JSON has as a string: only the nil slice of a body
without bytes becomes a structure, an empty one.

### MetricMapping and Settings

The label descriptors of a metric are a list in the code and a bag of keys here,
as their order means nothing but a key may be listed twice.

`StartExporter` is the `Start` of an exporter up to the making of its client. It
keeps the errors apart from what is computed: `ok` is false where the code returns
an error, be it its own, of the extension that is looked up in the host, or of one
of the library calls in `failing`. Whether `GetClientOptions` is set (`given`) and
what it gives (`options`) are two things: an authenticator is asked only if it is
not set, and the default credentials only if it gives nothing. `StartExtension`
returns the config also where it fails, as it has been written to by then.

### Normalizer

One time series, with one value per point. The four methods of the code are
copies of one algorithm, so one model stands for them; `kind` tells apart the
two ways in which a cached value is overwritten (a number, or the sum of a
histogram, is copied only if it is set; a count always), and `shape` the
histograms, whose bounds or scale may change. A count fits the `uint64` it is
reported in. `Report` and `Resend` are the
source: it counts, may be restarted, gives start times or not, or marks a
reset by a start equal to the time of the point, and a point may be delivered
twice. `GetStart`, `GetPrevious`, `Write` and `Return` are one call, cut at its
cache operations; `GC` is a tick of one cache and may come between any two of
them. The tickers start together and have one period, so they alternate.
`Retry` is the exporterhelper: the points of a payload were normalized in
place, and a second call normalizes them again. One call runs at a time, which
is so with the write-ahead log or with one consumer.

### The sequential code

`MetricMapping`, `Distributions`, `LogSplit`, `LogRecords`,
`MonitoredResources`, `TraceSpans`, `Propagator`, `PrometheusMetrics` and
`Settings` are pure operators with the names of the functions they translate.
Each module ends with what its operators promise, stated for one input:
`Fits(ts, d)` for a series and its descriptor, `AttributesArrive(span, ...)`
for what is kept and what is counted as dropped, and so on. `Computations`
brings them together: `Inputs` gives for each function (`part`) the inputs it is
tried on, `Compute` chooses one (`input`), and an invariant relates it to what
comes out. `InputsAssumption` says what those inputs may be, in terms of their
types and of the few things that the callers guarantee; TLC evaluates it on all
inputs it enumerates, and the theorems need no more. `MCComputations` gives
`Inputs` their values; the retry loop of `WALBackoff` and the calls of
`ProjectPush` run there step by step, as parts of their own.

## 3. Runs

| Run | Shows | Bounds |
|---|---|---|
| `wal_safety` | no silent loss; a push that returned nil is whole; order; no double export without a crash or a fault; the log implements `WALOutbox` | two pushes of one and two requests, one retry, one crash, one failed call, a cancelled context |
| `wal_live` | indices fresh, complete flush; the runner stops, a woken runner drains the log, a waiting push returns | two pushes of one request, one retry, a cancelled context |
| `wal_stranded` | **violated**: a request written before the watch is added stays in the log | two pushes, no faults |
| `wal_dropped` | **violated**: requests dropped unsent when the client is closed under the flush | two pushes, no faults |
| `descriptors` | each descriptor sent until its final answer and not after; what is queued is tried; drained at shutdown; neither a push nor the runner hangs | two callers, three descriptors, a channel of two |
| `logs` | requests legal in size and project; each entry once and in order; stored at most once per call and repeated request; nothing forgotten; the loop ends | payloads of up to three entries of 100, 275 and 449 bytes under a limit of 550, over two projects; two calls; a request repeated once (`MaxRepeats`) |
| `logs_large` | **violated**: the loop does not end for an entry of `maxRequestSize` | payloads of two, of 100 and 550 bytes |
| `normalizer` | intervals valid and in order; exact values until a reset; resets are real; points dropped for a reason; a count starts from zero after a reset | five instants, two resets, one point sent or pushed twice, collection at any time, all kinds and ways of giving starts |
| `normalizer_reset` | **violated**: a reset to a value between the normalized and the raw one is not noticed | one reset |
| `sdk_metrics` | every point accounted for: stored under a described type, or in the error; a descriptor asked for once; shutdown final; calls return | two exports that share a key, two shutdowns, batches of two |
| `computations` | the eleven properties of the sequential code below | see below |
| `split_chars` | **violated**: a character is cut in two | texts of up to five characters of one or three bytes |

`computations` checks `KeepsToMaxBackoff` (the sleeps are under twice
`max_backoff` and an entry is not given up before it), for `max_backoff` of 0 to
10 and around each power of two and the cap; `CallsAreWhole` and
`AddedOncePerCall` (each call sends all places once under their own project;
each call adds the extra metrics once), for payloads of one or two resources and scopes, batches of
two, three calls; `LogPiecesLegal` (texts of up to 24 bytes, or of characters of
one and three, for rooms from 8 bytes down to below zero); `LogEntriesFaithful`
(records with every combination of a few values of their
fields, and integers from -40 to 40 in fields of 4 and 6 bits for 32 and 64);
`ResourcesToldApart` (resources over the attributes the tables read, all
kinds of metric names); `SeriesAreDescribed` (all five types, mixed points,
units, labels that collide); `DistributionsAddUp` (all small histograms, with
exemplars on and between the bounds); `TraceContextSurvives` (flags 0 to 255,
span identifiers of two digits); `SpansKeepAttributes` (spans of up to two
attributes, and two of the resource, under limits of two, lists and texts around their limits);
`SettingsResolved` (all environments, metadata answers, credentials, extensions, hosts with and without
the authenticator, `GetClientOptions` unset, empty and not, and library calls that fail).

Why the bounds are enough. Two pushes are needed for one to overtake, or to
write while the runner sits on the last entry; two requests of one push for a
push to be torn apart; one crash and one fault for each failure between two
steps, and both for a failure of the recovery. The properties relate at most
two requests. In `descriptors` the channel is smaller than what the pushes
offer, so it fills, and the callers share a descriptor, so it is queued twice.
In `logs` the sizes make a batch end below, and exactly at, the limit, and are
written in one byte and in two; a request that the client repeats once, in a payload
sent twice, adds both layers of retries. Texts
come in up to twelve pieces, so the float64 rounding occurs. Five
instants let a source report, be restarted, report twice, and be restarted
again. A uint64 is modelled modulo 16, which no count reaches without wrapping.
In `sdk_metrics` one export has two metrics of one key, the other has one of
the same key with another type, one point does not convert, and there are more
points than a batch takes. The translations treat attributes, points and
spans one by one or in pairs, and their limits are parameters, so that two or
three items reach both sides of each limit. Types are not checked by runs of
their own where a theorem states them.
Deadlock is not checked: every system here may stop (a process that
was shut down, a payload that was sent, a bound that is reached).

### Fairness

* `ExporterWAL`: weak fairness of the runner's and of the pushes' steps: a
  goroutine that can run does, and each call to the backend ends, if only at
  the exporter's timeout. Strong fairness of taking the mutex: `sync.Mutex`
  hands itself to a waiter that has starved for a millisecond. Nothing is
  assumed of the answers of the backend, of callers, of shutdowns or restarts.
* `MetricDescriptors`: weak fairness of the runner (its call has a timeout) and
  of a push that has begun. `NothingHangs` then says that the push ends and,
  after a shutdown, the runner.
* `LogPush`: weak fairness of a call of `PushLogs`, whose requests time out,
  the client's repeats included. The exporterhelper need not call again.
* `SDKMetricExporter`: weak fairness of each call's steps. A call of the client
  ends, with the context of `Export` or the client's own timeout, and taking the
  lock needs no more, as each call takes it a bounded number of times.

### Disagreements found

* A request can be **stranded**: `readWALAndExport` finds the end of the log,
  releases the lock, and only then the watch is added (`metrics.go:637`).
* Requests are **dropped at shutdown**: when Shutdown's context ends first, the
  client is closed under the flush; its `Canceled` counts as permanent.
* An entry as large as `maxRequestSize` makes `PushLogs` **loop for ever**.
* Text is split **inside characters**.
* A **reset is missed** when the new value lies above the last normalized one,
  and the value sent is negative, or wraps.

Seen on the way, and stated as what holds instead, or abstracted from:

* A `WriteLogEntries` request may be larger than `maxRequestSize`, which
  `logsutil.go:23` calls the maximum size of a request: what the request puts
  around its entries is not counted (`logs.go:289`). `RequestsLegal` says that it
  is larger by no more than that.
* Bytes of a JSON object are never exported as a JSON payload, as the comment at
  `logs.go:592` has it: `toProtoStruct` makes a JSON string of them (`ToProtoStruct`).
* A descriptor may list a label twice, once for the resource or scope (or for the
  quantile of a summary) and once for the points, though `metrics.go:1495` skips
  "keys that have already been set" (`LabelsListed`). The SDK exporter lists it once.
* `use_insecure` "only has effect if Endpoint is not" empty (`config.go:133`), but
  without an endpoint it keeps the project of the default credentials from being
  looked up (`config.go:395`). `InsecureAtEndpoint`: an exporter that starts all
  the same, starts as it would without it.
* `max_backoff` bounds one delay, not their sum, and the cap of twelve turns is
  68 minutes, not the 48 hours of the comment (`KeepsToMaxBackoff`).
* The descriptors at the end of a push may be dropped by every push
  (`QueuedIsTried` speaks of those that are queued).
* After an error other than the end of the log, the runner goes to watch a log
  that holds requests.
* The overhead of a split entry leaves out its `Split` field (`LogPiecesLegal`).
* A number keeps its old start value after a reset (`StartIsZeroAfterReset` is
  for counts). A point between the ticks of the two caches finds a start and no
  previous point, which the code says never happens. A point retried in place
  has its start subtracted twice: `ExactUntilReset` and `ResetsAreReal` exclude
  it, as such a count may wrap, be cached, and make the next look like a reset.
* `ExtraMetrics` works in place, so that each retried call adds each metric once
  more (`AddedOncePerCall`). A batch of time series whose error has no summary
  counts all its points as sent, in the self-observability only.
* Attributes of a point win over labels of the resource in the SDK exporter, and
  lose in the collector (`ResourceLabelsWin`). The SDK exporter sends a
  descriptor without kind for an exponential histogram, and an `INT64` one for a
  non-monotonic sum with the unit of a BOOL, whose series are BOOL.
* `trace_proto.go` removes invalid bytes where its comment (339-341) says that it
  replaces them, and keeps the last of two values of a key where the comment
  (88-89) says the first. `attributeWithLabelsFromResources` leaves out the
  labels of the scope when the resource has none.
* The propagators print flags in hexadecimal and read the digits as a decimal
  number, of which the header takes one digit and any but zero means sampled:
  flags 02 arrive as sampled, and flags above 09 not at all
  (`ContextSurvives` promises the flags 00 and 01, and that sampled stays sampled).
* Per-RPC credentials always go into `authorization`, whatever `token_header`
  says.
* An entry may be stored more than once by one `PushLogs`: the retries of the
  client are on unless a wrapping exporter turns them off (`StoredAtMostPerCall`
  counts them, beside the calls).

## 4. Proofs

Assumptions: only those the modules name (`WALAssumption`: `BatchesOf` gives
naturals, the empty request is none of the others, at least one attempt;
`BackoffAssumption`; `DescriptorAssumption`; `MetricsAssumption`;
`NormalizerAssumption`, with increments that are naturals and a positive word
size; `LogPushAssumption` and `ProjectPushAssumption`, that payloads are
sequences of what the modules say and sizes of batches are positive;
`InputsAssumption`, see Computations below; and that `None` is no other value).

* **ExporterWAL**, for any number of pushes, requests, attempts, crashes and
  faults. The invariants are not inductive as they stand: `NoSilentLoss` needs
  that the runner truncates exactly the entry it concluded, hence that its
  indices are those of the log, hence that nobody writes meanwhile. `IInv` says
  so: `MutualExclusion` (one holder of the lock), `IndicesFresh`,
  `AttemptsLeft`, `NothingAhead` (nothing behind the first entry was received
  or decided), `HeadDecided` (an entry about to be truncated is empty or has
  its verdict) and the types. `Inductive` proves it; `TypesHold`,
  `IndicesStayFresh` and `NothingLostSilently` follow; `OrderKept` adds that a
  step only moves `last` to the first entry; `ImplementsOutbox` shows, from
  `IInv`, that each step is an accept, a send or a retirement of the outbox, or
  a stutter (`StepKinds`). The Boolean variables are typed in a lemma apart
  (`FlagsTyped`), because no one backend handles them with the indices.
  On top of `IInv`, `DInv` says that the log is open
  under the runner unless `setupWAL` failed (`LogOpen`), that an entry with its
  verdict has the empty one behind it and goes next (`FilledBehind`,
  `AckedLeaves`), that a push without an error so far is the end of the log
  (`WholeSoFar`), and that the final loop ends at the end of the log
  (`Flushed`). `PushesWhole`, `NotExportedTwice` and `FlushComplete` follow.
* **WALBackoff**: `BInv` ties the sum of the sleeps to the power of two;
  `SleepsBounded`, `NotGivenUpEarly` and their sum `GetsItsTime` hold for every
  setting.
* **MetricDescriptors**, for any callers, metrics and buffer: `IInv` says that
  the cache is the set of answered descriptors, that the runner never calls for
  a cached one, and that a descriptor owed at shutdown is tried, queued or in
  hand. `TypesHold`, `ShutdownDrains`, `SentOnce` and `SkippedAfterAnswer`
  follow.
* **SDKMetricExporter**, for any exports, metrics, points and shutdowns: `IInv`
  says that the call with descriptors to do is the holder of the lock, that it
  has one metric of each key and none that is cached (`WorkLeft`, `Holding`),
  that what is cached exists in the service (`CachedExist`), that one call runs
  `shutdownOnce` and the others end after it (`Stopping`), and that a call
  without an error has sent, and had acknowledged, an unbroken prefix of its
  series (`Sending`, `Acknowledged`). `NotDescribedAgain`, `ShutdownFinal`,
  `NilMeansStored` and `CacheOnlyGrows` follow. For `PointsAccounted` a
  second invariant counts (`Counted`): the points that a call has passed are as
  many as its series, unless it has an error of conversion; and the key of each
  metric has its descriptor, or the call an error of descriptors.
* **Normalizer**, for any increments, shapes, word size, resets and moments of
  collection. `IntervalsInOrder` needs that each start in hand (in the cache, got
  by the call, or about to be written) is that of the last point sent or not
  before its end (`Starts`). A start made up at T - 1 ms is so because what was
  sent lies before T (`Fresh`), or, where a duplicate is at T, because nothing
  looks like a reset: cached values are not above the counter (`Values`, with
  `MinusBelow` for the subtraction modulo `Word`). `Planned` and `Explained` tie
  the entries still to be written and the cached start to the point of the call;
  `SetMode`, `FirstStarts` and `Unset` say what a point may look like for each way
  of giving starts. `InOrder`, `DroppedForStart` and `ZeroAfterReset` follow.
  The values need `VInv` on top: until a reset that is not seen, a cached start
  has the total of its time (`Totalled`), so that what is exported is the growth
  since then (`ExactPoint`, `ExactSent`), and neither the previous point nor the
  start is above the source (`Numbers`, `Seen`). `ExactWithoutResets` and
  `ResetsWereThere` follow; that a count fits its word is needed here.
* **LogPush**, for any payload, sizes, limit, number of calls and of repeats. The batch is a
  prefix of the entries left, below the limit, and the running size is its size
  (`Filling`); a call that sends has mapped every record (`Mapped`); what it sent
  is stored, refused, or a reason to call again (`Settled`); and what it has yet to
  send was stored by earlier calls, and the requests repeated in them, only
  (`Unstored`); with `DisableRetries` the client repeats nothing. The framing of
  a request is bounded by the number of its entries (`FramingBounded`).
  `RequestsAreLegal`, `EntriesGoOutOnce`, `NothingIsForgotten` and
  `StoredOncePerCall` follow. They rest on the groups being a division of the
  payload, and on the sums of sizes, both recursive.
* **ProjectPush**, for any payload, size of batches and number of calls. `PInv`:
  what was sent and what is pending of a project make up its group (`Whole`); the
  projects of earlier requests have nothing left (`Closed`), but for the open one,
  which is the last (`Opened`), so that none is left and come back to (`OneByOne`);
  and the original payload is where it was (`Kept`). `PushInvariant` proves it, and
  `EveryCallIsWhole` and `NothingMoved` follow. `EveryPointOnce` is about the list
  of places itself: it has every point of a payload, once. `EachCallAddsOnce` counts what
  `ExtraMetrics` added: a call adds one `target_info` to the first resource of each
  identity (`ExtraCounted` and the lemmas on sets of places below it), and what
  earlier calls added is not counted twice, nor taken for what was there. Its
  hypothesis `PayloadsApart` is about the payload the pipeline gives: points are told
  apart by name and time where one is of an unknown gauge, and no
  unknown gauge is called `target_info` or `otel_scope_info`. A point of the model has
  a time and no attributes, so its time stands for all that tells it from the others of its
  metric; without that the counters made of two points could not be counted apart. All of
  `MCPushes` satisfy it.
* **Computations**, for any sets of inputs. A theorem for each invariant of the run
  but one says `ComputeSpec => []P`: `PiecesStayLegal`, `EntriesStayFaithful`,
  `ResourcesStayApart`, `SeriesStayDescribed`, `DistributionsKeepPoints`, `TracesGoOn`
  and `SettingsStayResolved`. The state machine is small (`CInv`: the input that
  was chosen is one of those there are); the work is in what each function promises of one
  input, of any size and values that `InputsAssumption` admits. What it asks for
  beyond types is what the code guarantees or what the property would be
  false without: an entry has an overhead (its log name); a span is below its
  limit and the limit below the power of ten of its digits (`SizesOfTheCode` proves
  this of the code's 64 bits and twenty digits); a histogram has one bucket more than bounds
  and counts its points (OTLP); the labels of a scope are sanitized
  (`ExtraSanitized` proves that they are); a pod is not named `unknown_service...`,
  `faas.name` neither, and a `gcp.resource_type` that is there is not empty.
* **LogSplit**. `PiecesAreLegal` states the operator of the run for a text of any
  length, any limit, any overhead above zero (an entry has a log name), and any
  set of boundaries that float64 may bring down by one. Exact boundaries are
  `n div s` or one more apart (`ExactPieces`); a boundary that slips was an
  integer, which is where the exact piece is the larger one or all are equal
  (`PieceSizes`); so a piece fits the limit, the inner loop takes nothing off
  it, and the recursive cuts are the boundaries (`CutsAtBoundaries`).
* **LogRecords**. `LabelsKept` follows the three layers of labels; `NumbersKept` is the
  arithmetic of a field of any width that is read in a wider one; `ErrorsReported` goes through the tables of
  severities; `SameEntryAgain` shows that the body that Error Reporting leaves is mapped
  to the payload of the original.
* **MetricMapping**. `MetricsFitDescriptors` is about a metric of any number of
  points, of any unit and attributes, under any sanitized labels. A descriptor, which
  sanitizes them again, has them all (`LabelsDescribed`), those of points alone once (`EachLabelListed`); the
  series of a metric are those of its points (`WrittenForMetric`), each of which
  is one of three forms. `IntervalsLast` is the arithmetic of the intervals.
* **PrometheusMetrics**. `NamesKeptApart` compares the endings case by case.
* **Distributions**, for any number of buckets. The sums are recursive functions, whose laws
  `Recursion_proofs` has; the buckets of an exponential histogram are its
  positive ones between the underflow and an empty last one (`BucketsBetween`). The
  code sorts exemplars, which the model states as a choice of an order: that there
  is one is proved by taking the least of what is left, place after place
  (`OrderExists`).
* **Propagator**, for any number of digits and any limit that they are enough for; TLC
  sees two digits and four bits. Digits are what divisions by 10 leave
  (`QuotientsValues`, `WidthKnown`); a number below a power of ten has no more of
  them than its exponent (`WidthFits`). `SizesOfTheCode`: 2^64 is below 10^20, sixteen bits at a
  time (`SixteenBits`: the numbers themselves are beyond the literals the prover
  is exact about). So a span that fits is printed with digits that are matched,
  and `ContextsSurvive` and `HeadersSurvive` follow for any context that is there
  already.
* **MonitoredResources**, for any attributes with any values. Each key of an
  identity is the first of the keys of one label of its type (`IdentityLabels`),
  whose usable value is taken whatever the others are (`FirstUsable`), and the
  type depends on the platform and on the keys that are there (`TypeKept`):
  `InstancesKeptApart`, which also has the labels of the type an SDK exporter was told to map to. The proofs say what TLC's inputs did not: two values of
  which one is an unknown service may well give the same resource, as `faas.name`
  or `host.name` steps in; the name of a pod must not start with
  `unknown_service`, or the instance of its prometheus_target is that of the host;
  and an unknown `faas.name` is the job of a monitored resource but not of a
  prometheus_target (`ServicesNamed` excludes it).
* **TraceSpans**. `ListsKeptOrCounted` and `CutAtCharacters` are the parts of
  `SpansKeepAttributes` about lists and texts, for any length and limit; the part
  about attributes is not proved (below).
* **Settings**. All its lists are searched for the first place where something
  holds (`FirstAtIs`). `PlatformsDetected`, `LocationsAgree`, `ExtensionsResolved`,
  `ProjectsResolved` and `MappingsApart` follow for any environment, metadata answers,
  configuration, hosts, extensions and failing library calls, and for lists of
  mappings of any length. What an extension starts with (`ExtensionStarted`) and what
  an authenticator gives (`AuthenticatorGives`) are lemmas of their own, and so is the
  part about `use_insecure` (`InsecureNeedsEndpoint`).

`Recursion_proofs` gets its induction over numbers from a least counterexample,
and over sequences from their lengths. It serves functions defined by recursion
and `FlattenSeq`, where the base and the step can be given as sets; it does not
give a rule for any operator.

Only model-checked: all liveness under fairness, and `ENABLED`, which are out of
the prover's reach; and `SpansKeepAttributes` as a whole, because its operator
`AttributesArrive` folds attributes into a map with an anonymous operator, in an
order chosen for a set, which is induction over an operator that none of the provers takes. The
violations are runs of TLC.

## 5. Plan

Order: what holds state and runs concurrently first, then the stateless
exporters, then tables. Done: the modules above. Left:

1. `NormalizerCalls`: several calls on one series, where `Get` hands out the
   cached point itself and `Set` writes into it field by field
   (`datapointcache.go:98`); and the two caches as an abstract start-and-last
   store that `Normalizer` implements until an entry is collected.
2. Composition: the log with the backoff's seconds instead of `MaxAttempts`;
   `LogRecords`, `LogSplit` and `LogPush` as one path from records to requests.
3. Proofs: the attributes of a span, once the fold that writes them is a
   recursive function of the list; a rule for its steps as `Recursion_proofs` has
   for sums.

## 6. Not modelled, and why

* The mocks, the integration tests, the end-to-end server, the examples and the
  tools are not part of the running system.
* Torn segments of the log on disk: a write is taken to be atomic, and what the
  library does about half a write is not in this repository.
* Names, display names, descriptions and units are identities, except where a
  unit or an ending decides something. The sanitizing of names by the Prometheus
  library is external.
* User agents, compression, connection pools, self-observability counters and
  logging have no bearing on the properties.
* The detector's getters that pass on one answer of the metadata server, and the
  copied fields of spans, log records and HTTP requests, have nothing that could
  go wrong beyond a wrong name, which a unit test finds.
