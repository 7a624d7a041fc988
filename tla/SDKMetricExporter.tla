-------------------------- MODULE SDKMetricExporter --------------------------
(***************************************************************************)
(* The metric exporter of the OpenTelemetry SDK (exporter/metric):         *)
(* overlapping calls of Export, the cache of metric descriptors under its  *)
(* read-write lock, the batches of time series, and Shutdown.              *)
(*                                                                         *)
(* A metric is a record: key, what keyOf returns; type, what the formatter *)
(* makes of this metric; points, a sequence of BOOLEAN, TRUE for a point   *)
(* that converts (valid timestamps, a known aggregation).  A call of the   *)
(* client is one step: its answer is any the service and the network can   *)
(* give, an error that hides a success included.  The reader's side of the *)
(* lock is held for one lookup, so it is one step that no writer is in.    *)
(***************************************************************************)
EXTENDS Naturals, Sequences, FiniteSets

CONSTANTS
    Exports,       \* calls of Export
    Stops,         \* calls of Shutdown
    MetricsOf,     \* the metrics of each call, in the order of their scopes
    Keys, Types,
    sendBatchSize,
    None           \* no holder, no descriptor, no result yet

ASSUME MetricsAssumption ==
    MetricsOf \in [Exports -> Seq([key : Keys, type : Types, points : Seq(BOOLEAN)])]
ASSUME BatchAssumption == sendBatchSize \in Nat \ {0}
ASSUME NoneAssumption == None \notin Exports \cup Types \cup Stops
ASSUME CallsAssumption == Exports \cap Stops = {}

VARIABLES
    disableCreateMetricDescriptors,   \* the option, fixed at New
    shutdown,    \* the channel is closed
    once,        \* the call that runs or ran shutdownOnce, None before
    client,      \* "open" or "closed"
    mdLock,      \* the call that holds mdLock for writing, or None
    mdCache,     \* [Keys -> type of the cached descriptor, or None]
    pc, result,  \* of each call
    mds,         \* [Exports -> metrics whose descriptors are still to do]
    current,     \* [Exports -> the metric whose descriptor Get did not find, or 0]
    next,        \* [Exports -> <<metric, point>> converted next]
    tss,         \* [Exports -> series converted, each the type it is written under]
    sent,        \* [Exports -> series that were in a request]
    errs,        \* [Exports -> the kinds of errors joined so far]
    descriptors, \* the types that have a descriptor in the service
    stored       \* [Exports -> the series the service acknowledged]

service == <<descriptors, stored>>
callVars == <<pc, result, mds, current, next, tss, sent, errs>>
vars == <<disableCreateMetricDescriptors, shutdown, once, client, mdLock, mdCache,
          callVars, service>>

Calls == Exports \cup Stops
Metric(p, i) == MetricsOf[p][i]

Init ==
    /\ disableCreateMetricDescriptors \in BOOLEAN
    /\ shutdown = FALSE
    /\ once = None
    /\ client = "open"
    /\ mdLock = None
    /\ mdCache = [k \in Keys |-> None]
    /\ pc = [p \in Calls |-> "idle"]
    /\ result = [p \in Calls |-> "none"]
    /\ mds = [p \in Exports |-> {}]
    /\ current = [p \in Exports |-> 0]
    /\ next = [p \in Exports |-> <<1, 1>>]
    /\ tss = [p \in Exports |-> <<>>]
    /\ sent = [p \in Exports |-> 0]
    /\ errs = [p \in Exports |-> {}]
    /\ descriptors \in SUBSET Types
    /\ stored = [p \in Exports |-> {}]

(* An answer of the service: whether the call took effect, and whether the *)
(* caller sees success.  A closed client fails before it sends.            *)
Answers ==
    IF client = "closed"
    THEN {[effect |-> FALSE, ok |-> FALSE]}
    ELSE {[effect |-> TRUE, ok |-> TRUE], [effect |-> FALSE, ok |-> FALSE],
          [effect |-> TRUE, ok |-> FALSE]}

-----------------------------------------------------------------------------
(* Export.                                                                 *)

Export(p) ==
    /\ pc[p] = "idle"
    /\ IF shutdown
       THEN /\ pc' = [pc EXCEPT ![p] = "done"]
            /\ result' = [result EXCEPT ![p] = "errShutdown"]
       ELSE /\ pc' = [pc EXCEPT ![p] = IF disableCreateMetricDescriptors
                                       THEN "convert" ELSE "lock"]
            /\ UNCHANGED result
    /\ UNCHANGED <<disableCreateMetricDescriptors, shutdown, once, client, mdLock, mdCache,
                   mds, current, next, tss, sent, errs, service>>

(* The first metric of every key that has no cached descriptor.            *)
Undescribed(p) ==
    {i \in DOMAIN MetricsOf[p] :
        /\ mdCache[Metric(p, i).key] = None
        /\ \A j \in 1..(i - 1) : Metric(p, j).key # Metric(p, i).key}

MdLockFree_Always == TRUE
MdLockFree == mdLock = None

LockDescriptors(p) ==
    /\ pc[p] = "lock"
    /\ MdLockFree
    /\ mdLock' = p
    /\ mds' = [mds EXCEPT ![p] = Undescribed(p)]
    /\ pc' = [pc EXCEPT ![p] = "describe"]
    /\ UNCHANGED <<disableCreateMetricDescriptors, shutdown, once, client, mdCache, result,
                   current, next, tss, sent, errs, service>>

Cache(p, i) == mdCache' = [mdCache EXCEPT ![Metric(p, i).key] = Metric(p, i).type]

(* Get: the range over mds is in any order, and any error at all, of a    *)
(* descriptor that exists too, leads to Create.                            *)
GetDescriptor(p) ==
    /\ pc[p] = "describe"
    /\ \E i \in mds[p] :
          \/ /\ client = "open"
             /\ Metric(p, i).type \in descriptors
             /\ Cache(p, i)
             /\ mds' = [mds EXCEPT ![p] = @ \ {i}]
             /\ UNCHANGED <<pc, current>>
          \/ /\ current' = [current EXCEPT ![p] = i]
             /\ pc' = [pc EXCEPT ![p] = "create"]
             /\ UNCHANGED <<mdCache, mds>>
    /\ UNCHANGED <<disableCreateMetricDescriptors, shutdown, once, client, mdLock, result,
                   next, tss, sent, errs, service>>

Failed_LastOnly(p, kind) == errs' = [errs EXCEPT ![p] = {kind}]
Failed(p, kind) == errs' = [errs EXCEPT ![p] = @ \cup {kind}]

CreateDescriptor(p) ==
    LET i == current[p] IN
    /\ pc[p] = "create"
    /\ \E a \in Answers :
          /\ IF a.effect
             THEN descriptors' = descriptors \cup {Metric(p, i).type}
             ELSE UNCHANGED descriptors
          /\ IF a.ok THEN Cache(p, i) /\ UNCHANGED errs
                     ELSE Failed(p, "descriptor") /\ UNCHANGED mdCache
    /\ mds' = [mds EXCEPT ![p] = @ \ {i}]
    /\ current' = [current EXCEPT ![p] = 0]
    /\ pc' = [pc EXCEPT ![p] = "describe"]
    /\ UNCHANGED <<disableCreateMetricDescriptors, shutdown, once, client, mdLock, result,
                   next, tss, sent, stored>>

(* The deferred Unlock: on every way out.                                  *)
Unlocked_IfNoError(p) == IF errs[p] = {} THEN None ELSE mdLock
Unlocked(p) == None

UnlockDescriptors(p) ==
    /\ pc[p] = "describe"
    /\ mds[p] = {}
    /\ mdLock' = Unlocked(p)
    /\ pc' = [pc EXCEPT ![p] = "convert"]
    /\ UNCHANGED <<disableCreateMetricDescriptors, shutdown, once, client, mdCache, result,
                   mds, current, next, tss, sent, errs, service>>

(* recordToMpb: the cached type, and the formatter's when there is none.   *)
MetricType_Formatted(m) == m.type
MetricType(m) == IF mdCache[m.key] # None THEN mdCache[m.key] ELSE m.type

(* One point; recordToMpb takes the lock for each of them, and is not      *)
(* called for a point that does not convert.                               *)
ConvertPoint(p) ==
    LET i == next[p][1]
        j == next[p][2]
    IN  /\ pc[p] = "convert"
        /\ i <= Len(MetricsOf[p])
        /\ IF j > Len(Metric(p, i).points)
           THEN /\ next' = [next EXCEPT ![p] = <<i + 1, 1>>]
                /\ UNCHANGED <<tss, errs>>
           ELSE /\ next' = [next EXCEPT ![p] = <<i, j + 1>>]
                /\ IF Metric(p, i).points[j]
                   THEN /\ MdLockFree
                        /\ tss' = [tss EXCEPT ![p] = Append(@, MetricType(Metric(p, i)))]
                        /\ UNCHANGED errs
                   ELSE Failed(p, "conversion") /\ UNCHANGED tss
        /\ UNCHANGED <<disableCreateMetricDescriptors, shutdown, once, client, mdLock, mdCache,
                       pc, result, mds, current, sent, service>>

EndConversion(p) ==
    /\ pc[p] = "convert"
    /\ next[p][1] > Len(MetricsOf[p])
    /\ pc' = [pc EXCEPT ![p] = "send"]
    /\ UNCHANGED <<disableCreateMetricDescriptors, shutdown, once, client, mdLock, mdCache,
                   result, mds, current, next, tss, sent, errs, service>>

(* The end of the request that starts at series from + 1.                  *)
BatchEnd(p, from) ==
    IF from + sendBatchSize >= Len(tss[p]) THEN Len(tss[p]) ELSE from + sendBatchSize

SendBatch(p) ==
    LET end == BatchEnd(p, sent[p])
        Batch == (sent[p] + 1)..end
    IN  /\ pc[p] = "send"
        /\ sent[p] < Len(tss[p])
        /\ \E a \in Answers :
              /\ stored' = IF a.ok THEN [stored EXCEPT ![p] = @ \cup Batch] ELSE stored
              /\ IF a.ok THEN UNCHANGED errs ELSE Failed(p, "series")
        /\ sent' = [sent EXCEPT ![p] = end]
        /\ UNCHANGED <<disableCreateMetricDescriptors, shutdown, once, client, mdLock, mdCache,
                       pc, result, mds, current, next, tss, descriptors>>

Return(p) ==
    /\ pc[p] = "send"
    /\ sent[p] >= Len(tss[p])
    /\ pc' = [pc EXCEPT ![p] = "done"]
    /\ result' = [result EXCEPT ![p] = IF errs[p] = {} THEN "nil" ELSE "error"]
    /\ UNCHANGED <<disableCreateMetricDescriptors, shutdown, once, client, mdLock, mdCache,
                   mds, current, next, tss, sent, errs, service>>

ExportStep(p) ==
    \/ Export(p) \/ LockDescriptors(p) \/ GetDescriptor(p) \/ CreateDescriptor(p)
    \/ UnlockDescriptors(p) \/ ConvertPoint(p) \/ EndConversion(p) \/ SendBatch(p) \/ Return(p)

-----------------------------------------------------------------------------
(* Shutdown: sync.Once runs the first call; the others wait for its end.   *)

ShutdownFirst(s) ==
    /\ pc[s] = "idle"
    /\ once = None
    /\ once' = s
    /\ shutdown' = TRUE
    /\ pc' = [pc EXCEPT ![s] = "close"]
    /\ UNCHANGED <<disableCreateMetricDescriptors, client, mdLock, mdCache, result, mds,
                   current, next, tss, sent, errs, service>>

CloseClient(s) ==
    /\ pc[s] = "close"
    /\ client' = "closed"
    /\ pc' = [pc EXCEPT ![s] = "done"]
    /\ \E r \in {"nil", "error"} : result' = [result EXCEPT ![s] = r]
    /\ UNCHANGED <<disableCreateMetricDescriptors, shutdown, once, mdLock, mdCache, mds,
                   current, next, tss, sent, errs, service>>

OnceDone_Begun == once # None
OnceDone == once # None /\ pc[once] = "done"

ShutdownAgain(s) ==
    /\ pc[s] = "idle"
    /\ OnceDone
    /\ pc' = [pc EXCEPT ![s] = "done"]
    /\ result' = [result EXCEPT ![s] = "errShutdown"]
    /\ UNCHANGED <<disableCreateMetricDescriptors, shutdown, once, client, mdLock, mdCache,
                   mds, current, next, tss, sent, errs, service>>

ShutdownStep(s) == ShutdownFirst(s) \/ CloseClient(s) \/ ShutdownAgain(s)

Next == (\E p \in Exports : ExportStep(p)) \/ (\E s \in Stops : ShutdownStep(s))

(* Goroutines that can run do run, and every call of the client ends.      *)
Fairness ==
    /\ \A p \in Exports : WF_vars(ExportStep(p))
    /\ \A s \in Stops : WF_vars(ShutdownStep(s))

Spec == Init /\ [][Next]_vars
FairSpec == Spec /\ Fairness

-----------------------------------------------------------------------------
(* Properties.                                                             *)

TypeOK ==
    /\ disableCreateMetricDescriptors \in BOOLEAN
    /\ shutdown \in BOOLEAN
    /\ once \in Stops \cup {None}
    /\ client \in {"open", "closed"}
    /\ mdLock \in Exports \cup {None}
    /\ mdCache \in [Keys -> Types \cup {None}]
    /\ pc \in [Calls -> {"idle", "lock", "describe", "create", "convert", "send",
                         "close", "done"}]
    /\ result \in [Calls -> {"none", "nil", "error", "errShutdown"}]
    /\ mds \in [Exports -> SUBSET Nat]
    /\ current \in [Exports -> Nat]
    /\ next \in [Exports -> Nat \X Nat]
    /\ tss \in [Exports -> Seq(Types)]
    /\ sent \in [Exports -> Nat]
    /\ errs \in [Exports -> SUBSET {"descriptor", "conversion", "series"}]
    /\ descriptors \subseteq Types
    /\ stored \in [Exports -> SUBSET Nat]

PointsOf(p) ==
    UNION {{i} \X DOMAIN Metric(p, i).points : i \in DOMAIN MetricsOf[p]}

(* An Export that returns nil has written every point of every metric, and *)
(* with descriptors enabled each under a type that has one in the service, *)
(* whatever overlapping calls, lost answers and the formatter did.         *)
OkExportIsWhole ==
    \A p \in Exports : result[p] = "nil" =>
        /\ Cardinality(stored[p]) = Cardinality(PointsOf(p))
        /\ ~disableCreateMetricDescriptors => \A i \in stored[p] : tss[p][i] \in descriptors

(* A key with a cached descriptor is not asked for or created again by     *)
(* the exporter, though overlapping calls of Export have the same metrics. *)
DescribedOnce ==
    \A p \in Exports : \A i \in mds[p] : mdCache[Metric(p, i).key] = None

(* A batch or a descriptor that failed stops nothing: an Export that ends  *)
(* without errShutdown has had every converted series in a request, and an *)
(* error for whatever the service did not acknowledge; what it says of     *)
(* what became of its points is true.                                      *)
EverySeriesTried ==
    \A p \in Exports : pc[p] = "done" /\ result[p] # "errShutdown" =>
        /\ sent[p] = Len(tss[p])
        /\ Cardinality(PointsOf(p)) > Len(tss[p]) => "conversion" \in errs[p]
        /\ stored[p] # 1..Len(tss[p]) => "series" \in errs[p]
PointsAccountedFor == OkExportIsWhole /\ EverySeriesTried

(* Once any Shutdown has returned the client is closed and no later call   *)
(* reaches the service, and one call at most saw anything but errShutdown. *)
StopIsFinal ==
    /\ (\E s \in Stops : pc[s] = "done") => shutdown /\ client = "closed"
    /\ Cardinality({s \in Stops : result[s] \in {"nil", "error"}}) <= 1

(* Every call returns, the calls that waited for the descriptor lock too.  *)
CallsReturn == \A p \in Calls : (pc[p] # "idle") ~> (pc[p] = "done")

=============================================================================
