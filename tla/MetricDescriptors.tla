-------------------------- MODULE MetricDescriptors --------------------------
(***************************************************************************)
(* How the collector metrics exporter reports metric descriptors           *)
(* (exporter/collector/metrics.go): PushMetrics offers the descriptor of   *)
(* every metric it meets to the channel metricDescriptorC and never waits; *)
(* exportMetricDescriptorRunner takes them off, skips those in its cache,  *)
(* and calls CreateMetricDescriptor for the others.  Shutdown lets it      *)
(* publish what is still queued, up to Shutdown's own deadline.            *)
(*                                                                         *)
(* Abstracted: a descriptor is the key of the cache, <project>/<type>; the *)
(* write-ahead log, under whose lock the pushes do not overlap (they do    *)
(* without it, as here), is module ExporterWAL.                            *)
(***************************************************************************)
EXTENDS Naturals, Sequences

CONSTANTS
    Pushers,   \* concurrent callers of PushMetrics, each calling repeatedly
    Offers,    \* the descriptors of the metrics each of them pushes, in order
    Capacity,  \* create_metric_descriptor_buffer_size
    None       \* no descriptor

Types == UNION {{Offers[p][k] : k \in 1..Len(Offers[p])} : p \in Pushers}

ASSUME DescriptorAssumption ==
    /\ \A p \in Pushers : Offers[p] \in Seq(Types)
    /\ Capacity \in Nat
    /\ None \notin Types

VARIABLES
    todo,     \* what is left of each push to offer; <<>>: no push under way
    chan,     \* metricDescriptorC
    pc,       \* where the runner is
    draining, \* the runner is in its inner loop, after shutdownC closed
    cur,      \* the descriptor the runner holds
    mdCache,  \* the keys of mdCache
    stop,     \* Shutdown: not called, shutdownC closed, or client closed
    answered, \* history: descriptors created, or rejected for good
    tried,    \* history: descriptors the runner has taken off the channel
    owed      \* history: descriptors queued when shutdownC was closed

vars == <<todo, chan, pc, draining, cur, mdCache, stop, answered, tried, owed>>

Init ==
    /\ todo = [p \in Pushers |-> <<>>] /\ chan = <<>>
    /\ pc = "select" /\ draining = FALSE /\ cur = None
    /\ mdCache = {} /\ stop = "no"
    /\ answered = {} /\ tried = {} /\ owed = {}

Queued == {chan[k] : k \in 1..Len(chan)}
Held   == IF pc \in {"export", "calling"} THEN {cur} ELSE {}
----------------------------------------------------------------------------
(* PushMetrics.  The collector stops what feeds an exporter before it      *)
(* shuts the exporter down; a call already made may still run.             *)
PushCall(p) ==
    /\ stop = "no" /\ todo[p] = <<>>
    /\ todo' = [todo EXCEPT ![p] = Offers[p]]
    /\ UNCHANGED <<chan, pc, draining, cur, mdCache, stop, answered, tried, owed>>

(* A runner blocked in its select takes the value straight from the sender. *)
Handed(d) == pc = "parked" /\ pc' = "export" /\ cur' = d /\ UNCHANGED chan
Queues(d) ==
    /\ pc # "parked" /\ Len(chan) < Capacity
    /\ chan' = Append(chan, d) /\ UNCHANGED <<pc, cur>>
Full == pc # "parked" /\ Len(chan) >= Capacity

(* select { case metricDescriptorC <- req: default: }                      *)
Offer_Blocking(d) == Handed(d) \/ Queues(d)
Offer(d) ==
    \/ Handed(d) \/ Queues(d)
    \/ Full /\ UNCHANGED <<chan, pc, cur>>

PushStep(p) ==
    /\ todo[p] # <<>>
    /\ Offer(Head(todo[p]))
    /\ todo' = [todo EXCEPT ![p] = Tail(@)]
    /\ UNCHANGED <<draining, mdCache, stop, answered, tried, owed>>
----------------------------------------------------------------------------
(* exportMetricDescriptorRunner                                            *)

Take_Twice ==
    /\ Len(chan) > 1
    /\ cur' = chan[2] /\ chan' = Tail(Tail(chan)) /\ pc' = "export"
Take ==
    /\ chan # <<>>
    /\ cur' = Head(chan) /\ chan' = Tail(chan) /\ pc' = "export"

RunnerSelect ==
    /\ pc = "select" /\ ~draining
    /\ \/ Take /\ UNCHANGED draining
       \/ stop # "no" /\ draining' = TRUE /\ UNCHANGED <<pc, chan, cur>>
       \/ /\ chan = <<>> /\ stop = "no"
          /\ pc' = "parked" /\ UNCHANGED <<draining, chan, cur>>
    /\ UNCHANGED <<todo, mdCache, stop, answered, tried, owed>>

DrainNext_Returns == pc' = "done" /\ UNCHANGED <<chan, cur>>
DrainNext_Waits == Take
DrainNext ==
    \/ Take
    \/ chan = <<>> /\ pc' = "done" /\ UNCHANGED <<chan, cur>>

RunnerDrain ==
    /\ pc = "select" /\ draining
    /\ DrainNext
    /\ UNCHANGED <<todo, draining, mdCache, stop, answered, tried, owed>>

(* exportMetricDescriptor                                                  *)
Known_Never(d) == FALSE
Known(d) == d \in mdCache

RunnerExport ==
    /\ pc = "export"
    /\ \/ Known(cur) /\ pc' = "select" /\ cur' = None
       \/ ~Known(cur) /\ pc' = "calling" /\ UNCHANGED cur
    /\ tried' = tried \cup {cur}
    /\ UNCHANGED <<todo, chan, draining, mdCache, stop, answered, owed>>

(* An error other than DeadlineExceeded or Unavailable is cached like a    *)
(* success; that includes the Canceled of a client that is closed.         *)
Cached_OnAnyError == {"ok", "rejected", "retryable"}
Cached == {"ok", "rejected"}

RunnerAnswer ==
    /\ pc = "calling"
    /\ \E answer \in {"ok", "rejected", "retryable"} :
          /\ stop = "closed" => answer # "ok"
          /\ mdCache' = IF answer \in Cached THEN mdCache \cup {cur} ELSE mdCache
          /\ answered' = IF answer = "retryable" THEN answered ELSE answered \cup {cur}
    /\ pc' = "select" /\ cur' = None
    /\ UNCHANGED <<todo, chan, draining, stop, tried, owed>>

RunnerStep == RunnerSelect \/ RunnerDrain \/ RunnerExport \/ RunnerAnswer
----------------------------------------------------------------------------
(* close(me.shutdownC), which wakes a runner blocked in its select.        *)
ShutdownCall ==
    /\ stop = "no" /\ stop' = "called"
    /\ owed' = Queued \cup Held
    /\ pc' = IF pc = "parked" THEN "select" ELSE pc
    /\ draining' = (pc = "parked")
    /\ UNCHANGED <<todo, chan, cur, mdCache, answered, tried>>

(* The runner is done, or Shutdown's context is; the client is closed.     *)
ShutdownReturn ==
    /\ stop = "called" /\ stop' = "closed"
    /\ UNCHANGED <<todo, chan, pc, draining, cur, mdCache, answered, tried, owed>>

Next ==
    \/ \E p \in Pushers : PushCall(p) \/ PushStep(p)
    \/ RunnerStep \/ ShutdownCall \/ ShutdownReturn

Spec == Init /\ [][Next]_vars

(* The pushes run on; every call to the backend ends, if only at its       *)
(* timeout.                                                                *)
FairSpec == Spec /\ WF_vars(RunnerStep) /\ \A p \in Pushers : WF_vars(PushStep(p))
----------------------------------------------------------------------------
(* Types of every variable, and the channel within its buffer.             *)
TypeOK ==
    /\ todo \in [Pushers -> Seq(Types)] /\ chan \in Seq(Types)
    /\ Len(chan) <= Capacity
    /\ pc \in {"select", "parked", "export", "calling", "done"}
    /\ draining \in BOOLEAN /\ cur \in Types \cup {None}
    /\ mdCache \in SUBSET Types /\ stop \in {"no", "called", "closed"}
    /\ answered \in SUBSET Types /\ tried \in SUBSET Types /\ owed \in SUBSET Types

(* "reports them (once)": a descriptor that was created, or rejected for   *)
(* good, is never sent again, whoever offers it and however often.         *)
ReportedOnce ==
    [][pc' = "calling" /\ pc # "calling" => cur' \notin answered]_vars

(* A descriptor is left out of later calls only if it got a final answer:  *)
(* one whose call timed out is still tried "next time around".             *)
SkippedOnlyIfAnswered ==
    [][pc = "export" /\ pc' = "select" => cur \in answered]_vars

(* "if we get terminated, this will still attempt to export all            *)
(* descriptors prior to shutdown": none that was queued is left.           *)
DrainedWhenDone == pc = "done" => owed \subseteq tried

(* "MetricDescritpors are asychronously sent": a push is never held up,    *)
(* whether the channel is full, the runner waits for a backend that does   *)
(* not answer, or it has ended; and the runner ends after Shutdown.        *)
RunnerStops == (stop # "no") ~> (pc = "done")
PushEnds == \A p \in Pushers : (todo[p] # <<>>) ~> (todo[p] = <<>>)
NothingHangs == RunnerStops /\ PushEnds

(* A descriptor that got on the channel is taken off it and sent.          *)
QueuedIsTried == \A d \in Types : (d \in Queued /\ stop = "no") ~> (d \in tried)
=============================================================================
