----------------------------- MODULE Normalizer -----------------------------
(***************************************************************************)
(* The standard normalizer of cumulative points                            *)
(* (exporter/collector/internal/normalization) and the two caches it keeps *)
(* its points in (internal/datapointstorage), for one time series, and the *)
(* source of that series.                                                  *)
(*                                                                         *)
(* The four Normalize...DataPoint methods are one algorithm, modelled on a *)
(* point with one value.  "number" stands for the value of a number point  *)
(* and the Sum of the two histograms, "count" for the Count and the Sum of *)
(* a summary and the uint64 counts of histograms; the two differ in what a *)
(* copy of a zero point leaves in the cache.  shape stands for the bounds  *)
(* or the scale of a histogram.  Time is in milliseconds.                  *)
(*                                                                         *)
(* One call at a time, as with the write-ahead log or a single consumer of *)
(* the sending queue; the garbage collectors of the caches run beside it.  *)
(***************************************************************************)
EXTENDS Integers, Sequences

CONSTANTS
    Kinds,       \* subset of {"number", "count"}
    Modes,       \* how sources set start times: "unset", "set" or "explicit"
    Increments,  \* by how much the counter grows between two points
    Shapes,      \* shapes of the points of a "count"
    Word,        \* 2^64, the modulus of a uint64
    None,        \* no entry; the value of a point that was never set
    MaxTime,     \* bound: the time
    MaxResets    \* bound: resets of the source

ASSUME NormalizerAssumption ==
    /\ Kinds \subseteq {"number", "count"}
    /\ Modes \subseteq {"unset", "set", "explicit"}
    /\ Increments \subseteq Nat
    /\ Word \in Nat \ {0} /\ MaxTime \in Nat \ {0} /\ MaxResets \in Nat

(* What a cache, and a call, can hold: entries, and points.                *)
AllShapes == Shapes \cup {1}
Entries == [ts : Nat \ {0}, val : Int, shape : AllShapes]
Points  == [start : Nat, ts : Nat \ {0}, val : Int, shape : AllShapes]
ASSUME NoneAssumption == None \notin Int \cup Entries \cup Points

Caches == {"start", "previous"}

VARIABLES
    kind, mode,  \* of the series
    now, raw,    \* the source: the time, and its counter
    born,        \* when the source last started counting
    shape,       \* the shape of its points
    cache,       \* startCache and previousCache: an entry [ts, val, shape]
    used,        \* the used flag of each entry
    tick,        \* the cache whose ticker is the next to tick
    pc,          \* where the Normalize call is
    point,       \* the point given to it, which it modifies
    start,       \* the entry it got from startCache
    writes,      \* the Sets it has still to make, <<cache, entry>>
    keep,        \* what it returns
    wire,        \* history: the last point, as the source sent it
    sent,        \* history: the last point written to Cloud Monitoring
    totalAt,     \* history: all the source had counted, at each time
    resets,      \* history: resets of the source
    unseen,      \* history: it was reset since a start was last set
    madeUp,      \* history: the last start is one made up for a reset
    disturbed,   \* history: an entry was collected, or a point sent again
    retried      \* history: it was sent again as the normalizer had left it

seriesVars == <<kind, mode>>
sourceVars == <<now, raw, born, shape, wire, totalAt, resets>>
cacheVars  == <<cache, used>>
callVars   == <<pc, point, start, writes, keep>>
historyVars == <<sent, unseen, madeUp, disturbed, retried>>
vars == <<seriesVars, sourceVars, cacheVars, tick, callVars, historyVars>>

Init ==
    /\ kind \in Kinds /\ mode \in Modes
    /\ now = 1 /\ born = 1 /\ raw = 0
    /\ shape \in IF kind = "count" THEN Shapes ELSE {1}
    /\ cache = [c \in Caches |-> None] /\ used = [c \in Caches |-> FALSE]
    /\ tick \in Caches
    /\ pc = "idle" /\ point = None /\ start = None /\ writes = <<>> /\ keep = FALSE
    /\ wire = None /\ sent = None
    /\ totalAt = [t \in 1..MaxTime |-> 0] /\ resets = 0
    /\ unseen = FALSE /\ madeUp = FALSE /\ disturbed = FALSE /\ retried = FALSE
----------------------------------------------------------------------------
(* The source, external: it counts, and may be restarted; it gives its     *)
(* start time, or none, or marks its first point by a start time equal to  *)
(* the time of the point.  Points arrive in order, and a count fits its    *)
(* uint64.                                                                 *)

Arrives(p) ==
    /\ pc = "idle" /\ pc' = "getStart"
    /\ point' = p
    /\ UNCHANGED <<seriesVars, cacheVars, tick, start, writes, keep, sent,
                   madeUp>>

Report ==
    \E t \in (now + 1)..MaxTime, inc \in Increments, restarted \in BOOLEAN :
        /\ restarted => resets < MaxResets
        /\ now' = t
        /\ raw' = IF restarted THEN inc ELSE raw + inc
        /\ kind = "count" => raw' < Word
        /\ resets' = IF restarted THEN resets + 1 ELSE resets
        /\ born' = IF mode = "explicit" /\ (restarted \/ wire = None) THEN t
                   ELSE IF restarted THEN now ELSE born
        /\ shape' \in IF kind = "count" THEN Shapes ELSE {1}
        /\ totalAt' = [s \in 1..MaxTime |->
                           IF s < t THEN totalAt[s] ELSE totalAt[now] + inc]
        /\ wire' = [start |-> IF mode = "unset" THEN 0 ELSE born', ts |-> t,
                    val |-> raw', shape |-> shape']
        /\ unseen' = (unseen \/ restarted)
        /\ Arrives(wire') /\ UNCHANGED <<disturbed, retried>>

(* The last point is delivered once more.                                  *)
Resend ==
    /\ wire # None /\ ~disturbed /\ disturbed' = TRUE
    /\ Arrives(wire)
    /\ UNCHANGED <<sourceVars, unseen, retried>>

(* PushMetrics has failed and the exporterhelper, with retry_on_failure,   *)
(* calls it again with its payload, whose point was modified in place.     *)
Retry ==
    /\ point # None /\ ~disturbed /\ disturbed' = TRUE /\ retried' = TRUE
    /\ Arrives(point)
    /\ UNCHANGED <<sourceVars, unseen>>
----------------------------------------------------------------------------
(* datapointstorage                                                        *)

Entry(p) == [ts |-> p.ts, val |-> p.val, shape |-> p.shape]

(* Get marks what it finds as used.                                        *)
Got(c) == used' = [used EXCEPT ![c] = @ \/ cache[c] # None]

(* minimal...DataPointCopyTo, into the entry that is there, or a new one.  *)
(* A number that was never set copies nothing.                             *)
Copied_Timestamp(e, into) == IF into = None THEN e ELSE [into EXCEPT !.ts = e.ts]
Copied_IfSet(e, into) ==
    IF e.val # None THEN e ELSE [e EXCEPT !.val = IF into # None THEN into.val ELSE 0]
Copied(e, into) ==
    IF e.val # None THEN e
    ELSE [e EXCEPT !.val = IF kind = "number" /\ into # None THEN into.val ELSE 0]

Set(c, e) ==
    /\ cache' = [cache EXCEPT ![c] = Copied(e, cache[c])]
    /\ used' = [used EXCEPT ![c] = TRUE]

(* gc, on a tick.  The two tickers were started together.                  *)
Collects(c) == ~used[c]

GC ==
    /\ tick' \in Caches \ {tick}
    /\ cache' = IF Collects(tick) THEN [cache EXCEPT ![tick] = None] ELSE cache
    /\ used' = [used EXCEPT ![tick] = FALSE]
    /\ disturbed' = (disturbed \/ cache' # cache)
    /\ UNCHANGED <<seriesVars, sourceVars, callVars, sent, unseen, madeUp, retried>>
----------------------------------------------------------------------------
(* Normalize...DataPoint                                                   *)

ResetPoint(p) == p.start >= p.ts

(* The point becomes the start of the series, and is not exported.         *)
Restart_PreviousOnly ==
    /\ writes' = << <<"previous", Entry(point)>> >>
    /\ keep' = FALSE /\ pc' = "write"
    /\ unseen' = FALSE /\ madeUp' = FALSE
    /\ UNCHANGED point
Restart ==
    /\ writes' = << <<"start", Entry(point)>>, <<"previous", Entry(point)>> >>
    /\ keep' = FALSE /\ pc' = "write"
    /\ unseen' = FALSE /\ madeUp' = FALSE
    /\ UNCHANGED point

GetStart ==
    /\ pc = "getStart"
    /\ Got("start") /\ start' = cache["start"]
    /\ LET hasStart == cache["start"] # None IN
       \/ ~hasStart /\ (point.start = 0 \/ ResetPoint(point)) /\ Restart
       \/ /\ ~hasStart /\ point.start # 0 /\ ~ResetPoint(point)
          /\ keep' = TRUE /\ pc' = "write"
          /\ UNCHANGED <<writes, point, unseen, madeUp>>
       \/ hasStart /\ point.shape # cache["start"].shape /\ Restart
       \/ /\ hasStart /\ point.shape = cache["start"].shape
          /\ pc' = "getPrevious"
          /\ UNCHANGED <<writes, keep, point, unseen, madeUp>>
    /\ UNCHANGED <<seriesVars, sourceVars, cache, tick, sent, disturbed, retried>>

(* Not found, it is the start.                                             *)
Previous == IF cache["previous"] # None THEN cache["previous"] ELSE start

WasReset_OnEqual == ResetPoint(point) \/ (point.start = 0 /\ point.val <= Previous.val)
WasReset == ResetPoint(point) \/ (point.start = 0 /\ point.val < Previous.val)

(* The reset is taken to be at T - 1 ms, and the value left as it is.      *)
StartedAt_Reset == point.ts
StartedAt_Earlier == point.ts - 2
StartedAt == point.ts - 1

Minus_Swapped(a, b) == IF kind = "count" THEN (b - a) % Word ELSE b - a
Minus(a, b) == IF kind = "count" THEN (a - b) % Word ELSE a - b

(* A point no later than the start cannot be exported.                     *)
TooOld == start.ts >= point.ts

GetPrevious ==
    /\ pc = "getPrevious" /\ pc' = "write"
    /\ Got("previous")
    /\ \/ /\ WasReset
          /\ point' = [point EXCEPT !.start = StartedAt]
          /\ writes' = << <<"previous", Entry(point)>>,
                          <<"start", [ts |-> StartedAt, val |-> None,
                                      shape |-> point.shape]>> >>
          /\ keep' = TRUE /\ unseen' = FALSE /\ madeUp' = TRUE
       \/ /\ ~WasReset /\ TooOld
          /\ keep' = FALSE /\ UNCHANGED <<point, writes, unseen, madeUp>>
       \/ /\ ~WasReset /\ ~TooOld
          /\ point' = [point EXCEPT !.start = start.ts, !.val = Minus(@, start.val)]
          /\ writes' = << <<"previous", Entry(point')>> >>
          /\ keep' = TRUE /\ UNCHANGED <<unseen, madeUp>>
    /\ UNCHANGED <<seriesVars, sourceVars, cache, start, tick, sent, disturbed,
                   retried>>

Write ==
    /\ pc = "write" /\ writes # <<>>
    /\ Set(Head(writes)[1], Head(writes)[2])
    /\ writes' = Tail(writes)
    /\ UNCHANGED <<seriesVars, sourceVars, tick, pc, point, start, keep,
                   historyVars>>

Return ==
    /\ pc = "write" /\ writes = <<>>
    /\ pc' = "idle" /\ start' = None /\ keep' = FALSE
    /\ sent' = IF keep THEN point ELSE sent
    /\ UNCHANGED <<seriesVars, sourceVars, cacheVars, tick, point, writes, unseen,
                   madeUp, disturbed, retried>>

Next == Report \/ Resend \/ Retry \/ GC \/ GetStart \/ GetPrevious \/ Write \/ Return
Spec == Init /\ [][Next]_vars
----------------------------------------------------------------------------
(* What is written to Cloud Monitoring is a valid cumulative point, with   *)
(* an interval that is not empty, whatever start time the source gave.     *)
(* Points that do not share a start do not overlap: a new start is given   *)
(* only after the end of what was sent.  A duplicate, a retry or an entry  *)
(* that was collected breaks this for explicit starts, and after a reset   *)
(* that was not noticed.                                                   *)
NoOverlap == sent'.start = sent.start \/ sent'.start >= sent.ts
IntervalsInOrder ==
    [][sent' # sent =>
           /\ sent'.start < sent'.ts
           /\ sent # None
                  /\ (disturbed => mode = "set" \/ (mode = "unset" /\ resets = 0))
              => NoOverlap]_vars

(* As long as the source was never reset, what is sent is what it counted  *)
(* since the start that is sent with it, whichever entries were collected  *)
(* in between.  A source that gives its start times may also be reset.  A  *)
(* retry of the payload is left out: it subtracts the start once more.     *)
Since(t, p) == totalAt[p.ts] - totalAt[t]
ExactUntilReset ==
    /\ sent # None /\ ~retried
    /\ \/ mode = "set"
       \/ mode = "unset" /\ resets = 0
       \/ mode = "explicit" /\ resets = 0 /\ ~disturbed
    => sent.val = Since(sent.start, sent)

(* A start is made up only for a source that was reset since the last one: *)
(* equal values, duplicates and what the caches have collected are not     *)
(* taken for resets, but where the previous point alone was collected.  A  *)
(* retried count may wrap under its start, and the next one look reset.    *)
TakenForReset == pc = "getPrevious" /\ pc' = "write" /\ Len(writes') = 2
ResetsAreReal ==
    [][TakenForReset /\ point.start = 0 /\ cache["previous"] # None
           /\ (retried => kind = "number") => unseen]_vars

(* A point is dropped only when a start at its own time, or a later one,   *)
(* has taken its place.                                                    *)
DroppedOnlyForStart ==
    pc = "write" /\ writes = <<>> /\ ~keep =>
        IF cache["start"] = None THEN disturbed ELSE cache["start"].ts >= point.ts

(* "This normalizer also detects subsequent resets, and produces a new     *)
(* start time for those points."                                           *)
SubsequentResetsDetected ==
    [][pc = "getPrevious" /\ pc' = "write" /\ resets = 1 /\ unseen
           /\ point.val < totalAt[now - 1] => TakenForReset]_vars

(* "Store a point with the same timestamps, but zero value": the start     *)
(* after a reset has the value zero.  It has for a count; a zero number    *)
(* copies no value into the cached start, which keeps its old one.         *)
StartIsZeroAfterReset ==
    pc = "idle" /\ madeUp /\ cache["start"] # None /\ kind = "count" =>
        cache["start"].val = 0
=============================================================================
