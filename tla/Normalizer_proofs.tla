-------------------------- MODULE Normalizer_proofs --------------------------
(***************************************************************************)
(* Proofs about Normalizer: the intervals and the values of the points     *)
(* that are exported, the resets that are seen, and the points that are    *)
(* dropped.                                                                *)
(*                                                                         *)
(* What makes it inductive: the start a call is about to export under, and *)
(* the one in the cache, is that of the point sent last, or lies at or     *)
(* after the end of it (Starts).  That a start made up at T - 1 ms is      *)
(* such a start rests on what was sent being earlier than T (Fresh); when  *)
(* a duplicate is at T, nothing must look like a reset, which needs the    *)
(* values that are cached to be no larger than the counter (Values).       *)
(*                                                                         *)
(* What is sent has the right value because a start that is cached holds   *)
(* all that was counted by its time (Totalled) while the series is Steady. *)
(* A reset is only seen where there was one because, until the source is   *)
(* reset, neither the previous point nor the start of a count is above the *)
(* counter (Seen); a number may fall below zero, never above it (Numbers). *)
(***************************************************************************)
EXTENDS Normalizer, TLAPS

(* An entry to be written has no value if its point never had one.         *)
ToStore == [ts : Nat \ {0}, val : Int \cup {None}, shape : AllShapes]
ToWrite == Caches \X ToStore

Typed ==
    /\ now \in Nat \ {0} /\ raw \in Nat /\ born \in 1..now /\ resets \in Nat
    /\ shape \in AllShapes
    /\ cache \in [Caches -> Entries \cup {None}]
    /\ pc \in {"idle", "getStart", "getPrevious", "write"}
    /\ wire \in Points \cup {None} /\ point \in Points \cup {None}
    /\ sent \in Points \cup {None} /\ start \in Entries \cup {None}
    /\ writes \in Seq(ToWrite)

(* A call has a point, and the start of its series once it looks for the   *)
(* point before; what it returns is settled, and written, at its end.      *)
InCall ==
    /\ pc # "idle" => point # None
    /\ pc = "getPrevious" => start # None
    /\ pc # "write" => writes = <<>> /\ ~keep
OneSeries == kind \in Kinds /\ mode \in Modes
Base == Typed /\ InCall /\ OneSeries

(* The points in hand are of now; what is sent has an interval.            *)
Timely ==
    /\ wire # None => wire.ts = now /\ now > 1
    /\ point # None => wire # None /\ point.ts = now
    /\ sent # None => sent.start < sent.ts /\ sent.ts <= now
    /\ pc = "write" /\ keep => 0 < point.start /\ point.start < point.ts

(* What Set leaves in a cache.                                             *)
LEMMA SetStores ==
    ASSUME Typed, NEW c \in Caches,
           NEW e \in ToStore, Set(c, e)
    PROVE  /\ cache' \in [Caches -> Entries \cup {None}]
           /\ \A d \in Caches : d # c => cache'[d] = cache[d]
           /\ cache'[c] \in Entries /\ cache'[c] # None
           /\ cache'[c].ts = e.ts
           /\ \/ cache'[c].val = e.val \/ cache'[c].val = 0
              \/ cache[c] # None /\ cache'[c].val = cache[c].val
           /\ kind = "count" /\ e.val = None => cache'[c].val = 0
<1> DEFINE stored == Copied(e, cache[c])
<1>1. None \notin Int \cup Entries
  BY NoneAssumption
<1>2. cache[c] \in Entries \cup {None}
  BY DEF Typed
<1>3. /\ stored \in Entries /\ stored.ts = e.ts
      /\ \/ stored.val = e.val \/ stored.val = 0
         \/ cache[c] # None /\ stored.val = cache[c].val
      /\ kind = "count" /\ e.val = None => stored.val = 0
  BY <1>1, <1>2, SMT DEF Copied, Entries, ToStore
<1>4. cache' = [cache EXCEPT ![c] = stored]
  BY DEF Set
<1> HIDE DEF stored
<1>5. cache'[c] = stored /\ \A d \in Caches : d # c => cache'[d] = cache[d]
  BY <1>4 DEF Typed
<1>6. cache' \in [Caches -> Entries \cup {None}]
  BY <1>3, <1>4 DEF Typed
<1> QED
  BY <1>1, <1>3, <1>5, <1>6

(* The series stays what it is.                                            *)
LEMMA SeriesKept == [Next]_vars => UNCHANGED <<kind, mode>>
<1> SUFFICES ASSUME [Next]_vars PROVE UNCHANGED <<kind, mode>>
  OBVIOUS
<1>1. CASE Report \/ Resend \/ Retry
  BY <1>1 DEF Report, Resend, Retry, Arrives, seriesVars
<1>2. CASE GC \/ GetStart \/ GetPrevious \/ Write \/ Return
  BY <1>2 DEF GC, GetStart, GetPrevious, Write, Return, seriesVars
<1>3. CASE UNCHANGED vars
  BY <1>3 DEF vars, seriesVars
<1> QED
  BY <1>1, <1>2, <1>3 DEF Next

(* The types at each step.                                                 *)
LEMMA BaseKept == Base /\ Timely /\ [Next]_vars => Base'
<1> SUFFICES ASSUME Typed, InCall, Timely, [Next]_vars PROVE Typed' /\ InCall'
  BY SeriesKept DEF Base, OneSeries
<1>0. None \notin Points /\ None \notin Entries /\ None \notin Int
  BY NoneAssumption
<1>a. Increments \subseteq Nat /\ MaxTime \in Nat /\ Word \in Nat \ {0}
  BY NormalizerAssumption
<1>1. CASE Report
  <2>1. PICK t \in (now + 1)..MaxTime, inc \in Increments, restarted \in BOOLEAN :
            /\ now' = t /\ raw' = IF restarted THEN inc ELSE raw + inc
            /\ resets' = IF restarted THEN resets + 1 ELSE resets
            /\ born' = IF mode = "explicit" /\ (restarted \/ wire = None) THEN t
                       ELSE IF restarted THEN now ELSE born
            /\ shape' \in IF kind = "count" THEN Shapes ELSE {1}
            /\ wire' = [start |-> IF mode = "unset" THEN 0 ELSE born', ts |-> t,
                        val |-> raw', shape |-> shape']
            /\ Arrives(wire')
    BY <1>1 DEF Report
  <2>2. now' \in Nat \ {0} /\ raw' \in Nat /\ born' \in 1..now' /\ resets' \in Nat
    BY <1>a, <2>1, SMT DEF Typed
  <2>3. shape' \in AllShapes
    BY <2>1 DEF AllShapes
  <2>4. wire' \in Points
    BY <2>1, <2>2, <2>3, SMT DEF Points
  <2>5. /\ point' = wire' /\ pc' = "getStart" /\ pc = "idle"
        /\ UNCHANGED <<cache, start, writes, keep, sent>>
    BY <2>1 DEF Arrives, cacheVars
  <2> QED
    BY <1>0, <2>2, <2>3, <2>4, <2>5 DEF Typed, InCall
<1>2. CASE Resend \/ Retry
  <2>1. PICK p \in {wire, point} : p # None /\ Arrives(p)
    BY <1>2 DEF Resend, Retry
  <2> QED
    BY <1>2, <2>1 DEF Typed, InCall, Resend, Retry, Arrives, sourceVars, cacheVars
<1>3. CASE GC
  <2>1. cache' \in [Caches -> Entries \cup {None}]
    BY <1>3 DEF GC, Typed
  <2> QED
    BY <1>3, <2>1 DEF GC, Typed, InCall, sourceVars, callVars
<1>4. CASE GetStart
  <2>1. /\ pc = "getStart" /\ point \in Points /\ start' \in Entries \cup {None}
        /\ UNCHANGED <<sourceVars, cache, sent, point>>
    BY <1>4 DEF GetStart, Restart, Typed, InCall, Caches
  <2>2. Entry(point) \in ToStore
    BY <2>1 DEF Points, Entry, ToStore
  <2>3. CASE Restart
    <3>1. writes' \in Seq(ToWrite) /\ pc' = "write"
      BY <2>2, <2>3 DEF Restart, ToWrite, Caches
    <3> QED
      BY <2>1, <3>1 DEF Typed, InCall, sourceVars
  <2>4. CASE ~Restart
    <3>1. /\ writes' = writes /\ pc' \in {"getPrevious", "write"}
          /\ pc' = "getPrevious" => start' # None /\ keep' = keep
      BY <1>4, <2>4 DEF GetStart
    <3> QED
      BY <2>1, <3>1 DEF Typed, InCall, sourceVars
  <2> QED
    BY <2>3, <2>4
<1>5. CASE GetPrevious
  <2>1. /\ pc = "getPrevious" /\ point \in Points /\ start \in Entries
        /\ pc' = "write" /\ UNCHANGED <<sourceVars, cache, start, sent>>
    BY <1>5 DEF GetPrevious, Typed, InCall
  <2>2. point' \in Points /\ writes' \in Seq(ToWrite)
    <3>1. CASE WasReset /\ point' = [point EXCEPT !.start = StartedAt]
               /\ writes' = << <<"previous", Entry(point)>>,
                               <<"start", [ts |-> StartedAt, val |-> None,
                                           shape |-> point.shape]>> >>
      <4>1. StartedAt \in Nat \ {0}
        BY <1>0, <2>1, SMT DEF Timely, StartedAt, Typed, Points
      <4>2. /\ Entry(point) \in ToStore
            /\ [ts |-> StartedAt, val |-> None, shape |-> point.shape] \in ToStore
        BY <2>1, <4>1 DEF Points, Entry, ToStore
      <4>3. writes' \in Seq(ToWrite)
        BY <3>1, <4>2 DEF ToWrite, Caches
      <4>4. point' \in Points
        BY <2>1, <3>1, <4>1 DEF Points
      <4> QED
        BY <4>3, <4>4
    <3>2. CASE UNCHANGED <<point, writes>>
      BY <2>1, <3>2 DEF Typed
    <3>3. CASE /\ point' = [point EXCEPT !.start = start.ts, !.val = Minus(@, start.val)]
               /\ writes' = << <<"previous", Entry(point')>> >>
      <4>1. Minus(point.val, start.val) \in Int
        BY <1>a, <2>1, SMT DEF Minus, Points, Entries
      <4>2. point' \in Points
        BY <2>1, <3>3, <4>1 DEF Points, Entries
      <4>3. Entry(point') \in ToStore
        BY <4>2 DEF Points, Entry, ToStore
      <4> QED
        BY <3>3, <4>2, <4>3 DEF ToWrite, Caches
    <3> QED
      BY <1>5, <3>1, <3>2, <3>3 DEF GetPrevious
  <2> QED
    BY <1>0, <2>1, <2>2 DEF Typed, InCall, sourceVars
<1>6. CASE Write
  <2>1. /\ pc = "write" /\ writes # <<>> /\ Set(writes[1][1], writes[1][2])
        /\ writes' = Tail(writes) /\ UNCHANGED <<sourceVars, pc, point, start, keep, sent>>
    BY <1>6 DEF Write, historyVars, Typed
  <2>2. /\ writes[1][1] \in Caches
        /\ writes[1][2] \in ToStore
    BY <2>1 DEF Typed, ToWrite
  <2>3. cache' \in [Caches -> Entries \cup {None}]
    BY <2>1, <2>2, SetStores
  <2>4. writes' \in Seq(ToWrite)
    BY <2>1 DEF Typed
  <2> QED
    BY <2>1, <2>3, <2>4 DEF Typed, InCall, sourceVars
<1>7. CASE Return
  BY <1>7 DEF Return, Typed, InCall, sourceVars, cacheVars
<1>8. CASE UNCHANGED vars
  BY <1>8 DEF vars, Typed, InCall, sourceVars, cacheVars, callVars, historyVars
<1> QED
  BY <1>1, <1>2, <1>3, <1>4, <1>5, <1>6, <1>7, <1>8 DEF Next
----------------------------------------------------------------------------
(* What the steps of a call do, as the lemmas on the invariant use it.     *)

(* A start is still to be written, and what it is.                         *)
StartPending == \E n \in 1..Len(writes) : writes[n][1] = "start"
NewStart == IF keep THEN point.start ELSE point.ts

(* A call begins its series, exports the point as it is, or goes on.       *)
LEMMA GetStartDoes ==
    ASSUME Base, GetStart
    PROVE  /\ pc = "getStart" /\ point \in Points /\ start' = cache["start"]
           /\ UNCHANGED <<seriesVars, sourceVars, cache, sent, point, disturbed, retried>>
           /\ \/ /\ pc' = "write" /\ ~keep' /\ StartPending' /\ ~madeUp'
                 /\ \A n \in 1..Len(writes') : /\ writes'[n][2].ts = point.ts
                                               /\ writes'[n][2].val = point.val
              \/ /\ cache["start"] = None /\ point.start # 0 /\ ~ResetPoint(point)
                 /\ pc' = "write" /\ keep' /\ writes' = <<>> /\ madeUp' = madeUp
              \/ /\ cache["start"] # None
                 /\ pc' = "getPrevious" /\ ~keep' /\ writes' = <<>> /\ madeUp' = madeUp
<1>1. CASE Restart
  <2>1. writes' = << <<"start", Entry(point)>>, <<"previous", Entry(point)>> >>
    BY <1>1 DEF Restart
  <2>2. Len(writes') = 2 /\ writes'[1][1] = "start"
    BY <2>1
  <2>3. StartPending'
    BY <2>2 DEF StartPending
  <2>4. \A n \in 1..Len(writes') : /\ writes'[n][2].ts = point.ts
                                  /\ writes'[n][2].val = point.val
    BY <2>1, <2>2 DEF Entry
  <2> QED
    BY <1>1, <2>3, <2>4 DEF GetStart, Restart, Base, Typed, InCall
<1>2. CASE ~Restart
  BY <1>2 DEF GetStart, Base, Typed, InCall
<1> QED
  BY <1>1, <1>2

(* A call takes the point for a reset, drops it, or subtracts the start.   *)
LEMMA GetPreviousDoes ==
    ASSUME Base, GetPrevious
    PROVE  /\ pc = "getPrevious" /\ pc' = "write" /\ point \in Points /\ start \in Entries
           /\ UNCHANGED <<seriesVars, sourceVars, cache, start, sent, disturbed, retried>>
           /\ point'.ts = point.ts
           /\ \/ /\ WasReset /\ keep' /\ StartPending' /\ point'.start = point.ts - 1
                 /\ \A n \in 1..Len(writes') :
                        /\ writes'[n][1] = "start" => /\ writes'[n][2].ts = point.ts - 1
                                                     /\ writes'[n][2].val = None
                        /\ writes'[n][2].val \in {point.val, None}
              \/ /\ ~WasReset /\ TooOld /\ ~keep' /\ point' = point /\ writes' = <<>>
                 /\ madeUp' = madeUp
              \/ /\ ~WasReset /\ ~TooOld /\ keep' /\ point'.start = start.ts /\ madeUp' = madeUp
                 /\ \A n \in 1..Len(writes') :
                        /\ writes'[n][1] # "start"
                        /\ writes'[n][2].val = Minus(point.val, start.val)
<1>1. /\ pc = "getPrevious" /\ point \in Points /\ start \in Entries /\ writes = <<>> /\ ~keep
      /\ pc' = "write"
      /\ UNCHANGED <<seriesVars, sourceVars, cache, start, sent, disturbed, retried>>
  BY DEF GetPrevious, Base, Typed, InCall
<1>2. CASE /\ WasReset /\ point' = [point EXCEPT !.start = StartedAt] /\ keep'
           /\ writes' = << <<"previous", Entry(point)>>,
                           <<"start", [ts |-> StartedAt, val |-> None,
                                       shape |-> point.shape]>> >>
  <2>1. Len(writes') = 2 /\ writes'[1][1] = "previous" /\ writes'[2][1] = "start"
    BY <1>2
  <2>2. StartPending'
    BY <2>1 DEF StartPending
  <2>3. writes'[1][2].val = point.val /\ writes'[2][2].val = None
        /\ writes'[2][2].ts = point.ts - 1
    BY <1>2 DEF Entry, StartedAt
  <2>4. \A n \in 1..Len(writes') :
            /\ writes'[n][1] = "start" => /\ writes'[n][2].ts = point.ts - 1
                                         /\ writes'[n][2].val = None
            /\ writes'[n][2].val \in {point.val, None}
    <3> TAKE n \in 1..Len(writes')
    <3>1. n = 1 \/ n = 2
      BY <2>1
    <3> QED
      BY <2>1, <2>3, <3>1
  <2>5. point'.ts = point.ts /\ point'.start = point.ts - 1
    BY <1>1, <1>2 DEF Points, StartedAt
  <2> QED
    BY <1>1, <1>2, <2>2, <2>4, <2>5
<1>3. CASE ~WasReset /\ TooOld /\ ~keep' /\ UNCHANGED <<point, writes, madeUp>>
  BY <1>1, <1>3
<1>4. CASE /\ ~WasReset /\ ~TooOld /\ keep' /\ madeUp' = madeUp
           /\ point' = [point EXCEPT !.start = start.ts, !.val = Minus(@, start.val)]
           /\ writes' = << <<"previous", Entry(point')>> >>
  <2>1. /\ point'.ts = point.ts /\ point'.start = start.ts
        /\ point'.val = Minus(point.val, start.val)
    BY <1>1, <1>4 DEF Points
  <2>2. Len(writes') = 1 /\ writes'[1][1] = "previous" /\ writes'[1][2].val = point'.val
    BY <1>4 DEF Entry
  <2>3. \A n \in 1..Len(writes') :
            /\ writes'[n][1] # "start"
            /\ writes'[n][2].val = Minus(point.val, start.val)
    BY <2>1, <2>2
  <2> QED
    BY <1>1, <1>4, <2>1, <2>3
<1> QED
  BY <1>1, <1>2, <1>3, <1>4 DEF GetPrevious

(* An entry is written; only that of the start replaces the cached start.  *)
LEMMA WriteDoes ==
    ASSUME Base, Write
    PROVE  /\ pc = "write"
           /\ UNCHANGED <<seriesVars, sourceVars, pc, point, start, keep, historyVars>>
           /\ \A n \in 1..Len(writes') : n + 1 \in 1..Len(writes) /\ writes'[n] = writes[n + 1]
           /\ \/ cache'["start"] = cache["start"] /\ (StartPending => StartPending')
              \/ /\ cache'["start"] # None
                 /\ \E n \in 1..Len(writes) :
                        /\ writes[n][1] = "start" /\ cache'["start"].ts = writes[n][2].ts
                        /\ kind = "count" /\ writes[n][2].val = None => cache'["start"].val = 0
           /\ \A c \in Caches : cache'[c] # None =>
                  \/ cache[c] # None /\ cache'[c].val = cache[c].val
                  \/ cache'[c].val = 0
                  \/ \E n \in 1..Len(writes) : cache'[c].val = writes[n][2].val
<1> DEFINE c0 == writes[1][1]  e0 == writes[1][2]
<1>1. /\ pc = "write" /\ writes # <<>> /\ Set(c0, e0) /\ writes' = Tail(writes)
      /\ UNCHANGED <<seriesVars, sourceVars, pc, point, start, keep, historyVars>>
  BY DEF Write, Base, Typed
<1>2. 1 \in 1..Len(writes) /\ c0 \in Caches /\ e0 \in ToStore
  BY <1>1 DEF Base, Typed, ToWrite
<1>3. \A n \in 1..Len(writes') : n + 1 \in 1..Len(writes) /\ writes'[n] = writes[n + 1]
  BY <1>1 DEF Base, Typed
<1>4. Len(writes') = Len(writes) - 1
  BY <1>1 DEF Base, Typed
<1> HIDE DEF c0, e0
<1>5. /\ \A d \in Caches : d # c0 => cache'[d] = cache[d]
      /\ cache'[c0] # None /\ cache'[c0].ts = e0.ts
      /\ \/ cache'[c0].val = e0.val \/ cache'[c0].val = 0
         \/ cache[c0] # None /\ cache'[c0].val = cache[c0].val
      /\ kind = "count" /\ e0.val = None => cache'[c0].val = 0
  BY <1>1, <1>2, SetStores DEF Base
<1>6. CASE c0 = "start"
  BY <1>1, <1>2, <1>3, <1>5, <1>6 DEF c0, e0, Caches
<1>7. CASE c0 # "start"
  <2>1. cache'["start"] = cache["start"]
    BY <1>5, <1>7 DEF Caches
  <2>2. ASSUME StartPending PROVE StartPending'
    <3>1. PICK n \in 1..Len(writes) : writes[n][1] = "start"
      BY <2>2 DEF StartPending
    <3>2. n # 1
      BY <1>7, <3>1 DEF c0
    <3>3. n - 1 \in 1..Len(writes') /\ writes'[n - 1] = writes[n]
      BY <1>3, <1>4, <3>2 DEF Base, Typed
    <3> QED
      BY <3>1, <3>3 DEF StartPending
  <2> QED
    BY <1>1, <1>2, <1>3, <1>5, <2>1, <2>2 DEF c0, e0
<1> QED
  BY <1>6, <1>7
----------------------------------------------------------------------------
(* A start to be written is that of the point that is exported, or the     *)
(* time of the one that is not.                                            *)
Planned ==
    \A n \in 1..Len(writes) : writes[n][1] = "start" => writes[n][2].ts = NewStart

(* The cached start, unless it was collected, is the one the call has got, *)
(* and at its end the one it has exported under, or dropped the point for. *)
Explained ==
    /\ pc = "getPrevious" => cache["start"] = start \/ (cache["start"] = None /\ disturbed)
    /\ pc = "write" /\ ~StartPending =>
           IF cache["start"] = None THEN keep \/ disturbed
           ELSE IF keep THEN cache["start"].ts = point.start
           ELSE cache["start"].ts >= point.ts

(* The times of the points at each step.                                   *)
LEMMA TimelyKept == Base /\ Timely /\ [Next]_vars => Timely'
<1> SUFFICES ASSUME Base, Timely, [Next]_vars PROVE Timely'
  OBVIOUS
<1>0. None \notin Points /\ None \notin Entries
  BY NoneAssumption
<1>1. CASE Report
  <2>1. PICK t \in (now + 1)..MaxTime : now' = t /\ wire'.ts = t /\ Arrives(wire')
    BY <1>1 DEF Report
  <2>2. now' > now /\ now \in Nat /\ now >= 1 /\ now' \in Nat /\ sent' = sent /\ point' = wire' /\ pc' # "write"
    BY <2>1, SMT DEF Arrives, Base, Typed
  <2>3. point' # None
    BY <1>1, <2>2, BaseKept DEF Base, InCall, Arrives, Report
  <2>4. sent # None => sent.ts \in Nat
    BY DEF Base, Typed, Points
  <2> QED
    BY <2>1, <2>2, <2>3, <2>4, SMT DEF Timely
<1>2. CASE Resend \/ Retry
  BY <1>2 DEF Resend, Retry, Arrives, Timely, sourceVars
<1>3. CASE GC
  BY <1>3 DEF GC, Timely, sourceVars, callVars
<1>4. CASE GetStart
  BY <1>4, GetStartDoes, SMT DEF Timely, sourceVars, ResetPoint, Points, Typed
<1>5. CASE GetPrevious
  <2>1. point # None /\ point.ts \in Nat /\ point.ts > 1 /\ start.ts \in Nat \ {0}
    BY <1>0, <1>5, GetPreviousDoes DEF Timely, Points, Entries
  <2>2. keep' => 0 < point'.start /\ point'.start < point'.ts
    BY <1>5, <2>1, GetPreviousDoes, SMT DEF TooOld
  <2> QED
    BY <1>5, <2>1, <2>2, GetPreviousDoes DEF Timely, sourceVars
<1>6. CASE Write
  BY <1>6, WriteDoes DEF Timely, sourceVars, historyVars
<1>7. CASE Return
  <2>1. point # None /\ point.ts = now /\ now \in Nat
    BY <1>7 DEF Return, Base, Typed, InCall, Timely
  <2> QED
    BY <1>7, <2>1 DEF Return, Timely, sourceVars
<1>8. CASE UNCHANGED vars
  BY <1>8 DEF vars, Timely, sourceVars, callVars, historyVars
<1> QED
  BY <1>1, <1>2, <1>3, <1>4, <1>5, <1>6, <1>7, <1>8 DEF Next

(* The starts that are planned at each step.                               *)
LEMMA PlannedKept == Base /\ Timely /\ Planned /\ [Next]_vars => Planned'
<1> SUFFICES ASSUME Base, Timely, Planned, [Next]_vars PROVE Planned'
  OBVIOUS
<1>1. CASE pc' # "write"
  <2>1. Len(writes') = 0
    BY <1>1, BaseKept DEF Base, InCall
  <2> QED
    BY <2>1 DEF Planned
<1>2. CASE GetStart
  BY <1>2, GetStartDoes DEF Planned, NewStart
<1>3. CASE GetPrevious
  BY <1>3, GetPreviousDoes DEF Planned, NewStart
<1>4. CASE Write
  BY <1>4, WriteDoes DEF Planned, NewStart
<1>5. CASE GC \/ UNCHANGED vars
  BY <1>5 DEF GC, vars, callVars, Planned, NewStart
<1>6. CASE Report \/ Resend \/ Retry \/ Return
  BY <1>1, <1>6 DEF Report, Resend, Retry, Return, Arrives
<1> QED
  BY <1>2, <1>3, <1>4, <1>5, <1>6 DEF Next

(* The cached start at each step.                                          *)
LEMMA ExplainedKept ==
    Base /\ Timely /\ Planned /\ Explained /\ [Next]_vars => Explained'
<1> SUFFICES ASSUME Base, Timely, Planned, Explained, [Next]_vars PROVE Explained'
  OBVIOUS
<1>1. CASE Report \/ Resend \/ Retry \/ Return
  BY <1>1 DEF Report, Resend, Retry, Return, Arrives, Explained
<1>2. CASE GC
  <2>1. cache'["start"] = cache["start"] \/ (cache'["start"] = None /\ disturbed')
    BY <1>2 DEF GC, Base, Typed, Caches
  <2>2. disturbed => disturbed'
    BY <1>2 DEF GC
  <2> QED
    BY <1>2, <2>1, <2>2 DEF GC, callVars, Explained, StartPending
<1>3. CASE GetStart
  <2>1. pc' = "write" => StartPending' \/ (cache'["start"] = None /\ keep')
    BY <1>3, GetStartDoes
  <2> QED
    BY <1>3, <2>1, GetStartDoes DEF Explained
<1>4. CASE GetPrevious
  <2>1. CASE StartPending'
    BY <1>4, <2>1, GetPreviousDoes DEF Explained
  <2>2. CASE ~keep'
    <3>1. /\ pc = "getPrevious" /\ pc' = "write" /\ start.ts >= point.ts
          /\ UNCHANGED <<cache, start, disturbed, point>>
      BY <1>4, <2>2, GetPreviousDoes DEF TooOld
    <3>2. start # None
      BY <1>4, GetPreviousDoes, NoneAssumption
    <3> QED
      BY <2>2, <3>1, <3>2 DEF Explained
  <2>3. CASE keep' /\ point'.start = start.ts
    BY <1>4, <2>3, GetPreviousDoes DEF Explained
  <2> QED
    BY <1>4, <2>1, <2>2, <2>3, GetPreviousDoes
<1>5. CASE Write
  <2>1. CASE cache'["start"] = cache["start"] /\ (StartPending => StartPending')
    BY <1>5, <2>1, WriteDoes DEF Explained, historyVars
  <2>2. CASE cache'["start"] # None /\ cache'["start"].ts = NewStart
    <3>1. point.ts \in Nat
      BY <1>5, WriteDoes, NoneAssumption DEF Base, Typed, InCall, Points
    <3> QED
      BY <1>5, <2>2, <3>1, WriteDoes DEF Explained, NewStart
  <2> QED
    BY <1>5, <2>1, <2>2, WriteDoes DEF Planned
<1>6. CASE UNCHANGED vars
  BY <1>6 DEF vars, callVars, historyVars, cacheVars, Explained, StartPending
<1> QED
  BY <1>1, <1>2, <1>3, <1>4, <1>5, <1>6 DEF Next
----------------------------------------------------------------------------
(* The order of what is sent.  A step is calm while nothing was collected  *)
(* or sent again that the source's own start times do not make up for.     *)
Calm == disturbed => mode = "set" \/ (mode = "unset" /\ resets = 0)
Continues(s) == sent # None => s = sent.start \/ s >= sent.ts

(* Undisturbed, the point of a call is later than what was sent.           *)
Fresh == ~disturbed /\ pc # "idle" /\ sent # None => sent.ts < point.ts

(* With start times of its own a series needs no entry: its points go      *)
(* through as they are.                                                    *)
SetMode == mode = "set" =>
    /\ cache["start"] = None /\ writes = <<>> /\ pc # "getPrevious"
    /\ wire # None => wire.start = born /\ born < now
    /\ point # None => point = wire
    /\ sent # None => sent.start = born \/ sent.ts <= born

(* Undisturbed, a series without a start in the cache is at its first      *)
(* point, which becomes the start.                                         *)
FirstStarts == mode # "set" /\ ~disturbed /\ cache["start"] = None =>
    /\ sent = None
    /\ pc = "idle" => wire = None
    /\ pc = "getStart" => point.start = 0 \/ ResetPoint(point)
    /\ pc = "write" => StartPending /\ ~keep

(* What is sent stays behind, at each step.                                *)
LEMMA FreshKept == Base /\ Timely /\ Fresh /\ [Next]_vars => Fresh'
<1> SUFFICES ASSUME Base, Timely, Fresh, [Next]_vars PROVE Fresh'
  OBVIOUS
<1>1. CASE Report
  <2>1. PICK t \in (now + 1)..MaxTime : now' = t /\ wire'.ts = t /\ Arrives(wire')
    BY <1>1 DEF Report
  <2>2. sent' = sent /\ point' = wire'
    BY <2>1 DEF Arrives
  <2>3. sent # None => sent.ts \in Nat /\ sent.ts <= now
    BY DEF Base, Typed, Points, Timely
  <2> QED
    BY <2>1, <2>2, <2>3, SMT DEF Fresh, Base, Typed
<1>2. CASE Resend \/ Retry \/ Return
  BY <1>2 DEF Resend, Retry, Return, Fresh
<1>3. CASE GC \/ UNCHANGED vars
  BY <1>3 DEF GC, vars, callVars, historyVars, Fresh
<1>4. CASE GetStart
  BY <1>4, GetStartDoes DEF Fresh
<1>5. CASE GetPrevious
  BY <1>5, GetPreviousDoes DEF Fresh
<1>6. CASE Write
  BY <1>6, WriteDoes DEF Fresh, historyVars
<1> QED
  BY <1>1, <1>2, <1>3, <1>4, <1>5, <1>6 DEF Next

(* The series with start times, at each step.                              *)
LEMMA SetModeKept == Base /\ Timely /\ SetMode /\ [Next]_vars => SetMode'
<1> SUFFICES ASSUME Base, Timely, SetMode, [Next]_vars, mode = "set", mode' = "set" PROVE SetMode'
  BY SeriesKept DEF SetMode
<1>0. born \in Nat /\ born <= now /\ now \in Nat
  BY DEF Base, Typed
<1>1. CASE Report
  <2>1. PICK t \in (now + 1)..MaxTime, restarted \in BOOLEAN :
            /\ now' = t /\ born' = IF restarted THEN now ELSE born
            /\ wire'.start = born' /\ Arrives(wire')
    BY <1>1 DEF Report
  <2>2. born' < now'
    BY <1>0, <2>1, SMT
  <2>3. UNCHANGED <<cache, writes, sent>> /\ pc' = "getStart" /\ point' = wire'
    BY <2>1 DEF Arrives, cacheVars
  <2>4. sent # None => sent.ts <= now
    BY DEF Timely
  <2>5. sent' # None => sent'.start = born' \/ sent'.ts <= born'
    BY <2>1, <2>3, <2>4 DEF SetMode
  <2> QED
    BY <2>1, <2>2, <2>3, <2>5 DEF SetMode
<1>2. CASE Resend \/ Retry
  BY <1>2 DEF Resend, Retry, Arrives, sourceVars, cacheVars, SetMode
<1>3. CASE GC
  <2>1. cache'["start"] = None
    BY <1>3 DEF GC, SetMode, Base, Typed, Caches
  <2> QED
    BY <1>3, <2>1 DEF GC, sourceVars, callVars, SetMode
<1>4. CASE GetStart
  <2>1. point # None /\ wire # None /\ ~ResetPoint(point) /\ point.start # 0
    <3>1. point # None /\ point = wire
      BY <1>4 DEF GetStart, Base, InCall, SetMode
    <3>2. wire.start = born /\ born < now /\ wire.ts = now /\ born >= 1
      BY <3>1 DEF SetMode, Timely, Base, Typed
    <3> QED
      BY <1>0, <3>1, <3>2, SMT DEF ResetPoint
  <2>2. cache["start"] = None
    BY DEF SetMode
  <2> QED
    BY <1>4, <2>1, <2>2 DEF GetStart, SetMode, sourceVars, Base, InCall
<1>5. CASE GetPrevious
  BY <1>5 DEF GetPrevious, SetMode
<1>6. CASE Write
  BY <1>6 DEF Write, SetMode
<1>7. CASE Return
  <2>1. sent' # None => sent'.start = born' \/ sent'.ts <= born'
    BY <1>7 DEF Return, SetMode, sourceVars, Base, InCall, Timely
  <2> QED
    BY <1>7, <2>1 DEF Return, SetMode, sourceVars, cacheVars
<1>8. CASE UNCHANGED vars
  BY <1>8 DEF vars, sourceVars, cacheVars, callVars, historyVars, SetMode
<1> QED
  BY <1>1, <1>2, <1>3, <1>4, <1>5, <1>6, <1>7, <1>8 DEF Next

(* The first point, at each step.                                          *)
LEMMA FirstStartsKept ==
    Base /\ Planned /\ Explained /\ FirstStarts /\ [Next]_vars => FirstStarts'
<1> SUFFICES ASSUME Base, Planned, Explained, FirstStarts, [Next]_vars,
                    mode # "set", ~disturbed', cache'["start"] = None
             PROVE  /\ sent' = None
                    /\ pc' = "idle" => wire' = None
                    /\ pc' = "getStart" => point'.start = 0 \/ ResetPoint(point)'
                    /\ pc' = "write" => StartPending' /\ ~keep'
  BY SeriesKept DEF FirstStarts
<1>1. CASE Report
  <2>1. PICK t \in (now + 1)..MaxTime, restarted \in BOOLEAN :
            /\ born' = IF mode = "explicit" /\ (restarted \/ wire = None) THEN t
                       ELSE IF restarted THEN now ELSE born
            /\ wire'.start = (IF mode = "unset" THEN 0 ELSE born') /\ wire'.ts = t
            /\ Arrives(wire') /\ disturbed' = disturbed
    BY <1>1 DEF Report
  <2>2. cache' = cache /\ pc = "idle" /\ pc' = "getStart" /\ sent' = sent /\ point' = wire'
    BY <2>1 DEF Arrives, cacheVars
  <2>3. sent = None /\ wire = None
    BY <2>1, <2>2 DEF FirstStarts
  <2>4. mode \in {"unset", "explicit"}
    BY NormalizerAssumption DEF Base, OneSeries
  <2>5. t \in Nat
    BY DEF Base, Typed
  <2> QED
    BY <2>1, <2>2, <2>3, <2>4, <2>5 DEF ResetPoint
<1>2. CASE Resend \/ Retry
  BY <1>2 DEF Resend, Retry
<1>3. CASE GC
  <2>1. cache' = cache /\ ~disturbed
    BY <1>3 DEF GC
  <2> QED
    BY <1>3, <2>1 DEF GC, FirstStarts, sourceVars, callVars, StartPending, ResetPoint
<1>4. CASE GetStart
  BY <1>4, GetStartDoes DEF FirstStarts
<1>5. CASE GetPrevious
  BY <1>5, GetPreviousDoes, NoneAssumption DEF Explained
<1>6. CASE Write
  BY <1>6, WriteDoes DEF FirstStarts, sourceVars, historyVars
<1>7. CASE Return
  <2>1. ~StartPending
    BY <1>7 DEF Return, StartPending
  <2> QED
    BY <1>7, <2>1 DEF Return, FirstStarts, cacheVars
<1>8. CASE UNCHANGED vars
  BY <1>8 DEF vars, sourceVars, cacheVars, callVars, historyVars, FirstStarts, StartPending,
              ResetPoint
<1> QED
  BY <1>1, <1>2, <1>3, <1>4, <1>5, <1>6, <1>7, <1>8 DEF Next

(* Without start times a point has none until the normalizer sets it, and  *)
(* one that comes back with a start was sent with it.                      *)
Unset == mode = "unset" =>
    /\ wire # None => wire.start = 0 /\ wire.val = raw
    /\ retried => disturbed
    /\ point # None /\ point.start = 0 => point.val = raw
    /\ point # None /\ point.start # 0 /\ (pc # "write" \/ ~keep) =>
           /\ point.start < point.ts
           /\ Calm => sent # None /\ point.start = sent.start
    /\ pc \in {"getStart", "getPrevious"} =>
           /\ ~retried => point.start = 0
           /\ point.start = 0 /\ sent # None /\ retried => sent.ts < point.ts
    /\ pc = "idle" /\ ~disturbed /\ point # None /\ point.start = 0 /\ sent # None =>
           sent.ts < point.ts

(* The series without start times, at each step.                           *)
LEMMA UnsetKept == Base /\ Timely /\ Fresh /\ Unset /\ [Next]_vars => Unset'
<1> SUFFICES ASSUME Base, Timely, Fresh, Unset, [Next]_vars, mode = "unset", mode' = "unset"
             PROVE  Unset'
  BY SeriesKept DEF Unset
<1>0. /\ point # None => point.ts \in Nat \ {0} /\ point.start \in Nat
      /\ start # None => start.ts \in Nat \ {0}
      /\ sent # None => sent.ts \in Nat
      /\ now \in Nat /\ resets \in Nat /\ None \notin Points /\ None \notin Entries
  BY NoneAssumption DEF Base, Typed, Points, Entries
<1>1. CASE Report
  <2>1. PICK t \in (now + 1)..MaxTime : /\ now' = t /\ wire'.start = 0 /\ wire'.ts = t
                                        /\ wire'.val = raw' /\ Arrives(wire')
    BY <1>1 DEF Report
  <2>2. /\ UNCHANGED <<sent, disturbed, retried>> /\ pc' = "getStart" /\ point' = wire'
    BY <1>1, <2>1 DEF Arrives, Report
  <2>3. sent # None => sent.ts < t
    BY <1>0, <2>1, SMT DEF Timely
  <2> QED
    BY <2>1, <2>2, <2>3 DEF Unset
<1>2. CASE Resend
  BY <1>2 DEF Resend, Arrives, sourceVars, Unset, Calm
<1>3. CASE Retry
  BY <1>3 DEF Retry, Arrives, sourceVars, Unset, Calm
<1>4. CASE GC
  BY <1>4 DEF GC, sourceVars, callVars, Unset, Calm
<1>5. CASE GetStart
  BY <1>0, <1>5, GetStartDoes, SMT DEF sourceVars, Unset, Calm
<1>6. CASE GetPrevious
  <2>1. keep' => point'.start # 0
    BY <1>0, <1>6, GetPreviousDoes, SMT DEF Timely
  <2> QED
    BY <1>0, <1>6, <2>1, GetPreviousDoes DEF sourceVars, Unset, Calm
<1>7. CASE Write
  BY <1>7, WriteDoes DEF sourceVars, historyVars, Unset, Calm
<1>8. CASE Return
  <2>1. CASE keep
    BY <1>0, <1>8, <2>1, SMT DEF Return, sourceVars, Unset, Calm, Base, InCall, Timely
  <2>2. CASE ~keep
    BY <1>0, <1>8, <2>2 DEF Return, sourceVars, Unset, Calm, Fresh
  <2> QED
    BY <2>1, <2>2
<1>9. CASE UNCHANGED vars
  BY <1>9 DEF vars, sourceVars, callVars, historyVars, Unset, Calm
<1> QED
  BY <1>1, <1>2, <1>3, <1>4, <1>5, <1>6, <1>7, <1>8, <1>9 DEF Next

(* Without start times, resets and retries no value in hand is above that  *)
(* of the source: nothing looks like a reset.                              *)
Values == mode = "unset" /\ resets = 0 /\ ~retried =>
    /\ \A c \in Caches : cache[c] # None => cache[c].val \in 0..raw
    /\ start # None => start.val \in 0..raw
    /\ \A n \in 1..Len(writes) : writes[n][2].val \in (0..raw) \cup {None}

(* What is subtracted leaves no more than there was, modulo Word too.      *)
LEMMA MinusBelow ==
    ASSUME NEW a \in Nat, NEW b \in 0..a
    PROVE  Minus(a, b) \in 0..a
<1>1. \A x \in Nat, w \in Nat \ {0} : x % w \in 0..x
  BY SMT
<1>2. a - b \in 0..a /\ a - b \in Nat
  BY SMT
<1>3. (a - b) % Word \in 0..(a - b)
  BY <1>1, <1>2, NormalizerAssumption
<1> QED
  BY <1>2, <1>3, NormalizerAssumption, SMT DEF Minus

(* The point is not taken for a reset.                                     *)
LEMMA NoReset ==
    ASSUME Base, Timely, Unset, Values, mode = "unset", resets = 0, ~retried,
           pc = "getPrevious"
    PROVE  ~WasReset /\ point.val = raw
<1>1. /\ point # None /\ start # None /\ point.start = 0 /\ point.val = raw
      /\ point.ts > 1 /\ point.ts \in Nat
  BY DEF Base, Typed, InCall, Unset, Timely
<1>2. raw \in Nat /\ Previous.val \in 0..raw
  BY <1>1 DEF Values, Previous, Base, Typed, Caches
<1> QED
  BY <1>1, <1>2, SMT DEF WasReset, ResetPoint

(* The values at each step.                                                *)
LEMMA ValuesKept == Base /\ Timely /\ Unset /\ Values /\ [Next]_vars => Values'
<1> SUFFICES ASSUME Base, Timely, Unset, Values, [Next]_vars,
                    mode = "unset", mode' = "unset", resets' = 0, ~retried'
             PROVE  Values'
  BY SeriesKept DEF Values
<1>0. raw \in Nat /\ resets \in Nat /\ Increments \subseteq Nat
  BY NormalizerAssumption DEF Base, Typed
<1>1. CASE Report
  <2>1. PICK inc \in Increments, restarted \in BOOLEAN :
            /\ raw' = IF restarted THEN inc ELSE raw + inc
            /\ resets' = IF restarted THEN resets + 1 ELSE resets
    BY <1>1 DEF Report
  <2>2. resets = 0 /\ raw' \in Nat /\ raw' >= raw
    BY <1>0, <2>1, SMT
  <2>3. UNCHANGED <<cache, start, writes, retried>>
    BY <1>1 DEF Report, Arrives, cacheVars
  <2>4. \A x : x \in 0..raw => x \in 0..raw'
    BY <1>0, <2>2, SMT
  <2> QED
    BY <2>2, <2>3, <2>4 DEF Values
<1>2. CASE Resend \/ Retry
  BY <1>2 DEF Resend, Retry, Arrives, sourceVars, cacheVars, Values
<1>3. CASE GC
  <2>1. \A c \in Caches : cache'[c] = None \/ cache'[c] = cache[c]
    BY <1>3 DEF GC, Base, Typed
  <2> QED
    BY <1>3, <2>1 DEF GC, sourceVars, callVars, Values
<1>4. CASE GetStart
  <2>1. point.val = raw /\ UNCHANGED <<raw, resets, retried, cache>> /\ start' = cache["start"]
    BY <1>4, GetStartDoes DEF Unset, Base, InCall, sourceVars
  <2>2. \A n \in 1..Len(writes') : writes'[n][2].val = raw
    BY <1>4, <2>1, GetStartDoes
  <2> QED
    BY <1>0, <2>1, <2>2 DEF Values, Caches
<1>5. CASE GetPrevious
  <2>1. /\ pc = "getPrevious" /\ UNCHANGED <<raw, resets, retried, cache, start>>
    BY <1>5, GetPreviousDoes DEF sourceVars
  <2>2. ~WasReset /\ point.val = raw
    BY <2>1, NoReset
  <2>3. Minus(point.val, start.val) \in 0..raw
    <3>1. start.val \in 0..raw
      BY <2>1 DEF Values, Base, InCall
    <3> QED
      BY <1>0, <2>2, <3>1, MinusBelow
  <2>4. \A n \in 1..Len(writes') : writes'[n][2].val \in 0..raw
    BY <1>5, <2>2, <2>3, GetPreviousDoes
  <2> QED
    BY <2>1, <2>4 DEF Values
<1>6. CASE Write
  <2>1. UNCHANGED <<raw, resets, retried, start>>
    BY <1>6, WriteDoes DEF sourceVars, historyVars
  <2>2. \A n \in 1..Len(writes') : writes'[n][2].val \in (0..raw) \cup {None}
    BY <1>6, <2>1, WriteDoes DEF Values
  <2>3. ASSUME NEW c \in Caches, cache'[c] # None PROVE cache'[c].val \in 0..raw
    <3>1. cache'[c].val \in Int /\ None \notin Int
      BY <2>3, BaseKept, NoneAssumption DEF Base, Typed, Entries
    <3>2. 0 \in 0..raw
      BY <1>0, SMT
    <3> QED
      BY <1>6, <2>1, <2>3, <3>1, <3>2, WriteDoes DEF Values
  <2> QED
    BY <2>1, <2>2, <2>3 DEF Values
<1>7. CASE Return
  BY <1>7 DEF Return, sourceVars, cacheVars, Values
<1>8. CASE UNCHANGED vars
  BY <1>8 DEF vars, sourceVars, callVars, historyVars, cacheVars, Values
<1> QED
  BY <1>1, <1>2, <1>3, <1>4, <1>5, <1>6, <1>7, <1>8 DEF Next

(* While calm, every start in hand is that of what was sent last, or is    *)
(* not before its end.                                                     *)
Starts == Calm =>
    /\ cache["start"] # None => Continues(cache["start"].ts)
    /\ pc = "getPrevious" => Continues(start.ts)
    /\ pc = "write" => Continues(NewStart)

(* The start made up for a reset of a count has no value.                  *)
ZeroStart == madeUp /\ kind = "count" =>
    /\ cache["start"] # None /\ ~StartPending => cache["start"].val = 0
    /\ \A n \in 1..Len(writes) : writes[n][1] = "start" => writes[n][2].val = None

NInv ==
    /\ Base /\ Timely /\ Planned /\ Explained /\ Fresh /\ SetMode /\ FirstStarts
    /\ Unset /\ Values /\ Starts /\ ZeroStart

(* The starts at each step.                                                *)
LEMMA StartsKept == NInv /\ [Next]_vars => Starts'
<1> SUFFICES ASSUME NInv, [Next]_vars, Calm' PROVE Starts'
  BY DEF Starts
<1>0. /\ point # None => point.ts \in Nat \ {0} /\ point.start \in Nat
      /\ sent # None => sent.ts \in Nat /\ sent.ts <= now
      /\ now \in Nat /\ resets \in Nat /\ None \notin Points /\ None \notin Entries
      /\ mode \in {"unset", "set", "explicit"} /\ mode' = mode
  BY SeriesKept, NoneAssumption, NormalizerAssumption
     DEF NInv, Base, Typed, Points, OneSeries, Timely
<1>1. CASE Report
  <2>1. /\ UNCHANGED <<cache, sent, disturbed>> /\ pc' = "getStart"
        /\ (resets' = resets \/ resets' = resets + 1)
    BY <1>1 DEF Report, Arrives, cacheVars
  <2>2. Calm
    BY <1>0, <2>1, SMT DEF Calm
  <2> QED
    BY <2>1, <2>2 DEF NInv, Starts, Continues
<1>2. CASE Resend \/ Retry
  BY <1>0, <1>2 DEF Resend, Retry, Arrives, sourceVars, cacheVars, NInv, Calm, Starts, Continues
<1>3. CASE GC
  <2>1. /\ UNCHANGED <<sent, pc, start, point, keep, mode, resets>>
        /\ disturbed => disturbed'
    BY <1>3 DEF GC, callVars, seriesVars, sourceVars
  <2>2. cache'["start"] = None \/ cache'["start"] = cache["start"]
    BY <1>3 DEF GC, NInv, Base, Typed, Caches
  <2> QED
    BY <2>1, <2>2 DEF NInv, Calm, Starts, Continues, NewStart
<1>4. CASE GetStart
  <2>1. /\ Calm /\ Starts /\ UNCHANGED <<cache, sent, point>> /\ start' = cache["start"]
        /\ pc = "getStart" /\ point # None /\ point.ts = now
    BY <1>0, <1>4, GetStartDoes DEF sourceVars, NInv, Calm, Timely
  <2>2. CASE pc' = "getPrevious" /\ cache["start"] # None
    BY <2>1, <2>2 DEF Starts, Continues
  <2>3. CASE pc' = "write" /\ ~keep'
    BY <1>0, <2>1, <2>3 DEF Starts, Continues, NewStart
  <2>4. CASE /\ cache["start"] = None /\ point.start # 0 /\ ~ResetPoint(point)
             /\ pc' = "write" /\ keep'
    <3>1. mode # "explicit"
      BY <2>1, <2>4 DEF Calm, NInv, FirstStarts
    <3>2. Continues(point.start)
      <4>1. CASE mode = "set"
        <5>1. sent # None => sent.start = point.start \/ sent.ts <= point.start
          BY <2>1, <4>1 DEF NInv, SetMode, Timely
        <5> QED
          BY <1>0, <2>1, <5>1, SMT DEF Continues
      <4>2. CASE mode = "unset"
        BY <2>1, <2>4, <4>2 DEF NInv, Unset, Continues
      <4> QED
        BY <1>0, <3>1, <4>1, <4>2
    <3> QED
      BY <2>1, <2>4, <3>2 DEF Starts, Continues, NewStart
  <2> QED
    BY <1>4, <2>2, <2>3, <2>4, GetStartDoes DEF NInv
<1>5. CASE GetPrevious
  <2>1. /\ Calm /\ Starts /\ UNCHANGED <<cache, sent>> /\ pc = "getPrevious" /\ pc' = "write"
        /\ point # None /\ point.ts = now /\ point'.ts = point.ts /\ mode # "set"
    BY <1>0, <1>5, GetPreviousDoes DEF sourceVars, NInv, Calm, Timely, SetMode
  <2>2. CASE WasReset /\ keep' /\ point'.start = point.ts - 1
    <3>1. sent # None => sent.ts < point.ts
      <4>1. CASE ~disturbed
        BY <2>1, <4>1 DEF NInv, Fresh
      <4>2. CASE disturbed
        <5>1. mode = "unset" /\ resets = 0
          BY <2>1, <4>2 DEF Calm
        <5>2. retried
          BY <2>1, <2>2, <5>1, NoReset DEF NInv
        <5>3. point.start = 0
          BY <1>0, <2>1, <2>2, <5>1 DEF WasReset, ResetPoint, NInv, Unset
        <5> QED
          BY <2>1, <5>1, <5>2, <5>3 DEF NInv, Unset
      <4> QED
        BY <4>1, <4>2
    <3>2. Continues(point.ts - 1)
      BY <1>0, <2>1, <3>1, SMT DEF Continues
    <3> QED
      BY <2>1, <2>2, <3>2 DEF Starts, Continues, NewStart
  <2>3. CASE ~keep' /\ point' = point
    BY <1>0, <2>1, <2>3 DEF Starts, Continues, NewStart
  <2>4. CASE keep' /\ point'.start = start.ts
    BY <2>1, <2>4 DEF Starts, Continues, NewStart
  <2> QED
    BY <1>5, <2>2, <2>3, <2>4, GetPreviousDoes DEF NInv
<1>6. CASE Write
  <2>1. /\ Calm /\ Starts /\ UNCHANGED <<sent, pc, start, point, keep>> /\ pc = "write"
    BY <1>0, <1>6, WriteDoes DEF sourceVars, historyVars, NInv, Calm
  <2>2. cache'["start"] = cache["start"] \/ cache'["start"].ts = NewStart
    BY <1>6, WriteDoes DEF NInv, Planned
  <2> QED
    BY <2>1, <2>2 DEF Starts, Continues, NewStart
<1>7. CASE Return
  <2>1. /\ Calm /\ Starts /\ Explained /\ cache' = cache /\ pc = "write" /\ pc' = "idle"
        /\ ~StartPending /\ sent' = IF keep THEN point ELSE sent
    BY <1>0, <1>7 DEF Return, sourceVars, cacheVars, NInv, Calm, StartPending
  <2> QED
    BY <2>1 DEF Starts, Continues, Explained
<1>8. CASE UNCHANGED vars
  BY <1>0, <1>8 DEF vars, sourceVars, callVars, historyVars, cacheVars, NInv, Calm, Starts,
                    Continues, NewStart
<1> QED
  BY <1>1, <1>2, <1>3, <1>4, <1>5, <1>6, <1>7, <1>8 DEF Next

(* The start that is made up, at each step.                                *)
LEMMA ZeroStartKept == Base /\ ZeroStart /\ [Next]_vars => ZeroStart'
<1> SUFFICES ASSUME Base, ZeroStart, [Next]_vars, madeUp', kind = "count", kind' = "count"
             PROVE  ZeroStart'
  BY SeriesKept DEF ZeroStart
<1>1. CASE Report \/ Resend \/ Retry \/ Return
  BY <1>1 DEF Report, Resend, Retry, Return, Arrives, cacheVars, ZeroStart, StartPending
<1>2. CASE GC
  <2>1. cache'["start"] = None \/ cache'["start"] = cache["start"]
    BY <1>2 DEF GC, Base, Typed, Caches
  <2> QED
    BY <1>2, <2>1 DEF GC, callVars, ZeroStart, StartPending
<1>3. CASE GetStart
  <2>1. madeUp /\ cache' = cache /\ writes = <<>> /\ writes' = <<>>
    BY <1>3, GetStartDoes DEF GetStart, Base, InCall
  <2> QED
    BY <2>1 DEF ZeroStart, StartPending
<1>4. CASE GetPrevious
  <2>1. cache' = cache /\ writes = <<>>
    BY <1>4, GetPreviousDoes DEF Base, InCall
  <2>2. ~StartPending
    BY <2>1 DEF StartPending
  <2>3. \/ /\ StartPending'
           /\ \A n \in 1..Len(writes') : writes'[n][1] = "start" => writes'[n][2].val = None
        \/ madeUp /\ writes' = <<>>
        \/ madeUp /\ \A n \in 1..Len(writes') : writes'[n][1] # "start"
    BY <1>4, GetPreviousDoes
  <2> QED
    BY <2>1, <2>2, <2>3 DEF ZeroStart
<1>5. CASE Write
  BY <1>5, WriteDoes DEF historyVars, ZeroStart
<1>6. CASE UNCHANGED vars
  BY <1>6 DEF vars, cacheVars, callVars, historyVars, ZeroStart, StartPending
<1> QED
  BY <1>1, <1>2, <1>3, <1>4, <1>5, <1>6 DEF Next
----------------------------------------------------------------------------
(* The values.  What the source counted, at each time, and since it was    *)
(* last started.                                                           *)
Totals ==
    /\ now \in 1..MaxTime /\ totalAt \in [1..MaxTime -> Nat]
    /\ \A s \in 1..now : totalAt[s] <= totalAt[now]
    /\ \A s \in now..MaxTime : totalAt[s] = totalAt[now]
    /\ resets = 0 => raw = totalAt[now]
    /\ mode = "set" => raw = totalAt[now] - totalAt[born]
    /\ kind = "count" => raw < Word

(* The point of a call is the one of the source, unless it was retried.    *)
(* With explicit starts only the first one marks a reset.                  *)
Sourced ==
    /\ wire # None => wire.val = raw /\ (mode = "explicit" => wire.start = born)
    /\ pc \in {"getStart", "getPrevious"} /\ ~retried => point = wire
    /\ wire = None => cache["start"] = None /\ pc = "idle"
    /\ mode = "explicit" /\ resets = 0 /\ ~disturbed /\ cache["start"] # None
           /\ pc \in {"getStart", "getPrevious"} => born < now

(* While no point looks reset that was not, a start that was cached has    *)
(* the total of its time, and what is exported is the growth since then.   *)
Steady ==
    /\ resets = 0 /\ ~retried
    /\ mode = "unset" \/ (mode = "explicit" /\ ~disturbed)
AtTotal(e) == e.ts \in 1..now /\ e.val = totalAt[e.ts]
Totalled == Steady =>
    /\ cache["start"] # None => AtTotal(cache["start"])
    /\ pc = "getPrevious" => AtTotal(start)
    /\ \A n \in 1..Len(writes) : writes[n][1] = "start" => AtTotal(writes[n][2])

Exact(p) == p.val = Since(p.start, p)
Settled == ~retried /\ (mode = "set" \/ Steady)
ExactPoint == Settled /\ pc = "write" /\ keep => Exact(point)
ExactSent == sent # None => sent.start # 0 /\ (Settled => Exact(sent))

(* Only a series without start times has points without one.               *)
Given == mode # "unset" =>
    /\ wire # None => wire.start # 0
    /\ point # None => point.start # 0

(* A number in hand is not above that of the source, nor a start below 0.  *)
Pending(c) == \E n \in 1..Len(writes) : writes[n][1] = c
Numbers == mode = "unset" /\ kind = "number" =>
    /\ wire # None => wire.shape = 1
    /\ point # None => point.val <= raw /\ point.shape = 1
    /\ cache["start"] # None => cache["start"].val >= 0 /\ cache["start"].shape = 1
    /\ start # None => start.val >= 0
    /\ \A n \in 1..Len(writes) : writes[n][1] = "start" =>
           /\ writes[n][2].shape = 1
           /\ writes[n][2].val # None => writes[n][2].val >= 0

(* Until a reset that is not seen, the previous point is not above the     *)
(* source, nor is the start of a count.                                    *)
Below(e) == e.val # None => e.val \in 0..raw
Seen == mode = "unset" /\ ~unseen /\ (retried => kind = "number") =>
    /\ cache["previous"] # None /\ ~Pending("previous") => cache["previous"].val <= raw
    /\ \A n \in 1..Len(writes) : writes[n][1] = "previous" =>
           writes[n][2].val # None /\ writes[n][2].val <= raw
    /\ kind = "count" =>
           /\ cache["start"] # None /\ ~StartPending => Below(cache["start"])
           /\ start # None /\ pc = "getPrevious" => Below(start)
           /\ \A n \in 1..Len(writes) : writes[n][1] = "start" => Below(writes[n][2])

VInv == Totals /\ Sourced /\ Totalled /\ ExactPoint /\ ExactSent /\ Given /\ Numbers /\ Seen

(* What was counted by a time that has passed does not change.             *)
LEMMA TotalsKept ==
    Base /\ Totals /\ [Next]_vars =>
        Totals' /\ now \in 1..now' /\ \A s \in 1..now : totalAt'[s] = totalAt[s]
<1> SUFFICES ASSUME Base, Totals, [Next]_vars
             PROVE  Totals' /\ now \in 1..now' /\ \A s \in 1..now : totalAt'[s] = totalAt[s]
  OBVIOUS
<1>0. MaxTime \in Nat /\ Increments \subseteq Nat /\ Word \in Nat \ {0}
  BY NormalizerAssumption
<1>a. now \in Nat /\ raw \in Nat /\ born \in 1..now /\ resets \in Nat
  BY DEF Base, Typed
<1>1. CASE Report
  <2>1. PICK t \in (now + 1)..MaxTime, inc \in Increments, restarted \in BOOLEAN :
            /\ now' = t /\ raw' = IF restarted THEN inc ELSE raw + inc
            /\ kind = "count" => raw' < Word
            /\ resets' = IF restarted THEN resets + 1 ELSE resets
            /\ born' = IF mode = "explicit" /\ (restarted \/ wire = None) THEN t
                       ELSE IF restarted THEN now ELSE born
            /\ totalAt' = [s \in 1..MaxTime |->
                               IF s < t THEN totalAt[s] ELSE totalAt[now] + inc]
    BY <1>1 DEF Report
  <2>2. t \in Nat /\ t > now /\ t \in 1..MaxTime /\ now \in 1..MaxTime /\ inc \in Nat
    BY <1>0, <1>a, <2>1, SMT DEF Totals
  <2>3. \A s \in 1..MaxTime :
            totalAt'[s] = IF s < t THEN totalAt[s] ELSE totalAt[now] + inc
    BY <2>1
  <2>4. \A s \in 1..now : s \in 1..MaxTime /\ s < t /\ totalAt'[s] = totalAt[s]
    BY <1>0, <1>a, <2>2, <2>3, SMT
  <2>5. totalAt[now] \in Nat /\ totalAt'[t] = totalAt[now] + inc
    BY <2>2, <2>3 DEF Totals
  <2>6. totalAt' \in [1..MaxTime -> Nat]
    BY <2>1, <2>5, <2>2 DEF Totals
  <2>7. \A s \in 1..t : totalAt'[s] <= totalAt'[t]
    <3> TAKE s \in 1..t
    <3>1. CASE s = t
      BY <2>5, <3>1, <2>2, SMT
    <3>2. CASE s # t /\ s <= now
      BY <2>2, <2>4, <2>5, <3>2, <1>a, SMT DEF Totals
    <3>3. CASE s # t /\ s > now
      <4>1. s \in now..MaxTime /\ s \in 1..MaxTime /\ s < t
        BY <1>0, <1>a, <2>2, <3>3, SMT
      <4>2. totalAt'[s] = totalAt[now]
        BY <2>3, <4>1 DEF Totals
      <4> QED
        BY <2>2, <2>5, <4>2, SMT
    <3> QED
      BY <3>1, <3>2, <3>3, <1>a, <2>2, SMT
  <2>8. \A s \in t..MaxTime : totalAt'[s] = totalAt'[t]
    <3> TAKE s \in t..MaxTime
    <3>1. s \in 1..MaxTime /\ ~(s < t)
      BY <1>0, <2>2, SMT
    <3> QED
      BY <2>3, <2>5, <3>1
  <2>9. resets' = 0 => raw' = totalAt'[t]
    BY <1>a, <2>1, <2>5, SMT DEF Totals
  <2>10. ASSUME mode' = "set" PROVE raw' = totalAt'[t] - totalAt'[born']
    <3>1. mode = "set" /\ raw = totalAt[now] - totalAt[born]
      BY <2>10, SeriesKept DEF Totals
    <3>2. CASE restarted
      <4>1. born' = now /\ raw' = inc
        BY <2>1, <3>1, <3>2
      <4>2. totalAt'[now] = totalAt[now]
        BY <1>a, <2>4
      <4> QED
        BY <2>2, <2>5, <4>1, <4>2, SMT
    <3>3. CASE ~restarted
      <4>1. born' = born /\ raw' = raw + inc
        BY <2>1, <3>1, <3>3
      <4>2. totalAt'[born] = totalAt[born] /\ totalAt[born] \in Nat
        BY <1>a, <2>4 DEF Totals
      <4> QED
        BY <2>2, <2>5, <3>1, <4>1, <4>2, SMT
    <3> QED
      BY <3>2, <3>3
  <2>11. kind' = "count" => raw' < Word
    BY <2>1, SeriesKept
  <2>12. now \in 1..now'
    BY <1>a, <2>1, <2>2, SMT
  <2> QED
    BY <2>1, <2>2, <2>4, <2>6, <2>7, <2>8, <2>9, <2>10, <2>11, <2>12 DEF Totals
<1>2. CASE UNCHANGED <<sourceVars, seriesVars>>
  BY <1>a, <1>2 DEF sourceVars, seriesVars, Totals
<1>3. CASE Resend \/ Retry \/ GC \/ Return
  BY <1>2, <1>3 DEF Resend, Retry, GC, Return, Arrives
<1>4. CASE GetStart \/ GetPrevious \/ Write
  BY <1>2, <1>4 DEF GetStart, GetPrevious, Write
<1>5. CASE UNCHANGED vars
  BY <1>2, <1>5 DEF vars
<1> QED
  BY <1>1, <1>3, <1>4, <1>5 DEF Next

(* What was steady, or settled, has always been.                           *)
LEMMA SettledBefore ==
    Base /\ [Next]_vars => (Steady' => Steady) /\ (Settled' => Settled)
<1> SUFFICES ASSUME Base, [Next]_vars PROVE (Steady' => Steady) /\ (Settled' => Settled)
  OBVIOUS
<1>1. /\ resets' = 0 => resets = 0
      /\ disturbed => disturbed'
      /\ retried => retried'
  <2>1. CASE Report
    <3>1. PICK restarted \in BOOLEAN : resets' = IF restarted THEN resets + 1 ELSE resets
      BY <2>1 DEF Report
    <3>2. resets' = 0 => resets = 0
      BY <3>1, SMT DEF Base, Typed
    <3> QED
      BY <2>1, <3>2 DEF Report
  <2>2. CASE Resend \/ Retry
    BY <2>2 DEF Resend, Retry, sourceVars
  <2>3. CASE GC
    BY <2>3 DEF GC, sourceVars
  <2>6. CASE Return
    BY <2>6 DEF Return, sourceVars
  <2>4. CASE GetStart \/ GetPrevious \/ Write
    BY <2>4 DEF GetStart, GetPrevious, Write, sourceVars, historyVars
  <2>5. CASE UNCHANGED vars
    BY <2>5 DEF vars, sourceVars, historyVars
  <2> QED
    BY <2>1, <2>2, <2>3, <2>4, <2>5, <2>6 DEF Next
<1>2. mode' = mode
  BY SeriesKept
<1> QED
  BY <1>1, <1>2 DEF Steady, Settled

(* The source and the point of the call, at each step.                     *)
LEMMA SourcedKept == Base /\ Timely /\ Sourced /\ [Next]_vars => Sourced'
<1> SUFFICES ASSUME Base, Timely, Sourced, [Next]_vars PROVE Sourced'
  OBVIOUS
<1>0. mode' = mode /\ now \in Nat /\ born \in 1..now /\ resets \in Nat
  BY SeriesKept DEF Base, Typed
<1>1. CASE Report
  <2>1. PICK t \in (now + 1)..MaxTime, restarted \in BOOLEAN :
            /\ now' = t /\ resets' = IF restarted THEN resets + 1 ELSE resets
            /\ born' = IF mode = "explicit" /\ (restarted \/ wire = None) THEN t
                       ELSE IF restarted THEN now ELSE born
            /\ wire'.start = (IF mode = "unset" THEN 0 ELSE born')
            /\ wire'.val = raw' /\ Arrives(wire')
    BY <1>1 DEF Report
  <2>2. /\ pc = "idle" /\ pc' = "getStart" /\ point' = wire' /\ cache' = cache
        /\ disturbed' = disturbed
    BY <1>1, <2>1 DEF Arrives, cacheVars, Report
  <2>3. wire' # None
    BY <1>1, <2>2, BaseKept DEF Base, InCall
  <2>4. ASSUME mode = "explicit", resets' = 0, cache["start"] # None PROVE born' < now'
    <3>1. ~restarted
      BY <1>0, <2>1, <2>4, SMT
    <3>2. wire # None
      BY <2>4 DEF Sourced
    <3>3. born' = born
      BY <2>1, <3>1, <3>2
    <3> QED
      BY <1>0, <2>1, <3>3, SMT
  <2> QED
    BY <1>0, <2>1, <2>2, <2>3, <2>4 DEF Sourced
<1>2. CASE Resend \/ Retry
  <2>1. wire # None /\ disturbed' /\ pc' = "getStart" /\ UNCHANGED <<sourceVars, cache>>
    BY <1>2 DEF Resend, Retry, Arrives, cacheVars, Timely
  <2>2. ~retried' => point' = wire
    BY <1>2 DEF Resend, Retry, Arrives
  <2> QED
    BY <1>0, <2>1, <2>2 DEF Sourced, sourceVars
<1>3. CASE GC
  <2>1. cache'["start"] = None \/ cache'["start"] = cache["start"]
    BY <1>3 DEF GC, Base, Typed, Caches
  <2>2. disturbed => disturbed'
    BY <1>3 DEF GC
  <2> QED
    BY <1>0, <1>3, <2>1, <2>2 DEF GC, Sourced, sourceVars, callVars
<1>4. CASE GetStart
  BY <1>0, <1>4, GetStartDoes DEF Sourced, sourceVars
<1>5. CASE GetPrevious
  BY <1>0, <1>5, GetPreviousDoes DEF Sourced, sourceVars
<1>6. CASE Write
  BY <1>0, <1>6, WriteDoes DEF Sourced, sourceVars
<1>7. CASE Return
  BY <1>0, <1>7 DEF Return, Sourced, sourceVars, cacheVars
<1>8. CASE UNCHANGED vars
  BY <1>0, <1>8 DEF vars, sourceVars, cacheVars, callVars, historyVars, Sourced
<1> QED
  BY <1>1, <1>2, <1>3, <1>4, <1>5, <1>6, <1>7, <1>8 DEF Next
(* The entries of a call, as they are written.                             *)
LEMMA WritesAre ==
    ASSUME Base
    PROVE  /\ GetStart => \/ writes' = << <<"start", Entry(point)>>, <<"previous", Entry(point)>> >>
                             /\ ~unseen'
                          \/ writes' = <<>> /\ unseen' = unseen
           /\ GetPrevious =>
                  \/ /\ WasReset /\ ~unseen'
                     /\ writes' = << <<"previous", Entry(point)>>,
                                     <<"start", [ts |-> StartedAt, val |-> None,
                                                 shape |-> point.shape]>> >>
                  \/ ~WasReset /\ writes' = <<>> /\ unseen' = unseen
                  \/ /\ ~WasReset /\ unseen' = unseen
                     /\ point' = [point EXCEPT !.start = start.ts, !.val = Minus(@, start.val)]
                     /\ writes' = << <<"previous", Entry(point')>> >>
<1>1. ASSUME GetStart PROVE \/ writes' = << <<"start", Entry(point)>>, <<"previous", Entry(point)>> >>
                               /\ ~unseen'
                            \/ writes' = <<>> /\ unseen' = unseen
  <2>1. writes = <<>>
    BY <1>1 DEF GetStart, Base, InCall
  <2> QED
    BY <1>1, <2>1 DEF GetStart, Restart
<1>2. ASSUME GetPrevious, ~WasReset, UNCHANGED <<point, writes, unseen, madeUp>>
      PROVE  writes' = <<>> /\ unseen' = unseen
  BY <1>2 DEF GetPrevious, Base, InCall
<1> QED
  BY <1>1, <1>2 DEF GetPrevious

(* An entry with a value is stored as it is.                               *)
LEMMA WriteStores ==
    ASSUME Base, Write
    PROVE  \E n \in 1..Len(writes) :
               LET c == writes[n][1]  e == writes[n][2] IN
               /\ c \in Caches /\ e \in ToStore
               /\ \A d \in Caches : d # c => /\ cache'[d] = cache[d]
                                             /\ Pending(d) => Pending(d)'
               /\ cache'[c] # None /\ cache'[c].shape = e.shape
               /\ e.val # None => cache'[c] = e
               /\ e.val = None => \/ cache'[c].val = 0
                                  \/ /\ kind = "number" /\ cache[c] # None
                                     /\ cache'[c].val = cache[c].val
<1> DEFINE c0 == writes[1][1]  e0 == writes[1][2]
<1>1. /\ writes # <<>> /\ Set(c0, e0) /\ writes' = Tail(writes)
  BY DEF Write, Base, Typed
<1>2. 1 \in 1..Len(writes) /\ c0 \in Caches /\ e0 \in ToStore
  BY <1>1 DEF Base, Typed, ToWrite
<1>3. \A n \in 1..Len(writes) : n # 1 => n - 1 \in 1..Len(writes') /\ writes'[n - 1] = writes[n]
  BY <1>1 DEF Base, Typed
<1>4. ASSUME NEW d \in Caches, d # c0, Pending(d) PROVE Pending(d)'
  <2>1. PICK n \in 1..Len(writes) : writes[n][1] = d
    BY <1>4 DEF Pending
  <2>2. n # 1
    BY <1>4, <2>1
  <2> QED
    BY <1>3, <2>1, <2>2 DEF Pending
<1>5. cache' = [cache EXCEPT ![c0] = Copied(e0, cache[c0])]
  BY <1>1 DEF Set
<1> HIDE DEF c0, e0
<1>6. cache'[c0] = Copied(e0, cache[c0]) /\ \A d \in Caches : d # c0 => cache'[d] = cache[d]
  BY <1>2, <1>5 DEF Base, Typed
<1>7. /\ Copied(e0, cache[c0]).shape = e0.shape
      /\ e0.val # None => Copied(e0, cache[c0]) = e0
      /\ e0.val = None => \/ Copied(e0, cache[c0]).val = 0
                          \/ /\ kind = "number" /\ cache[c0] # None
                             /\ Copied(e0, cache[c0]).val = cache[c0].val
  BY <1>2 DEF Copied, ToStore
<1>8. cache'[c0] # None
  BY <1>1, <1>2, SetStores DEF Base
<1> QED
  BY <1>2, <1>4, <1>6, <1>7, <1>8 DEF c0, e0

(* A steady point is not taken for a reset.                                *)
LEMMA SteadyNoReset ==
    ASSUME Base, Timely, Unset, Values, Explained, Sourced, Steady, pc = "getPrevious"
    PROVE  ~WasReset /\ point = wire /\ point.val = raw
<1>1. point = wire /\ wire # None
  BY DEF Sourced, Steady, Base, InCall
<1>2. CASE mode = "unset"
  BY <1>1, <1>2, NoReset DEF Steady
<1>3. CASE mode = "explicit" /\ ~disturbed
  <2>1. cache["start"] # None
    BY <1>3 DEF Explained, Base, InCall
  <2>2. born < now /\ wire.start = born /\ wire.val = raw /\ wire.ts = now
    BY <1>1, <1>3, <2>1 DEF Sourced, Steady, Timely
  <2>3. born \in 1..now /\ now \in Nat
    BY DEF Base, Typed
  <2>4. wire.start # 0 /\ ~(wire.start >= wire.ts)
    BY <2>2, <2>3, SMT
  <2> QED
    BY <1>1, <2>2, <2>4 DEF WasReset, ResetPoint
<1> QED
  BY <1>2, <1>3 DEF Steady

(* The starts and their totals, at each step.                              *)
LEMMA TotalledKept ==
    /\ Base /\ Timely /\ Unset /\ Values /\ Explained /\ Totals /\ Sourced /\ Totalled
    /\ [Next]_vars
    => Totalled'
<1> SUFFICES ASSUME Base, Timely, Unset, Values, Explained, Totals, Sourced, Totalled,
                    [Next]_vars, Steady'
             PROVE  /\ cache'["start"] # None => AtTotal(cache["start"])'
                    /\ pc' = "getPrevious" => AtTotal(start)'
                    /\ \A n \in 1..Len(writes') :
                           writes'[n][1] = "start" => AtTotal(writes[n][2])'
  BY DEF Totalled
<1>0. Steady /\ now \in Nat
  BY SettledBefore DEF Base, Typed
<1>a. \A e : AtTotal(e) => e.ts \in 1..now' /\ e.val = totalAt'[e.ts]
  <2>1. now' \in Nat /\ now \in 1..now'
    BY BaseKept, TotalsKept DEF Base, Typed
  <2>2. \A s \in 1..now : s \in 1..now' /\ totalAt'[s] = totalAt[s]
    BY <1>0, <2>1, TotalsKept, SMT
  <2> QED
    BY <2>2 DEF AtTotal
<1>b. /\ cache["start"] # None => AtTotal(cache["start"])
      /\ pc = "getPrevious" => AtTotal(start)
      /\ \A n \in 1..Len(writes) : writes[n][1] = "start" => AtTotal(writes[n][2])
  BY <1>0 DEF Totalled
<1>c. point # None /\ point = wire => AtTotal(Entry(point))
  <2>1. SUFFICES ASSUME point # None, point = wire PROVE AtTotal(Entry(point))
    OBVIOUS
  <2>2. point.ts = now /\ point.val = totalAt[now] /\ now \in 1..now
    BY <1>0, <2>1 DEF Timely, Sourced, Totals, Steady
  <2> QED
    BY <2>2 DEF AtTotal, Entry
<1>1. CASE Report \/ Resend \/ Retry
  <2>1. UNCHANGED <<cache, writes>> /\ pc' = "getStart"
    BY <1>1 DEF Report, Resend, Retry, Arrives, cacheVars
  <2> QED
    BY <1>a, <1>b, <2>1 DEF AtTotal
<1>2. CASE GC
  <2>1. cache'["start"] = None \/ cache'["start"] = cache["start"]
    BY <1>2 DEF GC, Base, Typed, Caches
  <2>2. UNCHANGED <<pc, start, writes>>
    BY <1>2 DEF GC, callVars
  <2> QED
    BY <1>a, <1>b, <2>1, <2>2 DEF AtTotal
<1>3. CASE GetStart
  <2>1. /\ pc = "getStart" /\ start' = cache["start"] /\ cache' = cache
        /\ pc' = "getPrevious" => cache["start"] # None
    BY <1>3, GetStartDoes
  <2>2. AtTotal(Entry(point))
    BY <1>0, <1>c, <2>1 DEF Sourced, Steady, Base, InCall
  <2>3. CASE writes' = << <<"start", Entry(point)>>, <<"previous", Entry(point)>> >>
    <3>1. \A n \in 1..Len(writes') : writes'[n][2] = Entry(point)
      BY <2>3
    <3> QED
      BY <1>a, <1>b, <2>1, <2>2, <3>1 DEF AtTotal
  <2>4. CASE writes' = <<>>
    BY <1>a, <1>b, <2>1, <2>4 DEF AtTotal
  <2> QED
    BY <1>3, <2>3, <2>4, WritesAre
<1>4. CASE GetPrevious
  <2>1. pc = "getPrevious" /\ pc' = "write" /\ cache' = cache
    BY <1>4, GetPreviousDoes
  <2>2. \A n \in 1..Len(writes') : writes'[n][1] # "start"
    <3>1. ~WasReset
      BY <1>0, <2>1, SteadyNoReset
    <3>2. CASE writes' = <<>>
      BY <3>2
    <3>3. CASE writes' = << <<"previous", Entry(point')>> >>
      BY <3>3
    <3> QED
      BY <1>4, <3>1, <3>2, <3>3, WritesAre
  <2> QED
    BY <1>a, <1>b, <2>1, <2>2 DEF AtTotal
<1>5. CASE Write
  <2>1. /\ pc' = pc /\ start' = start
        /\ \A n \in 1..Len(writes') : n + 1 \in 1..Len(writes) /\ writes'[n] = writes[n + 1]
    BY <1>5, WriteDoes
  <2>2. cache'["start"] = cache["start"] \/ AtTotal(cache'["start"])
    <3>1. PICK n \in 1..Len(writes) :
              /\ \A d \in Caches : d # writes[n][1] => cache'[d] = cache[d]
              /\ writes[n][2].val # None => cache'[writes[n][1]] = writes[n][2]
      BY <1>5, WriteStores
    <3>2. CASE writes[n][1] = "start"
      <4>1. AtTotal(writes[n][2])
        BY <1>b, <3>2
      <4>2. writes[n][2].val # None
        <5>1. totalAt[writes[n][2].ts] \in Nat
          BY <4>1, <1>0, NormalizerAssumption, SMT DEF AtTotal, Totals
        <5> QED
          BY <4>1, <5>1, NoneAssumption DEF AtTotal
      <4> QED
        BY <3>1, <3>2, <4>1, <4>2
    <3>3. CASE writes[n][1] # "start"
      BY <3>1, <3>3 DEF Caches
    <3> QED
      BY <3>2, <3>3
  <2>3. cache'["start"] # None => AtTotal(cache["start"])'
    BY <1>a, <1>b, <2>2 DEF AtTotal
  <2> QED
    BY <1>a, <1>b, <2>1, <2>3 DEF AtTotal
<1>6. CASE Return
  BY <1>a, <1>b, <1>6 DEF Return, cacheVars, AtTotal
<1>7. CASE UNCHANGED vars
  BY <1>a, <1>b, <1>7 DEF vars, cacheVars, callVars, AtTotal
<1> QED
  BY <1>1, <1>2, <1>3, <1>4, <1>5, <1>6, <1>7 DEF Next
(* What a call exports, at each step.                                      *)
LEMMA ExactPointKept ==
    /\ Base /\ Timely /\ SetMode /\ FirstStarts /\ Unset /\ Values /\ Explained
    /\ Totals /\ Sourced /\ Totalled /\ ExactPoint /\ [Next]_vars
    => ExactPoint'
<1> SUFFICES ASSUME Base, Timely, SetMode, FirstStarts, Unset, Values, Explained, Totals,
                    Sourced, Totalled, ExactPoint, [Next]_vars, Settled', pc' = "write", keep'
             PROVE  Exact(point)'
  BY DEF ExactPoint
<1>0. Settled /\ now \in Nat /\ mode \in {"unset", "set", "explicit"}
  BY SettledBefore, NormalizerAssumption DEF Base, Typed, OneSeries
<1>1. CASE GC \/ Write \/ UNCHANGED vars
  <2>1. UNCHANGED <<pc, keep, point, totalAt>>
    BY <1>1 DEF GC, Write, vars, callVars, sourceVars
  <2> QED
    BY <1>0, <2>1 DEF ExactPoint, Exact, Since
<1>2. CASE Report \/ Resend \/ Retry \/ Return
  BY <1>2 DEF Report, Resend, Retry, Return, Arrives
<1>3. CASE GetStart
  <2>1. /\ pc = "getStart" /\ cache["start"] = None /\ point.start # 0 /\ ~ResetPoint(point)
        /\ UNCHANGED <<point, totalAt>>
    BY <1>3, GetStartDoes DEF sourceVars
  <2>2. mode = "set"
    <3>1. CASE mode = "unset" /\ Steady
      BY <2>1, <3>1 DEF Unset, Steady
    <3>2. CASE mode = "explicit" /\ Steady
      BY <2>1, <3>2 DEF FirstStarts, Steady
    <3> QED
      BY <1>0, <3>1, <3>2 DEF Settled
  <2>3. point = wire /\ wire # None /\ wire.val = raw /\ wire.start = born /\ wire.ts = now
    BY <2>1, <2>2 DEF SetMode, Sourced, Base, InCall, Timely
  <2>4. raw = totalAt[now] - totalAt[born]
    BY <2>2 DEF Totals
  <2> QED
    BY <2>1, <2>3, <2>4 DEF Exact, Since
<1>4. CASE GetPrevious
  <2>1. pc = "getPrevious" /\ start \in Entries /\ point \in Points /\ totalAt' = totalAt
    BY <1>4, GetPreviousDoes DEF sourceVars
  <2>2. Steady
    BY <1>0, <2>1 DEF Settled, SetMode
  <2>3. ~WasReset /\ point.val = raw /\ point.ts = now
    BY <2>1, <2>2, SteadyNoReset DEF Base, InCall, Timely
  <2>4. point' = [point EXCEPT !.start = start.ts, !.val = Minus(@, start.val)]
    BY <1>4, <2>3 DEF GetPrevious
  <2>5. start.ts \in 1..now /\ start.val = totalAt[start.ts] /\ raw = totalAt[now]
    BY <2>1, <2>2 DEF Totalled, AtTotal, Totals, Steady
  <2>6. start.val \in Nat /\ start.val <= raw /\ raw \in Nat /\ (kind = "count" => raw < Word)
    <3>1. totalAt[start.ts] \in Nat
      BY <1>0, <2>5, NormalizerAssumption, SMT DEF Totals
    <3> QED
      BY <2>5, <3>1 DEF Totals, Base, Typed
  <2>7. Minus(point.val, start.val) = raw - start.val
    <3>1. raw - start.val \in Nat /\ (kind = "count" => raw - start.val < Word)
      BY <2>6, NormalizerAssumption, SMT
    <3>2. \A x \in Nat : x < Word => x % Word = x
      BY NormalizerAssumption, SMT
    <3> QED
      BY <2>3, <3>1, <3>2 DEF Minus
  <2>8. /\ point'.start = start.ts /\ point'.ts = now
        /\ point'.val = raw - start.val
    BY <2>1, <2>3, <2>4, <2>7 DEF Points
  <2> QED
    BY <2>1, <2>5, <2>8 DEF Exact, Since
<1> QED
  BY <1>1, <1>2, <1>3, <1>4 DEF Next

(* What was sent, at each step.                                            *)
LEMMA ExactSentKept ==
    Base /\ Timely /\ Totals /\ ExactPoint /\ ExactSent /\ [Next]_vars => ExactSent'
<1> SUFFICES ASSUME Base, Timely, Totals, ExactPoint, ExactSent, [Next]_vars, sent' # None
             PROVE  sent'.start # 0 /\ (Settled' => Exact(sent)')
  BY DEF ExactSent
<1>0. Settled' => Settled
  BY SettledBefore
<1>1. CASE sent' = sent
  <2>1. /\ sent.start \in Nat /\ sent.ts \in Nat /\ now \in Nat /\ sent.start # 0
        /\ sent.start < sent.ts /\ sent.ts <= now
    BY <1>1 DEF Base, Typed, Points, Timely, ExactSent
  <2>2. sent.start \in 1..now /\ sent.ts \in 1..now
    BY <2>1, SMT
  <2>3. totalAt'[sent.start] = totalAt[sent.start] /\ totalAt'[sent.ts] = totalAt[sent.ts]
    BY <2>2, TotalsKept
  <2> QED
    BY <1>0, <1>1, <2>1, <2>3 DEF ExactSent, Exact, Since
<1>2. CASE Return /\ keep
  <2>1. sent' = point /\ pc = "write" /\ totalAt' = totalAt
    BY <1>2 DEF Return, sourceVars
  <2>2. point.start # 0
    BY <1>2, <2>1 DEF Timely, Base, InCall, Typed, Points
  <2> QED
    BY <1>0, <1>2, <2>1, <2>2 DEF ExactPoint, Exact, Since
<1>3. CASE Return /\ ~keep
  BY <1>1, <1>3 DEF Return
<1>4. CASE Report \/ Resend \/ Retry
  BY <1>1, <1>4 DEF Report, Resend, Retry, Arrives
<1>5. CASE GC \/ GetStart \/ GetPrevious \/ Write \/ UNCHANGED vars
  BY <1>1, <1>5 DEF GC, GetStart, GetPrevious, Write, vars, historyVars
<1> QED
  BY <1>2, <1>3, <1>4, <1>5 DEF Next

(* The starts of the points in hand, at each step.                         *)
LEMMA GivenKept == Base /\ Timely /\ Given /\ [Next]_vars => Given'
<1> SUFFICES ASSUME Base, Timely, Given, [Next]_vars, mode # "unset", mode' # "unset" PROVE Given'
  BY SeriesKept DEF Given
<1>1. CASE Report
  <2>1. wire'.start = born' /\ point' = wire' /\ born' \in Nat \ {0}
    BY <1>1, BaseKept DEF Report, Arrives, Base, Typed
  <2> QED
    BY <2>1 DEF Given
<1>2. CASE Resend \/ Retry
  BY <1>2 DEF Resend, Retry, Arrives, sourceVars, Given
<1>3. CASE GetPrevious
  <2>1. /\ point'.start \in {point.ts - 1, point.start, start.ts} /\ point \in Points
        /\ start \in Entries /\ wire' = wire
    BY <1>3, GetPreviousDoes DEF sourceVars
  <2>2. point.ts \in Nat /\ point.ts > 1 /\ start.ts # 0 /\ point.start # 0
    BY <2>1, NoneAssumption DEF Timely, Given, Points, Entries
  <2>3. point'.start # 0
    BY <2>1, <2>2, SMT
  <2> QED
    BY <2>1, <2>3 DEF Given
<1>4. CASE GC \/ Write \/ UNCHANGED vars
  BY <1>4 DEF GC, Write, vars, callVars, sourceVars, Given
<1>5. CASE GetStart
  BY <1>5, GetStartDoes DEF sourceVars, Given
<1>6. CASE Return
  BY <1>6 DEF Return, sourceVars, Given
<1> QED
  BY <1>1, <1>2, <1>3, <1>4, <1>5, <1>6 DEF Next
(* The numbers at each step.                                               *)
LEMMA NumbersKept == Base /\ Timely /\ Unset /\ Numbers /\ [Next]_vars => Numbers'
<1> SUFFICES ASSUME Base, Timely, Unset, Numbers, [Next]_vars,
                    mode = "unset", kind = "number", mode' = "unset", kind' = "number"
             PROVE  Numbers'
  BY SeriesKept DEF Numbers
<1>0. /\ raw \in Nat /\ None \notin Int /\ None \notin Points /\ None \notin Entries
      /\ point # None => point \in Points
      /\ start # None => start \in Entries
  BY NoneAssumption DEF Base, Typed
<1>1. CASE Report
  <2>1. /\ wire'.shape = 1 /\ wire'.val = raw' /\ point' = wire'
        /\ UNCHANGED <<cache, start, writes>>
    BY <1>1 DEF Report, Arrives, cacheVars
  <2>2. raw' <= raw' /\ raw' \in Nat
    BY BaseKept, SMT DEF Base, Typed
  <2> QED
    BY <2>1, <2>2 DEF Numbers
<1>2. CASE Resend \/ Retry
  <2>1. UNCHANGED <<wire, raw, cache, start, writes>> /\ point' \in {wire, point} /\ point' # None
    BY <1>2 DEF Resend, Retry, Arrives, sourceVars, cacheVars
  <2>2. wire # None => wire.val <= raw
    BY <1>0 DEF Unset
  <2> QED
    BY <2>1, <2>2 DEF Numbers
<1>3. CASE GC
  <2>1. cache'["start"] = None \/ cache'["start"] = cache["start"]
    BY <1>3 DEF GC, Base, Typed, Caches
  <2> QED
    BY <1>3, <2>1 DEF GC, sourceVars, callVars, Numbers
<1>4. CASE GetStart
  <2>1. /\ pc = "getStart" /\ point # None /\ start' = cache["start"]
        /\ UNCHANGED <<wire, raw, cache, point>>
    BY <1>4, GetStartDoes DEF sourceVars, Base, InCall
  <2>2. CASE writes' = <<>>
    BY <2>1, <2>2 DEF Numbers
  <2>3. CASE writes' = << <<"start", Entry(point)>>, <<"previous", Entry(point)>> >>
    <3>1. point.start = 0
      <4>2. cache["start"] = None
        BY <1>4, <2>1, <2>3 DEF GetStart, Base, InCall, Numbers
      <4>3. point.start = 0 \/ ResetPoint(point)
        BY <1>4, <2>3, <4>2 DEF GetStart, Base, InCall
      <4>4. point.start # 0 => point.start < point.ts
        BY <2>1 DEF Unset
      <4>5. point.start \in Nat /\ point.ts \in Nat
        BY <1>0, <2>1 DEF Points
      <4> QED
        BY <4>3, <4>4, <4>5, SMT DEF ResetPoint
    <3>2. Entry(point).val >= 0 /\ Entry(point).shape = 1
      BY <1>0, <2>1, <3>1 DEF Unset, Numbers, Entry
    <3>3. \A n \in 1..Len(writes') : writes'[n][2] = Entry(point)
      BY <2>3
    <3> QED
      BY <2>1, <3>2, <3>3 DEF Numbers
  <2> QED
    BY <1>4, <2>2, <2>3, WritesAre
<1>5. CASE GetPrevious
  <2>1. /\ UNCHANGED <<wire, raw, cache, start>> /\ point \in Points /\ point # None
        /\ start \in Entries /\ start # None
    BY <1>0, <1>5, GetPreviousDoes DEF sourceVars
  <2>2. point' # None => point'.val <= raw /\ point'.shape = 1
    <3>1. CASE point' = [point EXCEPT !.start = StartedAt]
      BY <2>1, <3>1 DEF Points, Numbers
    <3>2. CASE point' = point
      BY <2>1, <3>2 DEF Numbers
    <3>3. CASE point' = [point EXCEPT !.start = start.ts, !.val = Minus(@, start.val)]
      <4>1. /\ point'.shape = point.shape /\ point'.val = point.val - start.val
            /\ point.val \in Int /\ start.val \in Int
        BY <2>1, <3>3 DEF Points, Minus, Entries
      <4>2. point.val <= raw /\ start.val >= 0 /\ point.shape = 1
        BY <2>1 DEF Numbers
      <4> QED
        BY <1>0, <4>1, <4>2, SMT
    <3> QED
      BY <1>5, <3>1, <3>2, <3>3 DEF GetPrevious
  <2>3. \A n \in 1..Len(writes') : writes'[n][1] = "start" =>
           /\ writes'[n][2].shape = 1
           /\ writes'[n][2].val # None => writes'[n][2].val >= 0
    <3>1. CASE writes' = << <<"previous", Entry(point)>>,
                            <<"start", [ts |-> StartedAt, val |-> None,
                                        shape |-> point.shape]>> >>
      <4>1. \A n \in 1..Len(writes') : writes'[n][1] = "start" =>
                writes'[n][2].shape = point.shape /\ writes'[n][2].val = None
        BY <3>1
      <4> QED
        BY <2>1, <4>1 DEF Numbers
    <3>2. CASE writes' = <<>>
      BY <3>2
    <3>3. CASE writes' = << <<"previous", Entry(point')>> >>
      BY <3>3
    <3> QED
      BY <1>5, <3>1, <3>2, <3>3, WritesAre
  <2> QED
    BY <2>1, <2>2, <2>3 DEF Numbers
<1>6. CASE Write
  <2>1. /\ UNCHANGED <<wire, raw, point, start>>
        /\ \A n \in 1..Len(writes') : n + 1 \in 1..Len(writes) /\ writes'[n] = writes[n + 1]
    BY <1>6, WriteDoes DEF sourceVars
  <2>2. cache'["start"] # None => cache'["start"].val >= 0 /\ cache'["start"].shape = 1
    <3>1. PICK n \in 1..Len(writes) :
              LET c == writes[n][1]  e == writes[n][2] IN
              /\ \A d \in Caches : d # c => cache'[d] = cache[d]
              /\ cache'[c].shape = e.shape
              /\ e.val # None => cache'[c] = e
              /\ e.val = None => \/ cache'[c].val = 0
                                 \/ cache[c] # None /\ cache'[c].val = cache[c].val
      BY <1>6, WriteStores
    <3>2. CASE writes[n][1] = "start"
      BY <3>1, <3>2 DEF Numbers
    <3>3. CASE writes[n][1] # "start"
      BY <3>1, <3>3 DEF Caches, Numbers
    <3> QED
      BY <3>2, <3>3
  <2> QED
    BY <2>1, <2>2 DEF Numbers
<1>7. CASE Return
  BY <1>7 DEF Return, sourceVars, cacheVars, Numbers
<1>8. CASE UNCHANGED vars
  BY <1>8 DEF vars, sourceVars, cacheVars, callVars, Numbers
<1> QED
  BY <1>1, <1>2, <1>3, <1>4, <1>5, <1>6, <1>7, <1>8 DEF Next

(* What is seen of the resets, at each step.                               *)
LEMMA SeenKept ==
    Base /\ Timely /\ Unset /\ Sourced /\ Numbers /\ Seen /\ [Next]_vars => Seen'
<1> SUFFICES ASSUME Base, Timely, Unset, Sourced, Numbers, Seen, [Next]_vars, mode = "unset",
                    ~unseen', retried' => kind = "number", mode' = mode, kind' = kind
             PROVE  Seen'
  BY SeriesKept DEF Seen
<1>0. /\ raw \in Nat /\ None \notin Int /\ None \notin Points /\ None \notin Entries
      /\ point # None => point \in Points
      /\ start # None => start \in Entries
      /\ kind \in {"number", "count"}
  BY NoneAssumption, NormalizerAssumption DEF Base, Typed, OneSeries
<1>a. retried => kind = "number"
  <2>1. retried => retried'
    <3>1. CASE Report \/ Resend \/ Retry
      BY <3>1 DEF Report, Resend, Retry
    <3>2. CASE GC
      BY <3>2 DEF GC
    <3>3. CASE Return
      BY <3>3 DEF Return
    <3>4. CASE GetStart \/ GetPrevious \/ Write \/ UNCHANGED vars
      BY <3>4 DEF GetStart, GetPrevious, Write, vars, historyVars
    <3> QED
      BY <3>1, <3>2, <3>3, <3>4 DEF Next
  <2> QED
    BY <2>1
<1>b. pc \in {"getStart", "getPrevious"} =>
          point.val \in Int /\ point.val <= raw /\ (kind = "count" => point.val = raw)
  <2>1. SUFFICES ASSUME pc \in {"getStart", "getPrevious"}
                 PROVE  point.val \in Int /\ point.val <= raw /\ (kind = "count" => point.val = raw)
    OBVIOUS
  <2>2. point # None /\ point.val \in Int
    BY <1>0, <2>1 DEF Base, InCall, Points
  <2>3. CASE kind = "number"
    BY <2>2, <2>3 DEF Numbers
  <2>4. CASE kind = "count"
    BY <1>0, <1>a, <2>1, <2>2, <2>4 DEF Sourced
  <2> QED
    BY <1>0, <2>3, <2>4
<1>1. CASE Report
  <2>1. PICK inc \in Increments, restarted \in BOOLEAN :
            /\ raw' = IF restarted THEN inc ELSE raw + inc
            /\ unseen' = (unseen \/ restarted)
    BY <1>1 DEF Report
  <2>2. ~restarted /\ ~unseen
    BY <2>1
  <2>3. inc \in Nat /\ raw' = raw + inc
    BY <2>1, <2>2, NormalizerAssumption
  <2>4. (\A x \in Int : x <= raw => x <= raw') /\ (\A x : x \in 0..raw => x \in 0..raw')
    BY <1>0, <2>3, SMT
  <2>5. /\ UNCHANGED <<cache, writes>> /\ pc' = "getStart" /\ writes = <<>>
    BY <1>1 DEF Report, Arrives, cacheVars, Base, InCall
  <2>6. cache["previous"] # None => cache["previous"].val \in Int
    BY DEF Base, Typed, Caches, Entries
  <2> QED
    BY <1>a, <2>2, <2>4, <2>5, <2>6 DEF Seen, Below, Pending, StartPending
<1>2. CASE Resend \/ Retry
  BY <1>a, <1>2 DEF Resend, Retry, Arrives, sourceVars, cacheVars, Seen, Below, Pending, StartPending
<1>3. CASE GC
  <2>1. \A c \in Caches : cache'[c] = None \/ cache'[c] = cache[c]
    BY <1>3 DEF GC, Base, Typed
  <2> QED
    BY <1>a, <1>3, <2>1 DEF GC, sourceVars, callVars, Seen, Below, Pending, StartPending, Caches
<1>4. CASE GetStart
  <2>1. /\ pc = "getStart" /\ start' = cache["start"] /\ UNCHANGED <<raw, cache, point>>
        /\ writes = <<>>
    BY <1>4, GetStartDoes DEF sourceVars, Base, InCall
  <2>2. CASE writes' = <<>> /\ unseen' = unseen
    BY <1>a, <2>1, <2>2 DEF Seen, Below, Pending, StartPending
  <2>3. CASE writes' = << <<"start", Entry(point)>>, <<"previous", Entry(point)>> >>
    <3>1. /\ \A n \in 1..Len(writes') : writes'[n][2].val = point.val
          /\ Len(writes') = 2 /\ writes'[1][1] = "start" /\ writes'[2][1] = "previous"
      BY <2>3 DEF Entry
    <3>2. Pending("previous")' /\ StartPending' /\ pc' # "getPrevious"
      BY <1>4, <2>3, <3>1, GetStartDoes DEF Pending, StartPending
    <3>3. point.val <= raw /\ point.val # None /\ (kind = "count" => point.val \in 0..raw)
      BY <1>0, <1>b, <2>1
    <3> QED
      BY <2>1, <3>1, <3>2, <3>3 DEF Seen, Below
  <2> QED
    BY <1>4, <2>2, <2>3, WritesAre
<1>5. CASE GetPrevious
  <2>1. /\ pc = "getPrevious" /\ pc' = "write" /\ start' = start /\ UNCHANGED <<raw, cache>>
        /\ writes = <<>> /\ point \in Points /\ start \in Entries /\ start # None
    BY <1>0, <1>5, GetPreviousDoes DEF sourceVars, Base, InCall
  <2>2. CASE writes' = <<>> /\ unseen' = unseen
    BY <1>a, <2>1, <2>2 DEF Seen, Below, Pending, StartPending
  <2>3. CASE writes' = << <<"previous", Entry(point)>>,
                          <<"start", [ts |-> StartedAt, val |-> None,
                                      shape |-> point.shape]>> >>
    <3>1. /\ Len(writes') = 2 /\ writes'[1][1] = "previous" /\ writes'[2][1] = "start"
          /\ writes'[1][2].val = point.val /\ writes'[2][2].val = None
      BY <2>3 DEF Entry
    <3>2. Pending("previous")' /\ StartPending'
      BY <3>1 DEF Pending, StartPending
    <3>3. \A n \in 1..Len(writes') : n = 1 \/ n = 2
      BY <3>1
    <3>4. point.val <= raw /\ point.val # None
      BY <1>0, <1>b, <2>1
    <3> QED
      BY <2>1, <3>1, <3>2, <3>3, <3>4 DEF Seen, Below
  <2>4. CASE /\ writes' = << <<"previous", Entry(point')>> >> /\ unseen' = unseen
             /\ point' = [point EXCEPT !.start = start.ts, !.val = Minus(@, start.val)]
    <3>1. /\ Len(writes') = 1 /\ writes'[1][1] = "previous" /\ writes'[1][2].val = point'.val
          /\ point'.val = Minus(point.val, start.val)
      BY <2>1, <2>4 DEF Entry, Points
    <3>2. /\ \A n \in 1..Len(writes') : n = 1
          /\ Pending("previous")'
      BY <3>1 DEF Pending
    <3>3. point'.val \in Int /\ point'.val <= raw
      <4>1. CASE kind = "count"
        <5>1. start.val \in 0..raw /\ point.val = raw
          BY <1>0, <1>a, <1>b, <2>1, <2>4, <4>1 DEF Seen, Below, Entries
        <5>2. point'.val \in 0..raw
          BY <1>0, <3>1, <5>1, MinusBelow
        <5> QED
          BY <1>0, <5>2, SMT
      <4>2. CASE kind = "number"
        <5>1. point'.val = point.val - start.val /\ start.val \in Int /\ start.val >= 0
          BY <2>1, <3>1, <4>2 DEF Minus, Numbers, Entries
        <5>2. point.val \in Int /\ point.val <= raw
          BY <1>b, <2>1
        <5> QED
          BY <1>0, <5>1, <5>2, SMT
      <4> QED
        BY <1>0, <4>1, <4>2
    <3>4. ~StartPending
      BY <2>1 DEF StartPending
    <3> QED
      BY <1>0, <1>a, <2>1, <2>4, <3>1, <3>2, <3>3, <3>4 DEF Seen, Below
  <2> QED
    BY <1>5, <2>2, <2>3, <2>4, WritesAre
<1>6. CASE Write
  <2>1. /\ pc = "write" /\ UNCHANGED <<raw, pc, start, unseen>>
        /\ \A n \in 1..Len(writes') : n + 1 \in 1..Len(writes) /\ writes'[n] = writes[n + 1]
    BY <1>6, WriteDoes DEF sourceVars, historyVars
  <2>2. PICK n \in 1..Len(writes) :
            LET c == writes[n][1]  e == writes[n][2] IN
            /\ c \in Caches /\ e \in ToStore
            /\ \A d \in Caches : d # c => /\ cache'[d] = cache[d]
                                          /\ Pending(d) => Pending(d)'
            /\ e.val # None => cache'[c] = e
            /\ e.val = None => cache'[c].val = 0 \/ kind = "number"
    BY <1>6, WriteStores
  <2>3. cache'["previous"] # None /\ ~Pending("previous")' => cache'["previous"].val <= raw
    <3>1. CASE writes[n][1] = "previous"
      BY <1>a, <2>1, <2>2, <3>1 DEF Seen
    <3>2. CASE writes[n][1] # "previous"
      BY <1>a, <2>1, <2>2, <3>2 DEF Seen, Caches
    <3> QED
      BY <3>1, <3>2
  <2>4. kind = "count" /\ cache'["start"] # None /\ ~StartPending' =>
            (cache'["start"].val # None => cache'["start"].val \in 0..raw)
    <3>1. CASE writes[n][1] = "start"
      BY <1>0, <1>a, <2>1, <2>2, <3>1 DEF Seen, Below
    <3>2. CASE writes[n][1] # "start"
      BY <1>a, <2>1, <2>2, <3>2 DEF Seen, Caches, Below, Pending, StartPending
    <3> QED
      BY <3>1, <3>2
  <2> QED
    BY <1>a, <2>1, <2>3, <2>4 DEF Seen, Below
<1>7. CASE Return
  BY <1>a, <1>7 DEF Return, sourceVars, cacheVars, Seen, Below, Pending, StartPending
<1>8. CASE UNCHANGED vars
  BY <1>a, <1>8 DEF vars, sourceVars, cacheVars, callVars, historyVars, Seen, Below, Pending,
                    StartPending
<1> QED
  BY <1>1, <1>2, <1>3, <1>4, <1>5, <1>6, <1>7, <1>8 DEF Next
----------------------------------------------------------------------------
(* The invariant holds in every state.                                     *)
LEMMA Invariant == Spec => [](NInv /\ VInv)
<1>1. ASSUME Init PROVE NInv /\ VInv
  <2>1. Base
    BY <1>1, NormalizerAssumption
       DEF Init, Base, Typed, InCall, OneSeries, Entries, Points, AllShapes, Caches
  <2>2. Len(writes) = 0 /\ cache["start"] = None /\ \A c \in Caches : cache[c] = None
    BY <1>1 DEF Init, Caches
  <2>3. Timely /\ Fresh /\ SetMode /\ Unset
    BY <1>1, <2>2 DEF Init, Timely, Fresh, SetMode, Unset
  <2>4. Planned /\ Explained /\ FirstStarts /\ Values
    BY <1>1, <2>2 DEF Init, Planned, Explained, FirstStarts, Values
  <2>5. Starts /\ ZeroStart
    BY <1>1, <2>2 DEF Init, Starts, ZeroStart
  <2>6. Totals
    <3>1. now \in 1..MaxTime /\ totalAt \in [1..MaxTime -> Nat]
      BY <1>1, NormalizerAssumption DEF Init
    <3>2. \A s \in 1..MaxTime : totalAt[s] = 0
      BY <1>1 DEF Init
    <3>3. now = 1 /\ raw = 0 /\ born = 1 /\ 0 < Word /\ totalAt[1] = 0
      BY <1>1, <3>1, <3>2, NormalizerAssumption DEF Init
    <3>4. \A s \in 1..1 : s \in 1..MaxTime
      BY NormalizerAssumption, SMT
    <3> QED
      BY <3>1, <3>2, <3>3, <3>4 DEF Totals
  <2>7. Sourced /\ Totalled /\ ExactPoint /\ ExactSent /\ Given /\ Numbers /\ Seen
    BY <1>1, <2>2 DEF Init, Caches, Sourced, Totalled, ExactPoint, ExactSent, Given, Numbers, Seen
  <2> QED
    BY <2>1, <2>3, <2>4, <2>5, <2>6, <2>7 DEF NInv, VInv
<1>2. NInv /\ [Next]_vars => NInv'
  BY BaseKept, TimelyKept, PlannedKept, ExplainedKept, FreshKept, SetModeKept,
     FirstStartsKept, UnsetKept, ValuesKept, StartsKept, ZeroStartKept DEF NInv
<1>3. NInv /\ VInv /\ [Next]_vars => VInv'
  BY TotalsKept, SourcedKept, TotalledKept, ExactPointKept, ExactSentKept, GivenKept,
     NumbersKept, SeenKept DEF NInv, VInv
<1> QED
  BY <1>1, <1>2, <1>3, PTL DEF Spec

(* Whatever is collected, sent again, retried or reset, the interval of a  *)
(* point that is exported is not empty; and while calm two points with     *)
(* different starts do not overlap.                                        *)
THEOREM InOrder == Spec => IntervalsInOrder
<1>1. ASSUME NInv, [Next]_vars, sent' # sent
      PROVE  /\ sent'.start < sent'.ts
             /\ sent # None /\ Calm => NoOverlap
  <2>1. pc = "write" /\ keep /\ sent' = point
    <3>1. CASE Return
      BY <1>1, <3>1 DEF Return
    <3>2. CASE Report \/ Resend \/ Retry
      BY <1>1, <3>2 DEF Report, Resend, Retry, Arrives
    <3>3. CASE GC \/ GetStart \/ GetPrevious \/ Write
      BY <1>1, <3>3 DEF GC, GetStart, GetPrevious, Write, historyVars
    <3>4. CASE UNCHANGED vars
      BY <1>1, <3>4 DEF vars, historyVars
    <3> QED
      BY <1>1, <3>1, <3>2, <3>3, <3>4 DEF Next
  <2> QED
    BY <1>1, <2>1 DEF NInv, Timely, Starts, Continues, NewStart, NoOverlap
<1> QED
  BY <1>1, Invariant, PTL DEF Spec, IntervalsInOrder, Calm

(* What is sent is what the source counted since the start that is sent    *)
(* with it: the entry that is subtracted is one the source reported, with  *)
(* the time it is given, whatever was collected in between.                *)
THEOREM ExactWithoutResets == Spec => []ExactUntilReset
<1>1. VInv => ExactUntilReset
  BY DEF VInv, ExactSent, Settled, Steady, Exact, ExactUntilReset
<1> QED
  BY <1>1, Invariant, PTL

(* A start is made up only for a source that was reset since the last one. *)
THEOREM ResetsWereThere == Spec => ResetsAreReal
<1>1. ASSUME NInv, VInv, [Next]_vars, TakenForReset, point.start = 0,
             cache["previous"] # None, retried => kind = "number"
      PROVE  unseen
  <2>1. pc = "getPrevious" /\ pc' = "write" /\ Len(writes') = 2
    BY <1>1 DEF TakenForReset
  <2>2. GetPrevious
    BY <1>1, <2>1 DEF Next, Report, Resend, Retry, Arrives, GC, GetStart, Write, Return, vars,
                      callVars
  <2>3. WasReset
    <3>1. writes' = <<>> => Len(writes') = 0
      OBVIOUS
    <3>2. writes' = << <<"previous", Entry(point')>> >> => Len(writes') = 1
      OBVIOUS
    <3> QED
      BY <1>1, <2>1, <2>2, <3>1, <3>2, WritesAre DEF NInv
  <2>4. point # None /\ writes = <<>> /\ point \in Points /\ raw \in Nat
    BY <1>1, <2>1 DEF NInv, Base, InCall, Typed
  <2>5. mode = "unset" /\ point.val = raw
    BY <1>1, <2>4 DEF VInv, Given, NInv, Unset
  <2>6. point.val < cache["previous"].val
    BY <1>1, <2>3, <2>4, SMT DEF WasReset, ResetPoint, Previous, Points
  <2>7. ~Pending("previous")
    BY <2>4 DEF Pending
  <2>8. cache["previous"].val \in Int
    BY <1>1 DEF NInv, Base, Typed, Caches, Entries
  <2>9. ASSUME ~unseen PROVE cache["previous"].val <= raw
    BY <1>1, <2>5, <2>7, <2>9 DEF VInv, Seen
  <2> QED
    BY <2>4, <2>5, <2>6, <2>8, <2>9
<1> QED
  BY <1>1, Invariant, PTL DEF Spec, ResetsAreReal

(* A point is dropped only when a start at its own time, or a later one,   *)
(* has taken its place.                                                    *)
THEOREM DroppedForStart == Spec => []DroppedOnlyForStart
<1>1. NInv => DroppedOnlyForStart
  <2>1. writes = <<>> => ~StartPending
    BY DEF StartPending
  <2> QED
    BY <2>1 DEF NInv, Explained, DroppedOnlyForStart
<1> QED
  BY <1>1, Invariant, PTL

(* The start made up for a reset of a count has the value zero, as the     *)
(* comment on the code says, whatever the cached entry held before.        *)
THEOREM ZeroAfterReset == Spec => []StartIsZeroAfterReset
<1>1. NInv => StartIsZeroAfterReset
  <2>1. ASSUME NInv, pc = "idle" PROVE ~StartPending
    BY <2>1 DEF NInv, Base, InCall, StartPending
  <2> QED
    BY <2>1 DEF NInv, ZeroStart, StartIsZeroAfterReset
<1> QED
  BY <1>1, Invariant, PTL
=============================================================================
