---------------------------- MODULE ExporterWAL ----------------------------
(***************************************************************************)
(* The write-ahead-log pipeline of the collector metrics exporter          *)
(* (exporter/collector/metrics.go).                                        *)
(*                                                                         *)
(* PushMetrics calls append CreateTimeSeriesRequests to a log on disk; one *)
(* goroutine, runWALReadAndExportLoop, reads the entry at the head of the  *)
(* log, exports it to Cloud Monitoring with retries, and truncates it.     *)
(* Both sides take me.wal.mutex.  The goroutine blocks on a file watch     *)
(* when it finds the end of the log.  Shutdown closes shutdownC, waits for *)
(* the goroutine or for its own deadline, and closes the client.  The      *)
(* process may crash at any point and start again on the log it left.      *)
(*                                                                         *)
(* Abstracted: the contents of a request (an entry is the push and the     *)
(* batch it comes from), the length of the sleeps (module WALBackoff), the *)
(* self-observability counters, and the segment files of the log library.  *)
(***************************************************************************)
EXTENDS Naturals, Sequences

CONSTANTS
    Pushers,      \* PushMetrics calls, each made at most once
    BatchesOf,    \* how many requests each of them writes
    Empty,        \* the empty request that fills out the end of the log
    MaxAttempts,  \* exports of one entry before it is given up (WALBackoff)
    MaxCrashes,   \* bound: crashes of the process
    MaxFaults,    \* bound: failed system calls on the log or the watcher
    CtxMayCancel  \* whether the context given to Start may be cancelled

ASSUME WALAssumption ==
    /\ BatchesOf \in [Pushers -> Nat]
    /\ Empty \notin Pushers \X Nat
    /\ MaxAttempts \in Nat \ {0}
    /\ MaxCrashes \in Nat
    /\ MaxFaults \in Nat
    /\ CtxMayCancel \in BOOLEAN

VARIABLES
    log,       \* every entry ever written; index i of the log is log[i]
    first,     \* first index still on disk; 1 when nothing was written
    handle,    \* me.wal.Log: an open log, a closed one, or nil
    mutex,     \* me.wal.mutex: free, or held by the runner or by a push
    pc,        \* where the runner goroutine is; "down": no process
    flush,     \* the runner is in the final loop, after shutdownC closed
    rIdx,      \* readIndex, as returned by setupWAL
    wIdx,      \* writeIndex, as returned by setupWAL
    attempt,   \* exports made of the entry at rIdx in this call
    event,     \* a file event is waiting for the watcher
    ppc,       \* where each PushMetrics call is
    batch,     \* the batch each PushMetrics call is at
    pIdx,      \* the LastIndex each PushMetrics call has read
    perr,      \* whether a PushMetrics call has collected an error
    stop,      \* Shutdown: not called, shutdownC closed, or client closed
    mark,      \* history: LastIndex when shutdownC was closed
    ctxDone,   \* the context given to Start is cancelled
    last,      \* history: index of the last request Cloud Monitoring received
    fate,      \* history: how each export loop ended, <<index, verdict>>
    crashes,   \* crashes so far
    faults     \* failed system calls so far

diskVars   == <<log, first>>
runnerVars == <<pc, flush, rIdx, wIdx, attempt, event>>
pushVars   == <<ppc, batch, pIdx, perr>>
lifeVars   == <<stop, mark, ctxDone>>
histVars   == <<last, fate>>
boundVars  == <<crashes, faults>>
vars == <<diskVars, handle, mutex, runnerVars, pushVars, lifeVars, histVars,
          boundVars>>

Entry   == (Pushers \X Nat) \cup {Empty}
Verdict == {"acked", "dropped", "canceled"}
InCall  == {"waiting", "index", "write"}
Holding == {"setup", "export", "calling", "fill", "truncate"}

Requests == {i \in 1..Len(log) : log[i] # Empty}
Pending  == {i \in Requests : i >= first}
Settled  == {f[1] : f \in fate}

----------------------------------------------------------------------------
(* A process that has not started, on an empty WAL directory.             *)

Init ==
    /\ log = <<>> /\ first = 1
    /\ handle = "nil" /\ mutex = "free"
    /\ pc = "down" /\ flush = FALSE
    /\ rIdx = 0 /\ wIdx = 0 /\ attempt = 0
    /\ event = FALSE
    /\ ppc = [p \in Pushers |-> "idle"]
    /\ batch = [p \in Pushers |-> 0]
    /\ pIdx = [p \in Pushers |-> 0]
    /\ perr = [p \in Pushers |-> FALSE]
    /\ stop = "no" /\ mark = 0 /\ ctxDone = FALSE
    /\ last = 0 /\ fate = {}
    /\ crashes = 0 /\ faults = 0

(* A system call on the log or the watcher fails.                         *)
Fault == faults < MaxFaults /\ faults' = faults + 1 /\ UNCHANGED crashes

(* tidwall/wal, Write: the index must be the one after the last.          *)
CanWrite(index) == handle = "open" /\ index = Len(log) + 1

(* A write is seen by the watcher only if the watcher is already there.   *)
AppendEntry(e) ==
    /\ log' = Append(log, e)
    /\ event' = (event \/ pc = "watching")
    /\ UNCHANGED first

(* The library syncs each write and each truncation before it returns.    *)
OnDisk_Unsynced == first' = 1 /\ UNCHANGED log
OnDisk == UNCHANGED diskVars

(* The end of the process: what is not on disk is gone.                   *)
Down ==
    /\ pc' = "down" /\ handle' = "nil" /\ mutex' = "free"
    /\ flush' = FALSE /\ rIdx' = 0 /\ wIdx' = 0 /\ attempt' = 0
    /\ event' = FALSE
    /\ ppc' = [p \in Pushers |-> IF ppc[p] \in InCall THEN "dead" ELSE ppc[p]]
    /\ batch' = [p \in Pushers |-> 0] /\ pIdx' = [p \in Pushers |-> 0]
    /\ stop' = "no" /\ mark' = 0 /\ ctxDone' = FALSE
    /\ perr' = [p \in Pushers |-> FALSE]
    /\ OnDisk /\ UNCHANGED histVars

(* me.wal.mutex.Lock()                                                    *)
Lock_Missing(holder) == mutex' = holder
Lock(holder) == mutex = "free" /\ mutex' = holder
----------------------------------------------------------------------------
(* PushMetrics, with the WAL configured.                                  *)

PushCall(p) ==
    /\ pc # "down" /\ ppc[p] = "idle"
    /\ ppc' = [ppc EXCEPT ![p] = "waiting"]
    /\ UNCHANGED <<diskVars, handle, mutex, runnerVars, batch, pIdx, perr,
                   lifeVars, histVars, boundVars>>

PushLock(p) ==
    /\ ppc[p] = "waiting" /\ Lock("push")
    /\ ppc' = [ppc EXCEPT ![p] = "index"]
    /\ batch' = [batch EXCEPT ![p] = 1]
    /\ UNCHANGED <<diskVars, handle, runnerVars, pIdx, perr, lifeVars,
                   histVars, boundVars>>

(* errs = append(errs, ...); continue                                     *)
Collect_Dropped(p) == UNCHANGED perr
Collect(p) == perr' = [perr EXCEPT ![p] = TRUE]

PushError(p) ==
    /\ Collect(p)
    /\ batch' = [batch EXCEPT ![p] = @ + 1]
    /\ ppc' = [ppc EXCEPT ![p] = "index"]
    /\ pIdx' = [pIdx EXCEPT ![p] = 0]
    /\ UNCHANGED <<diskVars, handle, mutex, runnerVars, lifeVars, histVars>>

(* writeIndex, err := me.wal.LastIndex()                                  *)
PushIndex(p) ==
    /\ ppc[p] = "index" /\ batch[p] <= BatchesOf[p]
    /\ \/ /\ handle = "open"
          /\ pIdx' = [pIdx EXCEPT ![p] = Len(log)]
          /\ ppc' = [ppc EXCEPT ![p] = "write"]
          /\ UNCHANGED <<diskVars, handle, mutex, runnerVars, batch, perr,
                         lifeVars, histVars, boundVars>>
       \/ handle = "closed" /\ PushError(p) /\ UNCHANGED boundVars

(* LastIndex on the nil log that a failed setupWAL leaves: a panic.       *)
PushPanic(p) ==
    /\ ppc[p] = "index" /\ batch[p] <= BatchesOf[p] /\ handle = "nil"
    /\ Down /\ UNCHANGED boundVars

(* err = me.wal.Write(writeIndex+1, bytes)                                *)
PushWrite(p) ==
    /\ ppc[p] = "write"
    /\ \/ /\ CanWrite(pIdx[p] + 1)
          /\ AppendEntry(<<p, batch[p]>>)
          /\ batch' = [batch EXCEPT ![p] = @ + 1]
          /\ ppc' = [ppc EXCEPT ![p] = "index"]
          /\ pIdx' = [pIdx EXCEPT ![p] = 0]
          /\ UNCHANGED <<handle, mutex, pc, flush, rIdx, wIdx, attempt, perr,
                         lifeVars, histVars, boundVars>>
       \/ ~CanWrite(pIdx[p] + 1) /\ PushError(p) /\ UNCHANGED boundVars
       \/ Fault /\ PushError(p)

PushReturn(p) ==
    /\ ppc[p] = "index" /\ batch[p] > BatchesOf[p]
    /\ mutex' = "free"
    /\ ppc' = [ppc EXCEPT ![p] = IF perr[p] THEN "failed" ELSE "ok"]
    /\ batch' = [batch EXCEPT ![p] = 0]
    /\ perr' = [perr EXCEPT ![p] = FALSE]
    /\ UNCHANGED <<diskVars, handle, runnerVars, pIdx, lifeVars, histVars,
                   boundVars>>

PushStep(p) == PushIndex(p) \/ PushPanic(p) \/ PushWrite(p) \/ PushReturn(p)
----------------------------------------------------------------------------
(* runWALReadAndExportLoop and readWALAndExport.                          *)

RunnerTop ==
    /\ pc = "top"
    /\ \/ ctxDone /\ pc' = "closing" /\ UNCHANGED flush
       \/ stop # "no" /\ pc' = "lock" /\ flush' = TRUE
       \/ ~ctxDone /\ stop = "no" /\ pc' = "lock" /\ UNCHANGED flush
    /\ UNCHANGED <<diskVars, handle, mutex, rIdx, wIdx, attempt, event,
                   pushVars, lifeVars, histVars, boundVars>>

RunnerLock ==
    /\ pc = "lock" /\ Lock("runner")
    /\ pc' = "setup"
    /\ UNCHANGED <<diskVars, handle, flush, rIdx, wIdx, attempt, event,
                   pushVars, lifeVars, histVars, boundVars>>

(* What the loop does when readWALAndExport has returned nil, or an error. *)
Resume_FlushesOne(e) ==
    IF flush THEN "closing" ELSE IF e = "nil" THEN "top" ELSE "watchAdd"
Resume_WatchesEach(e) ==
    IF ~flush THEN "watchAdd" ELSE IF e = "nil" THEN "lock" ELSE "closing"
Resume(e) ==
    IF e = "nil" THEN IF flush THEN "lock" ELSE "top"
                 ELSE IF flush THEN "closing" ELSE "watchAdd"

Return(e) ==
    /\ mutex' = "free" /\ pc' = Resume(e)
    /\ rIdx' = 0 /\ wIdx' = 0 /\ attempt' = 0
    /\ UNCHANGED <<flush, event>>

(* FirstIndex, of a log that holds something.                             *)
ReadIndex_Last == Len(log)
ReadIndex == first

(* setupWAL closes and reopens the log and reads both indices; then       *)
(* me.wal.Read(readIndex).  A failure to reopen leaves a nil log.         *)
RunnerSetup ==
    /\ pc = "setup"
    /\ \/ /\ first <= Len(log)
          /\ handle' = "open" /\ pc' = "export"
          /\ rIdx' = ReadIndex /\ wIdx' = Len(log)
          /\ UNCHANGED <<mutex, flush, attempt, event, boundVars>>
       \/ /\ first > Len(log)
          /\ handle' = "open" /\ Return("ErrNotFound") /\ UNCHANGED boundVars
       \/ handle' \in {"nil", "open"} /\ Fault /\ Return("io")
    /\ UNCHANGED <<diskVars, pushVars, lifeVars, histVars>>

(* The retry loop is left with a verdict on the entry.                    *)
Conclude(v) ==
    /\ fate' = fate \cup {<<rIdx, v>>}
    /\ pc' = "fill"

(* export: an empty request is skipped; a closed client or a cancelled    *)
(* context answers Canceled, for which isNotRecoverable is true.          *)
RunnerExport ==
    /\ pc = "export"
    /\ \/ log[rIdx] = Empty /\ pc' = "fill" /\ UNCHANGED fate
       \/ log[rIdx] # Empty /\ (stop = "closed" \/ ctxDone) /\ Conclude("canceled")
       \/ /\ log[rIdx] # Empty /\ stop # "closed" /\ ~ctxDone
          /\ pc' = "calling" /\ UNCHANGED fate
    /\ UNCHANGED <<diskVars, handle, mutex, flush, rIdx, wIdx, attempt, event,
                   pushVars, lifeVars, last, boundVars>>

Reached == last' = rIdx
MayHaveReached == UNCHANGED last \/ Reached

(* DeadlineExceeded or Unavailable: sleep, and export again.              *)
RetryLater_Forever == pc' = "export" /\ UNCHANGED <<attempt, fate>>
RetryLater ==
    /\ attempt' = attempt + 1
    /\ \/ attempt' < MaxAttempts /\ pc' = "export" /\ UNCHANGED fate
       \/ attempt' >= MaxAttempts /\ Conclude("dropped")

(* The answer to a call.  A permanent error drops the request; a call     *)
(* that timed out or was cancelled may have been applied.                 *)
RunnerAnswer ==
    /\ pc = "calling"
    /\ \/ Reached /\ Conclude("acked") /\ UNCHANGED attempt
       \/ Conclude("dropped") /\ UNCHANGED <<last, attempt>>
       \/ MayHaveReached /\ RetryLater
       \/ ctxDone /\ MayHaveReached /\ Conclude("canceled") /\ UNCHANGED attempt
    /\ UNCHANGED <<diskVars, handle, mutex, flush, rIdx, wIdx, event,
                   pushVars, lifeVars, boundVars>>

(* The last entry cannot be truncated: an empty one is written behind it. *)
NeedsFill_Never == FALSE
NeedsFill == rIdx = wIdx /\ log[rIdx] # Empty

RunnerFill ==
    /\ pc = "fill"
    /\ \/ /\ NeedsFill /\ CanWrite(wIdx + 1)
          /\ AppendEntry(Empty)
          /\ wIdx' = wIdx + 1 /\ pc' = "truncate"
          /\ UNCHANGED <<mutex, flush, rIdx, attempt, boundVars>>
       \/ /\ NeedsFill /\ Return("io") /\ UNCHANGED diskVars
          /\ \/ Fault
             \/ ~CanWrite(wIdx + 1) /\ UNCHANGED boundVars
       \/ /\ ~NeedsFill /\ pc' = "truncate"
          /\ UNCHANGED <<diskVars, mutex, flush, rIdx, wIdx, attempt, event,
                         boundVars>>
    /\ UNCHANGED <<handle, pushVars, lifeVars, histVars>>

KeepFrom_WriteIndex == wIdx
KeepFrom == rIdx + 1

RunnerTruncate ==
    /\ pc = "truncate"
    /\ \/ /\ rIdx >= wIdx
          /\ Return("ErrNotFound") /\ UNCHANGED <<first, boundVars>>
       \/ /\ rIdx < wIdx
          /\ first' = KeepFrom /\ Return("nil") /\ UNCHANGED boundVars
       \/ rIdx < wIdx /\ Fault /\ Return("io") /\ UNCHANGED first
    /\ UNCHANGED <<log, handle, pushVars, lifeVars, histVars>>

(* watchWALFile: the mutex is free, and nothing is seen before Add.       *)
RunnerWatch ==
    /\ pc = "watchAdd"
    /\ \/ pc' = "watching" /\ UNCHANGED boundVars
       \/ pc' = "top" /\ Fault
    /\ UNCHANGED <<diskVars, handle, mutex, flush, rIdx, wIdx, attempt, event,
                   pushVars, lifeVars, histVars>>

WatchEnds_IgnoresShutdown == event \/ ctxDone
WatchEnds == event \/ stop # "no" \/ ctxDone

RunnerWake ==
    /\ pc = "watching"
    /\ \/ WatchEnds /\ UNCHANGED boundVars
       \/ Fault
    /\ pc' = "top" /\ event' = FALSE
    /\ UNCHANGED <<diskVars, handle, mutex, flush, rIdx, wIdx, attempt,
                   pushVars, lifeVars, histVars>>

(* The deferred me.wal.Close(), without the mutex; a nil log panics.      *)
RunnerClose ==
    /\ pc = "closing"
    /\ \/ /\ handle # "nil"
          /\ handle' = "closed" /\ pc' = "done"
          /\ UNCHANGED <<diskVars, mutex, flush, rIdx, wIdx, attempt, event,
                         pushVars, lifeVars, histVars>>
       \/ handle = "nil" /\ Down
    /\ UNCHANGED boundVars

RunnerStep ==
    \/ RunnerTop \/ RunnerSetup \/ RunnerExport \/ RunnerAnswer \/ RunnerFill
    \/ RunnerTruncate \/ RunnerWatch \/ RunnerWake \/ RunnerClose
----------------------------------------------------------------------------
(* The life of the process.                                               *)

(* Start opens the log and starts the runner, or fails.                   *)
Start ==
    /\ pc = "down"
    /\ \/ pc' = "top" /\ handle' = "open" /\ UNCHANGED boundVars
       \/ Fault /\ UNCHANGED <<pc, handle>>
    /\ UNCHANGED <<diskVars, mutex, flush, rIdx, wIdx, attempt, event,
                   pushVars, lifeVars, histVars>>

(* close(me.shutdownC)                                                    *)
ShutdownCall ==
    /\ pc # "down" /\ stop = "no"
    /\ stop' = "called" /\ mark' = Len(log)
    /\ UNCHANGED <<diskVars, handle, mutex, runnerVars, pushVars, ctxDone,
                   histVars, boundVars>>

(* The goroutines are done, or Shutdown's own context is; either way the  *)
(* client is closed.                                                      *)
ShutdownReturn ==
    /\ stop = "called"
    /\ stop' = "closed"
    /\ UNCHANGED <<diskVars, handle, mutex, runnerVars, pushVars, mark, ctxDone,
                   histVars, boundVars>>

CancelCtx ==
    /\ CtxMayCancel /\ pc # "down" /\ ~ctxDone
    /\ ctxDone' = TRUE
    /\ UNCHANGED <<diskVars, handle, mutex, runnerVars, pushVars, stop, mark,
                   histVars, boundVars>>

(* The process ends after a shutdown that has seen the runner stop.       *)
Exit == pc = "done" /\ stop = "closed" /\ Down /\ UNCHANGED boundVars

(* Any other end of the process.                                          *)
Crash ==
    /\ pc # "down" /\ crashes < MaxCrashes
    /\ crashes' = crashes + 1
    /\ Down /\ UNCHANGED faults
----------------------------------------------------------------------------
Next ==
    \/ \E p \in Pushers : PushCall(p) \/ PushLock(p) \/ PushStep(p)
    \/ RunnerStep \/ RunnerLock
    \/ Start \/ ShutdownCall \/ ShutdownReturn \/ CancelCtx \/ Exit \/ Crash

Spec == Init /\ [][Next]_vars

(* Every goroutine that can run does.  sync.Mutex hands itself to a       *)
(* waiter that has starved for a millisecond, so a lock that is free      *)
(* again and again is obtained.  Every call to the backend ends, if only  *)
(* at its timeout.  Nothing makes the backend answer well, a caller push, *)
(* the collector shut down, or a process that ended start again.          *)
Fairness ==
    /\ WF_vars(RunnerStep) /\ SF_vars(RunnerLock)
    /\ \A p \in Pushers : WF_vars(PushStep(p)) /\ SF_vars(PushLock(p))

FairSpec == Spec /\ Fairness
----------------------------------------------------------------------------
DiskTypeOK == log \in Seq(Entry) /\ first \in 1..(Len(log) + 1)

RunnerTypeOK ==
    /\ handle \in {"nil", "open", "closed"}
    /\ mutex \in {"free", "runner", "push"}
    /\ pc \in {"down", "top", "lock", "watchAdd", "watching", "closing", "done"}
              \cup Holding
    /\ rIdx \in 0..Len(log) /\ wIdx \in 0..Len(log)
    /\ attempt \in 0..MaxAttempts

PushTypeOK ==
    /\ ppc \in [Pushers -> {"idle", "ok", "failed", "dead"} \cup InCall]
    /\ batch \in [Pushers -> Nat] /\ pIdx \in [Pushers -> Nat]

FlagTypeOK ==
    /\ flush \in BOOLEAN /\ event \in BOOLEAN /\ ctxDone \in BOOLEAN
    /\ perr \in [Pushers -> BOOLEAN]

LifeTypeOK ==
    /\ stop \in {"no", "called", "closed"} /\ mark \in 0..Len(log)
    /\ crashes \in 0..MaxCrashes /\ faults \in 0..MaxFaults

HistTypeOK ==
    /\ last \in 0..Len(log)
    /\ fate \subseteq (1..Len(log)) \X Verdict

(* Types and bounds of every variable; attempt never passes the number of  *)
(* exports the retry loop is allowed.                                      *)
TypeOK ==
    /\ DiskTypeOK /\ RunnerTypeOK /\ PushTypeOK /\ FlagTypeOK /\ LifeTypeOK
    /\ HistTypeOK

(* The indices either side read from the log are those of the log until it *)
(* has used them, so no write is refused as out of order and no truncation *)
(* cuts at a stale place: me.wal.mutex covers the whole of PushMetrics and *)
(* the whole of readWALAndExport, the sleeps between exports included.     *)
IndicesFresh ==
    /\ pc \in {"export", "calling", "fill", "truncate"} =>
          rIdx = first /\ wIdx = Len(log) /\ first <= Len(log)
    /\ \A p \in Pushers : ppc[p] = "write" => pIdx[p] = Len(log)

(* A PushMetrics that returned nil has put all of its requests in the log, *)
(* in order and with nothing of another push between them, even when the   *)
(* runner closed the log while it was writing.                             *)
OkPushIsWhole ==
    \A p \in Pushers : ppc[p] = "ok" =>
        \E i \in 0..Len(log) : \A k \in 1..BatchesOf[p] :
            i + k <= Len(log) /\ log[i + k] = <<p, k>>

(* Cloud Monitoring never receives a request after a later one: retries,   *)
(* restarts and failed system calls keep the order of the data points.     *)
ReceivedInOrder == [][last' >= last]_vars

(* A request leaves the log only after its own export loop has ended.      *)
NoSilentLoss == \A i \in Requests : i < first => i \in Settled

(* The empty entry prevents double exports: a request Cloud Monitoring has *)
(* acknowledged is sent again only if the process died, or a system call   *)
(* failed, before it could be truncated.                                   *)
NoDoubleExport ==
    pc = "calling" /\ <<rIdx, "acked">> \in fate => crashes + faults > 0

(* When the runner stops after shutdownC was closed, what was in the log   *)
(* at that moment has gone, unless a system call failed or the context     *)
(* given to Start was cancelled.                                           *)
FlushedWhenDone ==
    pc = "done" /\ stop # "no" /\ faults = 0 /\ ~ctxDone =>
        \A i \in first..mark : log[i] = Empty

(* The log implements the outbox.                                          *)
Outbox == INSTANCE WALOutbox WITH
    accepted <- Requests,
    pending  <- Pending,
    settled  <- Settled
OutboxSpec == Outbox!Spec

(* The runner goroutine ends after shutdownC is closed, so that Shutdown   *)
(* need not wait for its deadline.                                         *)
RunnerStops == (stop # "no") ~> (pc \in {"done", "down"})

(* A file event wakes the runner, and it then works through all the log    *)
(* had when the event came, unless the process is stopped or a call fails. *)
WokenRunnerDrains ==
    \A p \in Pushers : \A k \in 1..BatchesOf[p] :
        (event /\ \E i \in first..Len(log) : log[i] = <<p, k>>)
            ~> \/ pc \in {"done", "down"} \/ faults > 0
               \/ \A i \in first..Len(log) : log[i] # <<p, k>>

(* A PushMetrics that waits for the lock returns, behind a runner that may *)
(* hold it through a whole series of retries, unless the process ends.     *)
PushReturns ==
    \A p \in Pushers : (ppc[p] = "waiting") ~> (ppc[p] \notin InCall)

(* isNotRecoverable "returns true if the error is permanent": a request is *)
(* dropped unsent only because it was rejected or its backoff was spent.   *)
DroppedOnlyWhenPermanent ==
    \A i \in Requests : i < first =>
        <<i, "acked">> \in fate \/ <<i, "dropped">> \in fate

(* watchWALFile "watches the WAL directory for a write then returns": in a *)
(* process that goes on running, no request stays in the log for ever.     *)
NoRequestStranded ==
    \A p \in Pushers :
        (\E i \in first..Len(log) : log[i] = <<p, 1>>)
            ~> \/ pc \in {"done", "down"}
               \/ \A i \in first..Len(log) : log[i] # <<p, 1>>
=============================================================================
