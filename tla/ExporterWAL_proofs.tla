------------------------- MODULE ExporterWAL_proofs -------------------------
(***************************************************************************)
(* Proofs about ExporterWAL for any number of pushes, requests, retries,   *)
(* crashes and failed system calls.  The inductive invariant is IInv: the  *)
(* lock has one holder, so the indices read under it stay those of the     *)
(* log; hence the runner only ever works at the first entry, and truncates *)
(* it alone, with its verdict.  The Boolean variables are typed apart,     *)
(* because no one prover handles them together with the indices.           *)
(***************************************************************************)
EXTENDS ExporterWAL, TLAPS

(* me.wal.mutex has one holder: the runner inside readWALAndExport, or one *)
(* push inside PushMetrics.                                                *)
Writing(p) == ppc[p] \in {"index", "write"}

MutualExclusion ==
    /\ pc \in Holding => mutex = "runner"
    /\ \A p \in Pushers : Writing(p) => mutex = "push"
    /\ \A p, q \in Pushers : Writing(p) /\ Writing(q) => p = q

(* The retry loop has a turn left when it exports, and starts afresh.      *)
AttemptsLeft ==
    /\ pc \in {"export", "calling"} => attempt < MaxAttempts
    /\ pc \notin {"export", "calling", "fill", "truncate"} => attempt = 0
    /\ pc = "calling" => log[rIdx] # Empty

(* Nothing behind the first entry has been received or given a verdict.    *)
NothingAhead == last <= first /\ \A f \in fate : f[1] <= first

(* The entry about to be truncated is empty or has its verdict.            *)
HeadDecided ==
    pc \in {"fill", "truncate"} /\ log[rIdx] # Empty => rIdx \in Settled

Core ==
    /\ DiskTypeOK /\ RunnerTypeOK /\ PushTypeOK /\ LifeTypeOK /\ HistTypeOK
    /\ MutualExclusion /\ IndicesFresh /\ AttemptsLeft
    /\ NothingAhead /\ HeadDecided /\ NoSilentLoss

IInv == FlagTypeOK /\ Core
-----------------------------------------------------------------------------
(* What appending an entry does to the log, and to its requests.           *)
LEMMA AppendFacts ==
    ASSUME DiskTypeOK, NEW e \in Entry, AppendEntry(e)
    PROVE  /\ DiskTypeOK' /\ first' = first /\ Len(log') = Len(log) + 1
           /\ \A i \in 1..Len(log) : log'[i] = log[i]
           /\ log'[Len(log) + 1] = e
<1>1. log \in Seq(Entry) /\ log' = Append(log, e) /\ first' = first
  BY DEF DiskTypeOK, AppendEntry
<1>2. log' \in Seq(Entry) /\ Len(log') = Len(log) + 1
  BY <1>1
<1>3. \A i \in 1..Len(log) : log'[i] = log[i]
  BY <1>1
<1>4. log'[Len(log) + 1] = e
  BY <1>1
<1>5. first' \in 1..(Len(log') + 1)
  BY <1>1, <1>2 DEF DiskTypeOK
<1> QED
  BY <1>1, <1>2, <1>3, <1>4, <1>5, Entry' = Entry DEF DiskTypeOK, Entry

(* A verdict settles the entry being exported, and no other.               *)
LEMMA ConcludeSettles ==
    ASSUME NEW v, Conclude(v)
    PROVE  rIdx \in Settled' /\ \A i \in Settled : i \in Settled'
<1>1. fate' = fate \cup {<<rIdx, v>>}
  BY DEF Conclude
<1>2. <<rIdx, v>>[1] = rIdx
  OBVIOUS
<1> QED
  BY <1>1, <1>2 DEF Settled

(* The Boolean variables stay Boolean.                                     *)
LEMMA FlagsTyped == FlagTypeOK /\ [Next]_vars => FlagTypeOK'
<1> SUFFICES ASSUME FlagTypeOK, [Next]_vars PROVE FlagTypeOK'
  OBVIOUS
<1> USE Zenon DEF FlagTypeOK, diskVars, runnerVars, pushVars, lifeVars, histVars,
                  boundVars
<1>1. ASSUME NEW p \in Pushers, PushCall(p) PROVE FlagTypeOK'
  BY <1>1 DEF PushCall
<1>2. ASSUME NEW p \in Pushers, PushLock(p) PROVE FlagTypeOK'
  BY <1>2 DEF PushLock, Lock
<1>3. ASSUME NEW p \in Pushers, PushIndex(p) PROVE FlagTypeOK'
  BY <1>3 DEF PushIndex, PushError, Collect
<1>4. ASSUME NEW p \in Pushers, PushPanic(p) PROVE FlagTypeOK'
  BY <1>4 DEF PushPanic, Down, OnDisk
<1>5. ASSUME NEW p \in Pushers, PushWrite(p) PROVE FlagTypeOK'
  BY <1>5 DEF PushWrite, PushError, Collect, AppendEntry, Fault
<1>6. ASSUME NEW p \in Pushers, PushReturn(p) PROVE FlagTypeOK'
  BY <1>6 DEF PushReturn
<1>7. ASSUME RunnerTop PROVE FlagTypeOK'
  BY <1>7 DEF RunnerTop
<1>8. ASSUME RunnerLock PROVE FlagTypeOK'
  BY <1>8 DEF RunnerLock, Lock
<1>9. ASSUME RunnerSetup PROVE FlagTypeOK'
  BY <1>9 DEF RunnerSetup, Return, Fault
<1>10. ASSUME RunnerExport PROVE FlagTypeOK'
  BY <1>10 DEF RunnerExport
<1>11. ASSUME RunnerAnswer PROVE FlagTypeOK'
  BY <1>11 DEF RunnerAnswer
<1>12. ASSUME RunnerFill PROVE FlagTypeOK'
  BY <1>12 DEF RunnerFill, Return, AppendEntry, Fault
<1>13. ASSUME RunnerTruncate PROVE FlagTypeOK'
  BY <1>13 DEF RunnerTruncate, Return, Fault
<1>14. ASSUME RunnerWatch PROVE FlagTypeOK'
  BY <1>14 DEF RunnerWatch, Fault
<1>15. ASSUME RunnerWake PROVE FlagTypeOK'
  BY <1>15 DEF RunnerWake, Fault
<1>16. ASSUME RunnerClose PROVE FlagTypeOK'
  BY <1>16 DEF RunnerClose, Down, OnDisk
<1>17. ASSUME Start PROVE FlagTypeOK'
  BY <1>17 DEF Start, Fault
<1>18. ASSUME ShutdownCall PROVE FlagTypeOK'
  BY <1>18 DEF ShutdownCall
<1>19. ASSUME ShutdownReturn PROVE FlagTypeOK'
  BY <1>19 DEF ShutdownReturn
<1>20. ASSUME CancelCtx PROVE FlagTypeOK'
  BY <1>20 DEF CancelCtx
<1>21. ASSUME Exit PROVE FlagTypeOK'
  BY <1>21 DEF Exit, Down, OnDisk
<1>22. ASSUME Crash PROVE FlagTypeOK'
  BY <1>22 DEF Crash, Down, OnDisk
<1>23. CASE UNCHANGED vars
  BY <1>23 DEF vars
<1> QED
  BY <1>1, <1>2, <1>3, <1>4, <1>5, <1>6, <1>7, <1>8, <1>9, <1>10, <1>11, <1>12, <1>13, <1>14, <1>15, <1>16, <1>17, <1>18, <1>19, <1>20, <1>21, <1>22, <1>23
     DEF Next, PushStep, RunnerStep

(* A step that leaves the log, and what became of it, alone.               *)
LEMMA DiskQuiet ==
    ASSUME Core, UNCHANGED <<diskVars, histVars>>
    PROVE  DiskTypeOK' /\ HistTypeOK' /\ NothingAhead' /\ NoSilentLoss'
  BY DEF Core, DiskTypeOK, HistTypeOK, NothingAhead, NoSilentLoss, Requests,
     Settled, diskVars, histVars

(* The end of the process keeps the rest of the invariant.                 *)
LEMMA DownKeeps ==
    ASSUME Core, Down, crashes' \in 0..MaxCrashes, faults' \in 0..MaxFaults
    PROVE  Core'
<1>1. UNCHANGED <<diskVars, histVars>>
  BY DEF Down, OnDisk
<1>2. DiskTypeOK' /\ HistTypeOK' /\ NothingAhead' /\ NoSilentLoss'
  BY <1>1, DiskQuiet
<1>3. RunnerTypeOK' /\ PushTypeOK' /\ LifeTypeOK'
  BY <1>2, WALAssumption, SMT DEF Down, Core, DiskTypeOK, RunnerTypeOK,
     PushTypeOK, LifeTypeOK, InCall
<1>4. MutualExclusion' /\ IndicesFresh' /\ AttemptsLeft' /\ HeadDecided'
  BY <1>1, SMT DEF Down, Core, PushTypeOK, MutualExclusion, Writing,
     IndicesFresh, AttemptsLeft, HeadDecided, Holding, InCall
<1> QED
  BY <1>2, <1>3, <1>4 DEF Core

(* A write or an index that failed: errs = append(errs, ...); continue.    *)
LEMMA PushErrorKeeps ==
    ASSUME Core, NEW p \in Pushers, Writing(p), PushError(p),
           crashes' \in 0..MaxCrashes, faults' \in 0..MaxFaults
    PROVE  Core'
<1>1. /\ ppc' = [ppc EXCEPT ![p] = "index"]
      /\ batch' = [batch EXCEPT ![p] = @ + 1]
      /\ pIdx' = [pIdx EXCEPT ![p] = 0]
      /\ UNCHANGED <<diskVars, handle, mutex, runnerVars, lifeVars, histVars>>
  BY DEF PushError
<1>2. PushTypeOK'
  BY <1>1, SMT DEF Core, PushTypeOK, InCall
<1>3. DiskTypeOK' /\ HistTypeOK' /\ NothingAhead' /\ NoSilentLoss'
  BY <1>1, DiskQuiet
<1>4. RunnerTypeOK' /\ LifeTypeOK'
  BY <1>1, SMT DEF Core, RunnerTypeOK, LifeTypeOK, diskVars, runnerVars, lifeVars
<1>5. MutualExclusion'
  BY <1>1, SMT DEF Core, MutualExclusion, Writing, PushTypeOK, runnerVars
<1>6. IndicesFresh' /\ AttemptsLeft' /\ HeadDecided'
  BY <1>1, SMT DEF Core, IndicesFresh, AttemptsLeft, HeadDecided, PushTypeOK,
     Settled, diskVars, runnerVars, histVars
<1> QED
  BY <1>2, <1>3, <1>4, <1>5, <1>6 DEF Core

(* An entry is appended by whoever holds the lock.                         *)
LEMMA AppendKeeps ==
    ASSUME Core, NEW e \in Entry, AppendEntry(e), UNCHANGED <<last, fate>>
    PROVE  DiskTypeOK' /\ HistTypeOK' /\ NothingAhead' /\ NoSilentLoss'
<1> USE DEF Core
<1>1. /\ DiskTypeOK' /\ first' = first /\ Len(log') = Len(log) + 1
      /\ \A i \in 1..Len(log) : log'[i] = log[i]
  BY AppendFacts
<1>2. Len(log) \in Nat /\ first \in 1..(Len(log) + 1)
  BY DEF DiskTypeOK
<1>3. HistTypeOK'
  BY <1>1, <1>2, SMT DEF HistTypeOK, Verdict
<1>4. NothingAhead'
  BY <1>1, <1>2 DEF NothingAhead
<1>5. ASSUME NEW i \in Requests', i < first' PROVE i \in Settled'
  <2>1. i \in 1..Len(log) /\ log[i] # Empty
    BY <1>1, <1>2, <1>5, SMT DEF Requests
  <2> QED
    BY <1>1, <1>5, <2>1 DEF NoSilentLoss, Requests, Settled
<1> QED
  BY <1>1, <1>3, <1>4, <1>5 DEF NoSilentLoss

(* A step that changes only the shutdown state, the context or the bounds. *)
LEMMA LifeKeeps ==
    ASSUME Core, LifeTypeOK',
           UNCHANGED <<diskVars, handle, mutex, runnerVars, pushVars, histVars>>
    PROVE  Core'
<1>1. DiskTypeOK' /\ RunnerTypeOK' /\ PushTypeOK' /\ HistTypeOK'
  BY DEF Core, DiskTypeOK, RunnerTypeOK, PushTypeOK, HistTypeOK, diskVars,
     runnerVars, pushVars, histVars
<1>2. MutualExclusion' /\ IndicesFresh' /\ AttemptsLeft'
  BY DEF Core, MutualExclusion, Writing, IndicesFresh, AttemptsLeft, diskVars,
     runnerVars, pushVars
<1>3. NothingAhead' /\ HeadDecided' /\ NoSilentLoss'
  BY DEF Core, NothingAhead, HeadDecided, NoSilentLoss, Requests, Settled,
     diskVars, runnerVars, histVars
<1> QED
  BY <1>1, <1>2, <1>3 DEF Core

(* A step after which the runner is outside readWALAndExport, and which    *)
(* touches the lock only to leave it.                                      *)
LEMMA OutsideKeeps ==
    ASSUME Core, RunnerTypeOK', LifeTypeOK',
           UNCHANGED <<diskVars, pushVars, histVars>>,
           pc' \notin Holding, attempt' = 0, mutex' = mutex \/ pc \in Holding
    PROVE  Core'
<1>1. DiskTypeOK' /\ PushTypeOK' /\ HistTypeOK'
  BY DEF Core, DiskTypeOK, PushTypeOK, HistTypeOK, diskVars, pushVars, histVars
<1>2. MutualExclusion'
  BY DEF Core, MutualExclusion, Writing, pushVars
<1>3. IndicesFresh' /\ AttemptsLeft'
  BY SMT DEF Core, IndicesFresh, AttemptsLeft, Holding, diskVars, pushVars
<1>4. NothingAhead' /\ HeadDecided' /\ NoSilentLoss'
  BY DEF Core, NothingAhead, HeadDecided, NoSilentLoss, Requests, Settled,
     Holding, diskVars, histVars
<1> QED
  BY <1>1, <1>2, <1>3, <1>4 DEF Core

(* readWALAndExport returns.                                               *)
LEMMA ReturnKeeps ==
    ASSUME Core, NEW e, Return(e), pc \in Holding,
           handle' \in {"nil", "open", "closed"}, Fault \/ UNCHANGED boundVars,
           UNCHANGED <<diskVars, pushVars, lifeVars, histVars>>
    PROVE  Core'
<1>1. RunnerTypeOK'
  BY WALAssumption, SMT DEF Core, RunnerTypeOK, DiskTypeOK, Return, Resume,
     Holding, diskVars
<1>2. LifeTypeOK'
  BY WALAssumption, SMT DEF Core, LifeTypeOK, Fault, lifeVars, boundVars,
     diskVars
<1>3. pc' \notin Holding /\ attempt' = 0
  BY DEF Return, Resume, Holding
<1> QED
  BY <1>1, <1>2, <1>3, OutsideKeeps

(* A step between reading the first entry and truncating it.               *)
Working == {"export", "calling", "fill", "truncate"}

(* What a step between two of those keeps.                                 *)
LEMMA InsideKeeps ==
    ASSUME Core, pc \in Working, pc' \in Working, attempt' \in 0..MaxAttempts,
           UNCHANGED <<diskVars, handle, mutex, rIdx, wIdx, pushVars, lifeVars,
                       boundVars>>,
           HistTypeOK', AttemptsLeft', NothingAhead', HeadDecided', NoSilentLoss'
    PROVE  Core'
<1>1. DiskTypeOK' /\ RunnerTypeOK' /\ PushTypeOK' /\ LifeTypeOK'
  BY DEF Core, DiskTypeOK, RunnerTypeOK, PushTypeOK, LifeTypeOK, Working,
     Holding, diskVars, pushVars, lifeVars, boundVars
<1>2. MutualExclusion' /\ IndicesFresh'
  BY DEF Core, MutualExclusion, Writing, IndicesFresh, Working, Holding,
     diskVars, pushVars
<1> QED
  BY <1>1, <1>2 DEF Core

(* Every step keeps the rest of the invariant.                             *)
LEMMA CoreKept == IInv /\ [Next]_vars => Core'
<1> SUFFICES ASSUME Core, [Next]_vars PROVE Core'
  BY DEF IInv
<1>a. MaxCrashes \in Nat /\ MaxFaults \in Nat /\ MaxAttempts \in Nat \ {0}
  BY WALAssumption
<1>b. /\ crashes \in 0..MaxCrashes /\ faults \in 0..MaxFaults
      /\ crashes < MaxCrashes => crashes + 1 \in 0..MaxCrashes
      /\ faults < MaxFaults => faults + 1 \in 0..MaxFaults
  BY <1>a, SMT DEF Core, LifeTypeOK
<1>1. ASSUME NEW p \in Pushers, PushPanic(p) PROVE Core'
  BY <1>1, <1>b, DownKeeps DEF PushPanic, boundVars
<1>2. ASSUME Exit PROVE Core'
  BY <1>2, <1>b, DownKeeps DEF Exit, boundVars
<1>3. ASSUME Crash PROVE Core'
  BY <1>3, <1>b, DownKeeps DEF Crash
<1>4. ASSUME RunnerClose PROVE Core'
  <2>1. CASE handle = "nil"
    BY <1>4, <1>b, <2>1, DownKeeps DEF RunnerClose, boundVars
  <2>2. CASE handle # "nil"
    <3>1. RunnerTypeOK' /\ LifeTypeOK' /\ pc' \notin Holding /\ attempt' = 0
      BY <1>4, <2>2, SMT DEF RunnerClose, Core, RunnerTypeOK, LifeTypeOK,
         AttemptsLeft, Holding, diskVars, lifeVars, boundVars
    <3> QED
      BY <1>4, <2>2, <3>1, OutsideKeeps DEF RunnerClose
  <2> QED
    BY <2>1, <2>2
<1>5. ASSUME NEW p \in Pushers, PushIndex(p) PROVE Core'
  <2>1. CASE handle = "closed"
    BY <1>5, <1>b, <2>1, PushErrorKeeps DEF PushIndex, Writing, boundVars
  <2>2. CASE handle = "open"
    <3>1. /\ ppc[p] = "index" /\ pIdx' = [pIdx EXCEPT ![p] = Len(log)]
          /\ ppc' = [ppc EXCEPT ![p] = "write"]
          /\ UNCHANGED <<diskVars, handle, mutex, runnerVars, batch, lifeVars,
                         histVars, boundVars>>
      BY <1>5, <2>2 DEF PushIndex
    <3>2. Len(log) \in Nat
      BY DEF Core, DiskTypeOK
    <3>3. PushTypeOK'
      BY <3>1, <3>2, SMT DEF Core, PushTypeOK, InCall
    <3>4. DiskTypeOK' /\ RunnerTypeOK' /\ LifeTypeOK' /\ HistTypeOK'
      BY <3>1, SMT DEF Core, DiskTypeOK, RunnerTypeOK, LifeTypeOK, HistTypeOK,
         diskVars, runnerVars, lifeVars, histVars, boundVars
    <3>5. MutualExclusion'
      BY <3>1, SMT DEF Core, MutualExclusion, Writing, PushTypeOK, runnerVars
    <3>6. IndicesFresh' /\ AttemptsLeft'
      BY <3>1, SMT DEF Core, IndicesFresh, AttemptsLeft, PushTypeOK, diskVars,
         runnerVars
    <3>7. NothingAhead' /\ HeadDecided' /\ NoSilentLoss'
      BY <3>1, SMT DEF Core, NothingAhead, HeadDecided, NoSilentLoss, Requests,
         Settled, diskVars, runnerVars, histVars
    <3> QED
      BY <3>3, <3>4, <3>5, <3>6, <3>7 DEF Core
  <2> QED
    BY <1>5, <2>1, <2>2 DEF PushIndex
<1>6. ASSUME NEW p \in Pushers, PushWrite(p) PROVE Core'
  <2>1. CASE PushError(p) /\ (Fault \/ UNCHANGED boundVars)
    BY <1>6, <1>b, <2>1, PushErrorKeeps DEF PushWrite, Writing, Fault, boundVars
  <2>2. CASE ~PushError(p)
    <3>1. <<p, batch[p]>> \in Entry
      BY DEF Core, PushTypeOK, Entry
    <3>2. AppendEntry(<<p, batch[p]>>) /\ UNCHANGED <<last, fate>>
      BY <1>6, <2>2 DEF PushWrite, histVars
    <3>3. /\ ppc[p] = "write" /\ CanWrite(pIdx[p] + 1)
          /\ batch' = [batch EXCEPT ![p] = @ + 1]
          /\ ppc' = [ppc EXCEPT ![p] = "index"]
          /\ pIdx' = [pIdx EXCEPT ![p] = 0]
          /\ UNCHANGED <<handle, mutex, pc, flush, rIdx, wIdx, attempt, perr,
                         lifeVars, histVars, boundVars>>
      BY <1>6, <2>2 DEF PushWrite
    <3>4. DiskTypeOK' /\ HistTypeOK' /\ NothingAhead' /\ NoSilentLoss'
      BY <3>1, <3>2, AppendKeeps
    <3>5. /\ first' = first /\ Len(log') = Len(log) + 1 /\ Len(log) \in Nat
          /\ \A i \in 1..Len(log) : log'[i] = log[i]
      BY <3>1, <3>2, AppendFacts DEF Core, DiskTypeOK
    <3>6. PushTypeOK'
      BY <3>3, SMT DEF Core, PushTypeOK, InCall
    <3>7. RunnerTypeOK' /\ LifeTypeOK'
      BY <3>3, <3>5, SMT DEF Core, RunnerTypeOK, LifeTypeOK, lifeVars, boundVars
    <3>8. MutualExclusion' /\ mutex = "push"
      BY <3>3, SMT DEF Core, MutualExclusion, Writing, PushTypeOK, InCall
    <3>9. pc \notin Holding
      BY <3>8 DEF Core, MutualExclusion
    <3>10. IndicesFresh' /\ AttemptsLeft' /\ HeadDecided'
      BY <3>3, <3>8, <3>9, SMT DEF Core, IndicesFresh, AttemptsLeft,
         HeadDecided, MutualExclusion, Writing, PushTypeOK, Holding, InCall
    <3> QED
      BY <3>4, <3>6, <3>7, <3>8, <3>10 DEF Core
  <2> QED
    BY <1>6, <2>1, <2>2 DEF PushWrite
<1>7. ASSUME NEW p \in Pushers, PushCall(p) PROVE Core'
  <2>1. PushTypeOK'
    BY <1>7, SMT DEF PushCall, Core, PushTypeOK, InCall
  <2>2. MutualExclusion'
    BY <1>7, SMT DEF PushCall, Core, MutualExclusion, Writing, PushTypeOK,
       Holding, runnerVars
  <2>3. IndicesFresh' /\ AttemptsLeft' /\ HeadDecided'
    BY <1>7, SMT DEF PushCall, Core, IndicesFresh, AttemptsLeft, HeadDecided,
       PushTypeOK, Settled, diskVars, runnerVars, histVars
  <2>4. DiskTypeOK' /\ HistTypeOK' /\ NothingAhead' /\ NoSilentLoss'
    BY <1>7, DiskQuiet DEF PushCall
  <2>5. RunnerTypeOK' /\ LifeTypeOK'
    BY <1>7, SMT DEF PushCall, Core, RunnerTypeOK, LifeTypeOK, diskVars,
       runnerVars, lifeVars, boundVars
  <2> QED
    BY <2>1, <2>2, <2>3, <2>4, <2>5 DEF Core
<1>8. ASSUME NEW p \in Pushers, PushLock(p) PROVE Core'
  <2>1. PushTypeOK'
    BY <1>8, SMT DEF PushLock, Core, PushTypeOK, InCall
  <2>2. MutualExclusion'
    BY <1>8, SMT DEF PushLock, Lock, Core, MutualExclusion, Writing, PushTypeOK,
       Holding, runnerVars
  <2>3. IndicesFresh' /\ AttemptsLeft' /\ HeadDecided'
    BY <1>8, SMT DEF PushLock, Lock, Core, IndicesFresh, AttemptsLeft, HeadDecided,
       PushTypeOK, Settled, diskVars, runnerVars, histVars
  <2>4. DiskTypeOK' /\ HistTypeOK' /\ NothingAhead' /\ NoSilentLoss'
    BY <1>8, DiskQuiet DEF PushLock
  <2>5. RunnerTypeOK' /\ LifeTypeOK'
    BY <1>8, SMT DEF PushLock, Lock, Core, RunnerTypeOK, LifeTypeOK, diskVars,
       runnerVars, lifeVars, boundVars
  <2> QED
    BY <2>1, <2>2, <2>3, <2>4, <2>5 DEF Core
<1>9. ASSUME NEW p \in Pushers, PushReturn(p) PROVE Core'
  <2>1. PushTypeOK'
    BY <1>9, SMT DEF PushReturn, Core, PushTypeOK, InCall
  <2>2. MutualExclusion'
    BY <1>9, SMT DEF PushReturn, Core, MutualExclusion, Writing, PushTypeOK,
       Holding, runnerVars
  <2>3. IndicesFresh' /\ AttemptsLeft' /\ HeadDecided'
    BY <1>9, SMT DEF PushReturn, Core, IndicesFresh, AttemptsLeft, HeadDecided,
       PushTypeOK, Settled, diskVars, runnerVars, histVars
  <2>4. DiskTypeOK' /\ HistTypeOK' /\ NothingAhead' /\ NoSilentLoss'
    BY <1>9, DiskQuiet DEF PushReturn
  <2>5. RunnerTypeOK' /\ LifeTypeOK'
    BY <1>9, SMT DEF PushReturn, Core, RunnerTypeOK, LifeTypeOK, diskVars,
       runnerVars, lifeVars, boundVars
  <2> QED
    BY <2>1, <2>2, <2>3, <2>4, <2>5 DEF Core
<1>10. ASSUME RunnerTop PROVE Core'
  <2>1. RunnerTypeOK' /\ LifeTypeOK' /\ pc' \notin Holding /\ attempt' = 0
    BY <1>10, <1>a, SMT DEF RunnerTop, Core, RunnerTypeOK, LifeTypeOK,
       AttemptsLeft, Holding, diskVars, lifeVars, boundVars
  <2> QED
    BY <1>10, <2>1, OutsideKeeps DEF RunnerTop
<1>11. ASSUME RunnerLock PROVE Core'
  <2>1. MutualExclusion'
    BY <1>11 DEF RunnerLock, Lock, Core, MutualExclusion, Writing, pushVars
  <2>2. IndicesFresh' /\ AttemptsLeft' /\ HeadDecided'
    BY <1>11, SMT DEF RunnerLock, Core, IndicesFresh, AttemptsLeft, HeadDecided,
       diskVars, pushVars
  <2>3. DiskTypeOK' /\ HistTypeOK' /\ NothingAhead' /\ NoSilentLoss'
    BY <1>11, DiskQuiet DEF RunnerLock
  <2>4. RunnerTypeOK' /\ PushTypeOK' /\ LifeTypeOK'
    BY <1>11, SMT DEF RunnerLock, Lock, Core, RunnerTypeOK, PushTypeOK,
       LifeTypeOK, Holding, diskVars, pushVars, lifeVars, boundVars
  <2> QED
    BY <2>1, <2>2, <2>3, <2>4 DEF Core
<1>12. ASSUME RunnerSetup PROVE Core'
  <2>1. ASSUME NEW e, Return(e) PROVE Core'
    BY <1>12, <2>1, ReturnKeeps DEF RunnerSetup, Holding
  <2>2. CASE pc' = "export"
    <3>1. /\ pc = "setup" /\ first <= Len(log) /\ handle' = "open"
          /\ rIdx' = first /\ wIdx' = Len(log)
          /\ UNCHANGED <<diskVars, mutex, attempt, pushVars, lifeVars,
                         histVars, boundVars>>
      BY <1>12, <2>2 DEF RunnerSetup, Return, Resume, ReadIndex
    <3>2. /\ DiskTypeOK' /\ RunnerTypeOK' /\ PushTypeOK' /\ LifeTypeOK'
          /\ HistTypeOK'
      BY <2>2, <3>1, SMT DEF Core, DiskTypeOK, RunnerTypeOK, PushTypeOK,
         LifeTypeOK, HistTypeOK, Holding, diskVars, pushVars, lifeVars,
         histVars, boundVars
    <3>3. MutualExclusion' /\ IndicesFresh' /\ AttemptsLeft'
      BY <1>a, <2>2, <3>1, SMT DEF Core, MutualExclusion, Writing,
         IndicesFresh, AttemptsLeft, Holding, diskVars, pushVars
    <3>4. NothingAhead' /\ HeadDecided' /\ NoSilentLoss'
      BY <2>2, <3>1 DEF Core, NothingAhead, HeadDecided, NoSilentLoss,
         Requests, Settled, diskVars, histVars
    <3> QED
      BY <3>2, <3>3, <3>4 DEF Core
  <2> QED
    BY <1>12, <2>1, <2>2 DEF RunnerSetup
<1>13. ASSUME RunnerExport PROVE Core'
  <2>1. /\ UNCHANGED <<diskVars, handle, mutex, rIdx, wIdx, attempt, pushVars,
                       lifeVars, last, boundVars>>
        /\ pc = "export" /\ pc' \in {"fill", "calling"}
        /\ pc' = "calling" => log[rIdx] # Empty
        /\ \/ UNCHANGED fate
           \/ fate' = fate \cup {<<rIdx, "canceled">>}
    BY <1>13 DEF RunnerExport, Conclude
  <2>2. pc' = "fill" /\ log[rIdx] # Empty => rIdx \in Settled'
    BY <1>13, ConcludeSettles DEF RunnerExport
  <2>3. rIdx = first /\ rIdx \in 1..Len(log)
    BY <2>1, SMT DEF Core, IndicesFresh, DiskTypeOK
  <2>4. HistTypeOK' /\ NothingAhead'
    BY <2>1, <2>3, SMT DEF Core, HistTypeOK, Verdict, NothingAhead, diskVars
  <2>5. HeadDecided' /\ AttemptsLeft'
    BY <2>1, <2>2, SMT DEF HeadDecided, AttemptsLeft, Core, diskVars
  <2>6. NoSilentLoss'
    BY <2>1, Zenon DEF NoSilentLoss, Core, diskVars, Requests, Settled
  <2>7. pc \in Working /\ pc' \in Working /\ attempt' \in 0..MaxAttempts
    BY <2>1 DEF Working, Core, RunnerTypeOK
  <2> QED
    BY <2>1, <2>4, <2>5, <2>6, <2>7, InsideKeeps
<1>14. ASSUME RunnerAnswer PROVE Core'
  <2>1. /\ UNCHANGED <<diskVars, handle, mutex, flush, rIdx, wIdx, event,
                       pushVars, lifeVars, boundVars>>
        /\ pc = "calling" /\ last' \in {last, rIdx}
        /\ attempt' \in {attempt, attempt + 1}
        /\ \/ pc' = "export" /\ attempt' < MaxAttempts /\ UNCHANGED fate
           \/ /\ pc' = "fill"
              /\ \E v \in Verdict : fate' = fate \cup {<<rIdx, v>>}
    BY <1>14 DEF RunnerAnswer, Conclude, RetryLater, Reached, MayHaveReached,
       Verdict
  <2>2. pc' = "fill" => rIdx \in Settled'
    BY <1>14, ConcludeSettles DEF RunnerAnswer, RetryLater
  <2>3. /\ rIdx = first /\ rIdx \in 1..Len(log) /\ wIdx = Len(log)
        /\ attempt' \in 0..MaxAttempts
    BY <1>a, <2>1, SMT DEF Core, IndicesFresh, DiskTypeOK, AttemptsLeft,
       RunnerTypeOK
  <2>4. HistTypeOK' /\ NothingAhead'
    BY <2>1, <2>3, SMT DEF Core, HistTypeOK, NothingAhead, diskVars
  <2>5. HeadDecided' /\ AttemptsLeft'
    BY <2>1, <2>2, SMT DEF HeadDecided, AttemptsLeft, Core, diskVars
  <2>6. NoSilentLoss'
    BY <2>1, Zenon DEF NoSilentLoss, Core, diskVars, Requests, Settled
  <2>7. pc \in Working /\ pc' \in Working
    BY <2>1 DEF Working
  <2> QED
    BY <2>1, <2>3, <2>4, <2>5, <2>6, <2>7, InsideKeeps
<1>15. ASSUME RunnerFill PROVE Core'
  <2>1. CASE NeedsFill /\ pc' = "truncate"
    <3>1. /\ pc = "fill" /\ wIdx' = wIdx + 1 /\ AppendEntry(Empty)
          /\ UNCHANGED <<handle, mutex, flush, rIdx, attempt, pushVars,
                         lifeVars, histVars, boundVars>>
      BY <1>15, <2>1 DEF RunnerFill, Return, Resume
    <3>2. Empty \in Entry
      BY DEF Entry
    <3>3. DiskTypeOK' /\ HistTypeOK' /\ NothingAhead' /\ NoSilentLoss'
      BY <3>1, <3>2, AppendKeeps DEF histVars
    <3>4. /\ first' = first /\ Len(log') = Len(log) + 1 /\ Len(log) \in Nat
          /\ \A i \in 1..Len(log) : log'[i] = log[i]
      BY <3>1, <3>2, AppendFacts DEF Core, DiskTypeOK
    <3>5. rIdx = first /\ wIdx = Len(log) /\ rIdx \in 1..Len(log)
      BY <3>1, SMT DEF Core, IndicesFresh, DiskTypeOK
    <3>6. PushTypeOK' /\ RunnerTypeOK' /\ LifeTypeOK'
      BY <2>1, <3>1, <3>4, <3>5, SMT DEF Core, PushTypeOK, RunnerTypeOK,
         LifeTypeOK, Holding, InCall, pushVars, lifeVars, boundVars
    <3>7. MutualExclusion' /\ \A p \in Pushers : ~Writing(p)
      BY <2>1, <3>1, SMT DEF Core, MutualExclusion, Writing, Holding, pushVars
    <3>8. IndicesFresh' /\ AttemptsLeft'
      BY <2>1, <3>1, <3>4, <3>5, <3>7, SMT DEF Core, IndicesFresh,
         AttemptsLeft, Writing, pushVars
    <3>9. HeadDecided'
      BY <2>1, <3>1, <3>4, <3>5 DEF Core, HeadDecided, Settled, histVars
    <3> QED
      BY <3>3, <3>6, <3>7, <3>8, <3>9 DEF Core
  <2>2. CASE Return("io")
    BY <1>15, <2>2, ReturnKeeps DEF RunnerFill, Holding, Core, RunnerTypeOK,
       Return, Resume
  <2>3. CASE ~NeedsFill
    <3>1. /\ pc = "fill" /\ pc' = "truncate"
          /\ UNCHANGED <<diskVars, handle, mutex, rIdx, wIdx, attempt, pushVars,
                         lifeVars, histVars, boundVars>>
      BY <1>15, <2>3 DEF RunnerFill
    <3>2. HistTypeOK' /\ NothingAhead' /\ NoSilentLoss'
      BY <3>1, DiskQuiet
    <3>3. AttemptsLeft' /\ HeadDecided'
      BY <3>1 DEF Core, AttemptsLeft, HeadDecided, Settled, diskVars, histVars
    <3>4. pc \in Working /\ pc' \in Working /\ attempt' \in 0..MaxAttempts
      BY <3>1 DEF Working, Core, RunnerTypeOK
    <3> QED
      BY <3>1, <3>2, <3>3, <3>4, InsideKeeps
  <2> QED
    BY <1>15, <2>1, <2>2, <2>3 DEF RunnerFill
<1>16. ASSUME RunnerTruncate PROVE Core'
  <2>1. CASE UNCHANGED first
    BY <1>16, <2>1, ReturnKeeps DEF RunnerTruncate, Holding, Core, RunnerTypeOK,
       diskVars
  <2>2. CASE Return("nil") /\ rIdx < wIdx /\ first' = KeepFrom
    <3>1. /\ pc = "truncate" /\ rIdx < wIdx /\ mutex' = "free"
          /\ first' = rIdx + 1 /\ pc' \in {"lock", "top"}
          /\ rIdx' = 0 /\ wIdx' = 0 /\ attempt' = 0
          /\ UNCHANGED <<log, handle, pushVars, lifeVars, histVars, boundVars>>
      BY <1>16, <2>2, SMT DEF RunnerTruncate, Return, Resume, KeepFrom
    <3>2. rIdx = first /\ wIdx = Len(log) /\ rIdx \in 1..Len(log)
      BY <3>1, SMT DEF Core, IndicesFresh, DiskTypeOK
    <3>3. NoSilentLoss'
      BY <3>1, <3>2, SMT DEF Core, NoSilentLoss, HeadDecided, Requests, Settled,
         DiskTypeOK, histVars
    <3>4. /\ DiskTypeOK' /\ RunnerTypeOK' /\ PushTypeOK' /\ LifeTypeOK'
          /\ HistTypeOK'
      BY <3>1, <3>2, <1>a, SMT DEF Core, DiskTypeOK, RunnerTypeOK, PushTypeOK,
         LifeTypeOK, HistTypeOK, pushVars, lifeVars, histVars, boundVars
    <3>5. MutualExclusion' /\ IndicesFresh' /\ AttemptsLeft'
      BY <3>1, SMT DEF Core, MutualExclusion, IndicesFresh, AttemptsLeft,
         Writing, Holding, pushVars
    <3>6. NothingAhead' /\ HeadDecided'
      BY <3>1, <3>2, SMT DEF Core, NothingAhead, HeadDecided, DiskTypeOK,
         HistTypeOK, histVars
    <3> QED
      BY <3>3, <3>4, <3>5, <3>6 DEF Core
  <2> QED
    BY <1>16, <2>1, <2>2 DEF RunnerTruncate
<1>17. ASSUME RunnerWatch PROVE Core'
  <2>1. RunnerTypeOK' /\ LifeTypeOK' /\ pc' \notin Holding /\ attempt' = 0
    BY <1>17, <1>a, SMT DEF RunnerWatch, Fault, Core, RunnerTypeOK, LifeTypeOK,
       AttemptsLeft, Holding, diskVars, lifeVars, boundVars
  <2> QED
    BY <1>17, <2>1, OutsideKeeps DEF RunnerWatch
<1>18. ASSUME RunnerWake PROVE Core'
  <2>1. RunnerTypeOK' /\ LifeTypeOK' /\ pc' \notin Holding /\ attempt' = 0
    BY <1>18, <1>a, SMT DEF RunnerWake, Fault, Core, RunnerTypeOK, LifeTypeOK,
       AttemptsLeft, Holding, diskVars, lifeVars, boundVars
  <2> QED
    BY <1>18, <2>1, OutsideKeeps DEF RunnerWake
<1>19. ASSUME Start PROVE Core'
  <2>1. RunnerTypeOK' /\ LifeTypeOK' /\ pc' \notin Holding /\ attempt' = 0
    BY <1>19, <1>a, SMT DEF Start, Fault, Core, RunnerTypeOK, LifeTypeOK,
       AttemptsLeft, Holding, diskVars, lifeVars, boundVars
  <2> QED
    BY <1>19, <2>1, OutsideKeeps DEF Start
<1>20. ASSUME ShutdownCall \/ ShutdownReturn \/ CancelCtx PROVE Core'
  <2>1. LifeTypeOK'
    BY <1>20, SMT DEF ShutdownCall, ShutdownReturn, CancelCtx, Core, LifeTypeOK,
       DiskTypeOK, diskVars, boundVars
  <2> QED
    BY <1>20, <2>1, LifeKeeps DEF ShutdownCall, ShutdownReturn, CancelCtx
<1>21. CASE UNCHANGED vars
  <2>1. LifeTypeOK'
    BY <1>21 DEF vars, Core, LifeTypeOK, lifeVars, boundVars, diskVars
  <2> QED
    BY <1>21, <2>1, LifeKeeps DEF vars
<1> QED
  BY <1>1, <1>2, <1>3, <1>4, <1>5, <1>6, <1>7, <1>8, <1>9, <1>10, <1>11, <1>12,
     <1>13, <1>14, <1>15, <1>16, <1>17, <1>18, <1>19, <1>20, <1>21
     DEF Next, PushStep, RunnerStep

(* The invariant holds at the start.                                       *)
LEMMA IInvInit == Init => IInv
<1> SUFFICES ASSUME Init PROVE IInv
  OBVIOUS
<1>1. FlagTypeOK
  BY Zenon DEF Init, FlagTypeOK
<1>2. DiskTypeOK /\ RunnerTypeOK /\ PushTypeOK /\ LifeTypeOK /\ HistTypeOK
  BY WALAssumption, SMT DEF Init, DiskTypeOK, RunnerTypeOK, PushTypeOK,
     LifeTypeOK, HistTypeOK
<1>3. MutualExclusion /\ IndicesFresh /\ AttemptsLeft
  BY SMT DEF Init, MutualExclusion, IndicesFresh, AttemptsLeft, Writing, Holding
<1>4. NothingAhead /\ HeadDecided /\ NoSilentLoss
  BY SMT DEF Init, NothingAhead, HeadDecided, NoSilentLoss, Requests
<1> QED
  BY <1>1, <1>2, <1>3, <1>4 DEF IInv, Core

(* The inductive invariant holds in every reachable state.                 *)
THEOREM Inductive == Spec => []IInv
<1>1. IInv /\ [Next]_vars => IInv'
  BY FlagsTyped, CoreKept DEF IInv
<1> QED
  BY IInvInit, <1>1, PTL DEF Spec

(* Every variable keeps its type, and attempt the bound of the retry loop. *)
THEOREM TypesHold == Spec => []TypeOK
<1>1. IInv => TypeOK
  BY DEF IInv, Core, TypeOK
<1> QED
  BY Inductive, <1>1, PTL

(* me.wal.mutex keeps the indices that PushMetrics and readWALAndExport    *)
(* have read equal to those of the log until they are used.                *)
THEOREM IndicesStayFresh == Spec => []IndicesFresh
<1>1. IInv => IndicesFresh
  BY DEF IInv, Core
<1> QED
  BY Inductive, <1>1, PTL

(* TruncateFront never removes a request whose export loop has not ended,  *)
(* whatever crashes, faults and shutdowns come between.                    *)
THEOREM NothingLostSilently == Spec => []NoSilentLoss
<1>1. IInv => NoSilentLoss
  BY DEF IInv, Core
<1> QED
  BY Inductive, <1>1, PTL

(* Cloud Monitoring receives the requests in the order of the log.         *)
THEOREM OrderKept == Spec => ReceivedInOrder
<1>1. IInv /\ [Next]_vars => [last' >= last]_vars
  <2> SUFFICES ASSUME IInv, [Next]_vars PROVE last' >= last \/ UNCHANGED vars
    OBVIOUS
  <2>1. last \in Nat /\ last <= first
    BY SMT DEF IInv, Core, HistTypeOK, NothingAhead, DiskTypeOK
  <2>2. CASE last' = last
    BY <2>1, <2>2
  <2>3. CASE RunnerAnswer /\ last' = rIdx
    BY <2>1, <2>3, SMT DEF RunnerAnswer, IInv, Core, IndicesFresh, DiskTypeOK
  <2>4. last' = last \/ (RunnerAnswer /\ last' = rIdx)
    BY DEF Next, PushStep, RunnerStep, PushCall, PushLock, PushIndex, PushPanic,
       PushWrite, PushReturn, PushError, Down, RunnerTop, RunnerLock,
       RunnerSetup, RunnerExport, RunnerAnswer, RunnerFill, RunnerTruncate,
       RunnerWatch, RunnerWake, RunnerClose, Start, ShutdownCall,
       ShutdownReturn, CancelCtx, Exit, Crash, Reached, MayHaveReached,
       histVars, vars
  <2> QED
    BY <2>2, <2>3, <2>4
<1> QED
  BY Inductive, <1>1, PTL DEF Spec, ReceivedInOrder
-----------------------------------------------------------------------------
(* The four ways a step can touch the log, what was received of it, or the *)
(* verdicts; every other step leaves all of them alone.                    *)
Appended(e) == AppendEntry(e) /\ UNCHANGED histVars

Exported ==
    /\ UNCHANGED diskVars /\ last' \in {last, first}
    /\ \E v \in Verdict : fate' \in {fate, fate \cup {<<first, v>>}}
    /\ first \in Requests

Truncated ==
    /\ first' = first + 1 /\ UNCHANGED <<log, histVars>>
    /\ first \in 1..Len(log)
    /\ log[first] # Empty => first \in Settled

(* What a step does to the log.                                            *)
LEMMA StepKinds ==
    ASSUME IInv, [Next]_vars
    PROVE  \/ UNCHANGED <<diskVars, histVars>>
           \/ Appended(Empty)
           \/ \E p \in Pushers : Appended(<<p, batch[p]>>)
           \/ Exported \/ Truncated
<1>1. ASSUME NEW p \in Pushers, PushWrite(p)
      PROVE  UNCHANGED <<diskVars, histVars>> \/ Appended(<<p, batch[p]>>)
  BY <1>1 DEF PushWrite, PushError, Appended, histVars
<1>2. CASE RunnerFill
  BY <1>2 DEF RunnerFill, Appended, diskVars, AppendEntry, Return
<1>3. pc \in {"export", "calling", "truncate"} =>
          rIdx = first /\ wIdx = Len(log) /\ first \in 1..Len(log)
  BY SMT DEF IInv, Core, IndicesFresh, DiskTypeOK
<1>4. CASE RunnerExport
  <2>1. CASE log[rIdx] = Empty \/ UNCHANGED fate
    BY <1>4, <2>1 DEF RunnerExport, histVars
  <2>2. CASE log[rIdx] # Empty /\ Conclude("canceled")
    BY <1>3, <1>4, <2>2 DEF RunnerExport, Conclude, Exported, Requests, Verdict
  <2> QED
    BY <1>4, <2>1, <2>2 DEF RunnerExport
<1>5. CASE RunnerAnswer
  <2>1. pc = "calling" /\ UNCHANGED diskVars /\ last' \in {last, rIdx}
    BY <1>5 DEF RunnerAnswer, Reached, MayHaveReached
  <2>2. \E v \in Verdict : fate' \in {fate, fate \cup {<<rIdx, v>>}}
    BY <1>5 DEF RunnerAnswer, RetryLater, Conclude, Verdict
  <2>3. first \in Requests
    BY <1>3, <2>1 DEF IInv, Core, AttemptsLeft, Requests
  <2> QED
    BY <1>3, <2>1, <2>2, <2>3 DEF Exported
<1>6. CASE RunnerTruncate
  <2>1. CASE first' = first
    BY <1>6, <2>1 DEF RunnerTruncate, diskVars
  <2>2. CASE first' = KeepFrom
    BY <1>3, <1>6, <2>2 DEF RunnerTruncate, KeepFrom, Truncated, IInv, Core,
       HeadDecided
  <2> QED
    BY <1>6, <2>1, <2>2 DEF RunnerTruncate
<1> QED
  BY <1>1, <1>2, <1>4, <1>5, <1>6
  DEF Next, PushStep, RunnerStep, PushCall, PushLock, PushIndex, PushPanic,
      PushReturn, PushError, Down, OnDisk, RunnerTop, RunnerLock, RunnerSetup,
      RunnerWatch, RunnerWake, RunnerClose, Start, ShutdownCall,
      ShutdownReturn, CancelCtx, Exit, Crash, vars

(* The log of requests is the outbox of WALOutbox: accepted in order, sent *)
(* from the oldest, and retired one by one once settled.                   *)
THEOREM ImplementsOutbox == Spec => OutboxSpec
<1>1. Init => Outbox!Init
  BY SMT DEF Init, Outbox!Init, Requests, Settled, Pending
<1>2. ASSUME IInv, [Next]_vars PROVE [Outbox!Next]_Outbox!vars
  <2> USE DEF Outbox!vars
  <2>0. DiskTypeOK
    BY <1>2 DEF IInv, Core
  <2>1. CASE UNCHANGED <<diskVars, histVars>>
    BY <2>1 DEF diskVars, histVars, Requests, Settled, Pending
  <2>2. ASSUME Appended(Empty) PROVE UNCHANGED Outbox!vars
    <3>1. Empty \in Entry /\ AppendEntry(Empty) /\ UNCHANGED <<last, fate>>
      BY <2>2 DEF Entry, Appended, histVars
    <3>2. /\ first' = first /\ Len(log') = Len(log) + 1 /\ Len(log) \in Nat
          /\ \A i \in 1..Len(log) : log'[i] = log[i]
          /\ log'[Len(log) + 1] = Empty
      BY <2>0, <3>1, AppendFacts DEF DiskTypeOK
    <3>3. Requests' = Requests
      BY <3>2, SMT DEF Requests
    <3> QED
      BY <3>1, <3>2, <3>3 DEF Settled, Pending
  <2>3. ASSUME NEW p \in Pushers, Appended(<<p, batch[p]>>) PROVE Outbox!Next
    <3> DEFINE i == Len(log) + 1
    <3>1. /\ <<p, batch[p]>> \in Entry /\ <<p, batch[p]>> # Empty
          /\ AppendEntry(<<p, batch[p]>>) /\ UNCHANGED <<last, fate>>
      BY <1>2, <2>3, WALAssumption DEF Entry, Appended, histVars, IInv, Core,
         PushTypeOK
    <3>2. /\ first' = first /\ Len(log') = Len(log) + 1 /\ Len(log) \in Nat
          /\ \A j \in 1..Len(log) : log'[j] = log[j]
          /\ log'[Len(log) + 1] = <<p, batch[p]>>
      BY <2>0, <3>1, AppendFacts DEF DiskTypeOK
    <3>3. Requests' = Requests \cup {i} /\ i \in Nat /\ \A j \in Requests : j < i
      BY <3>1, <3>2, SMT DEF Requests
    <3>4. i >= first' /\ first \in Nat
      BY <2>0, <3>2, SMT DEF DiskTypeOK
    <3>5. Pending' = Pending \cup {i}
      BY <3>2, <3>3, <3>4, SMT DEF Pending
    <3>6. Outbox!Accept(i)
      BY <3>1, <3>3, <3>5 DEF Outbox!Accept, Pending, Settled
    <3>7. i \in Requests' \ Requests
      BY <3>3, SMT
    <3> QED
      BY <3>6, <3>7 DEF Outbox!Next
  <2>4. ASSUME Exported PROVE Outbox!Next
    <3>1. Outbox!Oldest(first)
      BY <2>0, <2>4, SMT DEF Outbox!Oldest, Exported, DiskTypeOK, Requests,
           Pending
    <3>2. Settled' \in {Settled, Settled \cup {first}}
      <4>1. PICK v \in Verdict : fate' \in {fate, fate \cup {<<first, v>>}}
        BY <2>4 DEF Exported
      <4>2. <<first, v>>[1] = first
        OBVIOUS
      <4> QED
        BY <4>1, <4>2 DEF Settled
    <3>3. Outbox!Send(first)
      BY <2>4, <3>1, <3>2 DEF Outbox!Send, Exported, diskVars, Requests,
           Pending
    <3> QED
      BY <3>1, <3>3 DEF Outbox!Next, Outbox!Oldest
  <2>5. ASSUME Truncated PROVE [Outbox!Next]_Outbox!vars
    <3>1. Requests' = Requests /\ Settled' = Settled /\ last' = last
      BY <2>5 DEF Truncated, Requests, Settled, histVars
    <3>2. Pending' = Pending \ {first}
      BY <2>0, <2>5, <3>1, SMT DEF Pending, Truncated, Requests, DiskTypeOK
    <3>3. CASE log[first] = Empty
      BY <2>5, <3>1, <3>2, <3>3, SMT DEF Pending, Requests
    <3>4. CASE log[first] # Empty
      <4>1. Outbox!Oldest(first)
        BY <2>0, <2>5, <3>4, SMT DEF Outbox!Oldest, Truncated, DiskTypeOK, Requests,
           Pending
      <4>2. Outbox!Retire(first)
        BY <2>5, <3>1, <3>2, <3>4, <4>1 DEF Outbox!Retire, Truncated, Pending
      <4> QED
        BY <4>1, <4>2 DEF Outbox!Next, Outbox!Oldest
    <3> QED
      BY <3>3, <3>4
  <2> QED
    BY <1>2, <2>1, <2>2, <2>3, <2>4, <2>5, StepKinds
<1> QED
  BY <1>1, <1>2, Inductive, PTL DEF Spec, OutboxSpec, Outbox!Spec
----------------------------------------------------------------------------
(* What the write-ahead log delivers: a push that returned nil is whole,   *)
(* an acknowledged request is not exported again, and the flush at         *)
(* shutdown is complete.  They rest on IInv, strengthened by DInv.         *)

(* The runner works on an open log; setupWAL leaves a nil log behind only  *)
(* when it has failed.                                                     *)
LogOpen ==
    /\ pc \in Working => handle = "open"
    /\ pc # "down" /\ handle = "nil" => faults > 0

(* Only requests get verdicts; one that is about to be truncated has the   *)
(* empty entry behind it; and one that was acknowledged is being truncated *)
(* unless something failed.                                                *)
RealVerdicts == \A f \in fate : log[f[1]] # Empty
FilledBehind == pc = "truncate" /\ log[rIdx] # Empty => rIdx < wIdx
HeadAcked == <<first, "acked">> \in fate
AckedLeaves == HeadAcked => pc \in {"fill", "truncate"} \/ crashes + faults > 0

(* A push that has met no error has its batches so far at the end of the   *)
(* log.  Clean is a set because no one prover handles the Booleans of perr *)
(* together with the indices.                                              *)
Clean == {p \in Pushers : ~perr[p]}
AtEnd(p, n) == n <= Len(log) /\ \A k \in 1..n : log[Len(log) - n + k] = <<p, k>>
WholeSoFar ==
    \A p \in Pushers : Writing(p) =>
        batch[p] > 0 /\ (p \in Clean => AtEnd(p, batch[p] - 1))

(* The runner is in its final loop only after shutdownC was closed, and    *)
(* leaves it when the log has nothing left of what it had then.            *)
Flushing == flush => stop # "no"
Flushed ==
    pc \in {"closing", "done"} /\ faults = 0 /\ ~ctxDone =>
        stop # "no" /\ \A i \in first..mark : log[i] = Empty

DInv ==
    /\ LogOpen /\ RealVerdicts /\ FilledBehind /\ AckedLeaves
    /\ WholeSoFar /\ OkPushIsWhole /\ Flushing /\ Flushed
-----------------------------------------------------------------------------
(* Crashes and faults are only counted up.                                 *)
LEMMA Counted ==
    ASSUME IInv, [Next]_vars
    PROVE  /\ crashes \in Nat /\ faults \in Nat
           /\ crashes' \in {crashes, crashes + 1} /\ faults' \in {faults, faults + 1}
<1>1. crashes \in Nat /\ faults \in Nat
  BY WALAssumption, SMT DEF IInv, Core, LifeTypeOK
<1>2. crashes' \in {crashes, crashes + 1} /\ faults' \in {faults, faults + 1}
  BY DEF Next, PushStep, RunnerStep, PushCall, PushLock, PushIndex, PushPanic,
     PushWrite, PushReturn, PushError, RunnerTop, RunnerLock, RunnerSetup,
     RunnerExport, RunnerAnswer, RunnerFill, RunnerTruncate, RunnerWatch,
     RunnerWake, RunnerClose, Start, ShutdownCall, ShutdownReturn, CancelCtx,
     Exit, Crash, Fault, boundVars, vars
<1> QED
  BY <1>1, <1>2

(* The log stays open while the runner works on it.                        *)
LEMMA LogOpenKept ==
    ASSUME IInv, LogOpen, [Next]_vars
    PROVE  LogOpen'
<1>1. faults \in Nat /\ faults' \in {faults, faults + 1}
  BY Counted
<1>2. CASE pc' = "down"
  BY <1>2 DEF LogOpen, Working
<1>3. CASE RunnerSetup
  BY <1>1, <1>3, SMT DEF RunnerSetup, Return, Resume, Fault, LogOpen, Working
<1>4. CASE Start
  BY <1>2, <1>4 DEF Start, LogOpen, Working
<1>5. CASE RunnerClose
  BY <1>2, <1>5 DEF RunnerClose, Down, LogOpen, Working
<1>6. CASE /\ handle' = handle /\ pc # "down"
           /\ pc' \in Working => pc \in Working
  BY <1>1, <1>6, SMT DEF LogOpen
<1>7. CASE handle' = handle /\ pc' = pc
  BY <1>1, <1>7, SMT DEF LogOpen
<1> QED
  BY <1>2, <1>3, <1>4, <1>5, <1>6, <1>7
     DEF Next, PushStep, RunnerStep, PushCall, PushLock, PushIndex, PushPanic,
         PushWrite, PushReturn, PushError, Down, RunnerTop, RunnerLock,
         RunnerExport, RunnerAnswer, RetryLater, Conclude, RunnerFill,
         RunnerTruncate, Return, Resume, RunnerWatch, RunnerWake, ShutdownCall,
         ShutdownReturn, CancelCtx, Exit, Crash, Working, runnerVars, vars

(* Nothing in the log is overwritten.                                      *)
LEMMA LogGrows ==
    ASSUME IInv, [Next]_vars
    PROVE  /\ Len(log) \in Nat /\ Len(log') \in Nat /\ Len(log') >= Len(log)
           /\ \A i \in 1..Len(log) : log'[i] = log[i]
<1>1. DiskTypeOK
  BY DEF IInv, Core
<1>2. ASSUME NEW e \in Entry, Appended(e)
      PROVE  /\ Len(log') = Len(log) + 1
             /\ \A i \in 1..Len(log) : log'[i] = log[i]
  BY <1>1, <1>2, AppendFacts DEF Appended
<1>4. ASSUME Appended(Empty)
      PROVE  Len(log') = Len(log) + 1 /\ \A i \in 1..Len(log) : log'[i] = log[i]
  BY <1>2, <1>4 DEF Entry
<1>5. ASSUME NEW p \in Pushers, Appended(<<p, batch[p]>>)
      PROVE  Len(log') = Len(log) + 1 /\ \A i \in 1..Len(log) : log'[i] = log[i]
  <2>1. <<p, batch[p]>> \in Entry
    BY DEF IInv, Core, PushTypeOK, Entry
  <2> QED
    BY <1>2, <1>5, <2>1
<1> QED
  <2>1. \/ UNCHANGED log \/ Appended(Empty)
        \/ \E p \in Pushers : Appended(<<p, batch[p]>>)
    BY StepKinds DEF Exported, Truncated, diskVars
  <2>2. \/ UNCHANGED log
        \/ Len(log') = Len(log) + 1 /\ \A i \in 1..Len(log) : log'[i] = log[i]
    BY <1>4, <1>5, <2>1
  <2>3. Len(log) \in Nat
    BY <1>1 DEF DiskTypeOK
  <2> QED
    BY <2>2, <2>3, SMT

(* Verdicts stay those of requests that were sent.                         *)
LEMMA RealVerdictsKept ==
    ASSUME IInv, RealVerdicts, [Next]_vars
    PROVE  RealVerdicts'
<1>1. \A i \in 1..Len(log) : log'[i] = log[i]
  BY LogGrows
<1>2. \A f \in fate : f[1] \in 1..Len(log)
  BY DEF IInv, Core, HistTypeOK
<1>3. CASE UNCHANGED histVars
  BY <1>1, <1>2, <1>3 DEF RealVerdicts, histVars
<1>4. CASE Exported
  <2>1. PICK v \in Verdict : fate' \in {fate, fate \cup {<<first, v>>}}
    BY <1>4 DEF Exported
  <2>2. log[first] # Empty /\ UNCHANGED log
    BY <1>4 DEF Exported, Requests, diskVars
  <2> QED
    BY <2>1, <2>2 DEF RealVerdicts
<1> QED
  BY <1>3, <1>4, StepKinds DEF Appended, Truncated

(* The log stays filled behind an entry that has its verdict.              *)
LEMMA FilledBehindKept ==
    ASSUME IInv, FilledBehind, [Next]_vars
    PROVE  FilledBehind'
<1>1. pc \in Working => rIdx = first /\ wIdx = Len(log) /\ rIdx \in 1..Len(log)
  BY SMT DEF IInv, Core, IndicesFresh, DiskTypeOK, Working
<1>2. CASE RunnerFill
  BY <1>1, <1>2, SMT DEF RunnerFill, NeedsFill, Return, Resume, diskVars,
     AppendEntry, FilledBehind, Working
<1>3. CASE UNCHANGED <<log, pc, rIdx, wIdx>>
  BY <1>3 DEF FilledBehind
<1>4. CASE pc' # "truncate"
  BY <1>4 DEF FilledBehind
<1>5. ASSUME NEW p \in Pushers, PushWrite(p) PROVE pc' # "truncate"
  BY <1>5 DEF PushWrite, PushError, runnerVars, IInv, Core, MutualExclusion,
     Writing, Holding
<1> QED
  BY <1>2, <1>3, <1>4, <1>5
     DEF Next, PushStep, RunnerStep, PushCall, PushLock, PushIndex, PushPanic,
         PushReturn, PushError, Down, RunnerTop, RunnerLock, RunnerSetup,
         RunnerExport, RunnerAnswer, RetryLater, Conclude, RunnerTruncate,
         Return, Resume, RunnerWatch, RunnerWake, RunnerClose, Start,
         ShutdownCall, ShutdownReturn, CancelCtx, Exit, Crash, diskVars,
         runnerVars, vars

(* An acknowledged request leaves, at each step.                           *)
LEMMA AckedLeavesKept ==
    ASSUME IInv, LogOpen, RealVerdicts, FilledBehind, AckedLeaves, [Next]_vars
    PROVE  AckedLeaves'
<1>0. /\ crashes \in Nat /\ faults \in Nat
      /\ crashes' \in {crashes, crashes + 1} /\ faults' \in {faults, faults + 1}
  BY Counted
<1>1. /\ crashes + faults > 0 => crashes' + faults' > 0
      /\ crashes' = crashes + 1 \/ faults' = faults + 1 => crashes' + faults' > 0
  <2>1. (crashes' = crashes \/ crashes' = crashes + 1) /\ (faults' = faults \/ faults' = faults + 1)
    BY <1>0
  <2>2. crashes \in Nat /\ faults \in Nat
    BY <1>0
  <2> QED
    BY <2>1, <2>2, SMT
<1>2. /\ pc \in Working => rIdx = first /\ wIdx = Len(log)
      /\ first \in Nat /\ \A f \in fate : f[1] <= first
  BY SMT DEF IInv, Core, IndicesFresh, DiskTypeOK, Working, NothingAhead
<1>3. CASE RunnerExport \/ RunnerAnswer
  <2>1. CASE pc' = "fill"
    BY <2>1 DEF AckedLeaves
  <2>2. CASE UNCHANGED fate
    <3>1. (HeadAcked' <=> HeadAcked) /\ pc \notin {"fill", "truncate"}
      BY <1>3, <2>2 DEF RunnerExport, RunnerAnswer, HeadAcked, diskVars
    <3>2. UNCHANGED <<crashes, faults>>
      BY <1>3 DEF RunnerExport, RunnerAnswer, boundVars
    <3> QED
      BY <3>1, <3>2 DEF AckedLeaves
  <2> QED
    BY <1>3, <2>1, <2>2 DEF RunnerExport, RunnerAnswer, RetryLater, Conclude
<1>4. CASE RunnerFill
  <2>1. pc = "fill" => CanWrite(wIdx + 1)
    BY <1>2 DEF LogOpen, CanWrite, Working
  <2>2. HeadAcked' <=> HeadAcked
    BY <1>4 DEF RunnerFill, HeadAcked, AppendEntry, diskVars, histVars
  <2>3. pc' = "truncate" \/ faults' = faults + 1
    BY <1>4, <2>1 DEF RunnerFill, Fault
  <2> QED
    BY <1>1, <2>2, <2>3 DEF AckedLeaves
<1>5. CASE RunnerTruncate
  <2>1. CASE rIdx >= wIdx
    <3>1. log[first] = Empty
      BY <1>2, <1>5, <2>1, SMT DEF RunnerTruncate, FilledBehind, Working,
         IInv, Core, DiskTypeOK
    <3>2. ~HeadAcked
      BY <3>1 DEF HeadAcked, RealVerdicts
    <3>3. UNCHANGED <<first, fate>> \/ Fault \/ first' = KeepFrom
      BY <1>5 DEF RunnerTruncate, histVars
    <3>4. ~(first' = KeepFrom /\ ~UNCHANGED first)
      BY <1>2, <1>5, <2>1, SMT DEF RunnerTruncate, Working, IInv, Core, DiskTypeOK
    <3> QED
      BY <1>5, <3>2, <3>4 DEF RunnerTruncate, AckedLeaves, HeadAcked, histVars
  <2>2. CASE first' = KeepFrom
    <3>1. ~HeadAcked'
      <4>1. first' \in Nat /\ first' > first
        BY <1>2, <1>5, <2>2, SMT DEF RunnerTruncate, KeepFrom, Working
      <4>2. \A f \in fate : f[1] # first'
        BY <1>2, <4>1, SMT DEF IInv, Core, HistTypeOK
      <4> QED
        BY <1>5, <4>2 DEF HeadAcked, RunnerTruncate, histVars
    <3> QED
      BY <3>1 DEF AckedLeaves
  <2>3. CASE Fault
    BY <1>1, <2>3 DEF Fault, AckedLeaves
  <2> QED
    BY <1>5, <2>1, <2>2, <2>3 DEF RunnerTruncate
<1>6. CASE /\ UNCHANGED <<first, fate>>
           /\ pc \in {"fill", "truncate"} => pc' = pc \/ crashes' = crashes + 1
  <2>1. HeadAcked' <=> HeadAcked
    BY <1>6 DEF HeadAcked
  <2> QED
    BY <1>1, <1>6, <2>1 DEF AckedLeaves
<1>7. ASSUME NEW p \in Pushers, PushPanic(p)
      PROVE  UNCHANGED <<first, fate>> /\ pc \notin {"fill", "truncate"}
  BY <1>7 DEF PushPanic, Down, OnDisk, diskVars, histVars, IInv, Core,
     MutualExclusion, Writing, Holding
<1> QED
  BY <1>3, <1>4, <1>5, <1>6, <1>7
     DEF Next, PushStep, RunnerStep, PushCall, PushLock, PushIndex, PushWrite,
         AppendEntry, PushReturn, PushError, Down, OnDisk, RunnerTop, RunnerLock,
         RunnerSetup, RunnerWatch, RunnerWake, RunnerClose, Start, ShutdownCall,
         ShutdownReturn, CancelCtx, Exit, Crash, diskVars, runnerVars, histVars,
         vars
-----------------------------------------------------------------------------
(* A push without an error stays whole, at each step.                      *)
LEMMA WholeSoFarKept ==
    ASSUME IInv, WholeSoFar, [Next]_vars
    PROVE  WholeSoFar'
<1>1. /\ Len(log) \in Nat
      /\ batch \in [Pushers -> Nat] /\ DOMAIN ppc = Pushers
      /\ \A p, q \in Pushers : Writing(p) /\ Writing(q) => p = q
      /\ pc \in Holding => \A p \in Pushers : ~Writing(p)
  BY DEF IInv, Core, DiskTypeOK, PushTypeOK, MutualExclusion
<1>2. CASE UNCHANGED <<log, ppc, batch, perr>>
  BY <1>2 DEF WholeSoFar, Writing, Clean, AtEnd
<1>3. CASE \A p \in Pushers : ~Writing(p)'
  BY <1>3 DEF WholeSoFar
<1>4. CASE Down
  BY <1>3, <1>4 DEF Down, Writing, InCall
<1>5. CASE RunnerFill
  BY <1>1, <1>3, <1>5 DEF RunnerFill, Writing, Holding, pushVars
<1>6. ASSUME NEW p \in Pushers, PushCall(p) PROVE WholeSoFar'
  <2>1. UNCHANGED <<log, batch>> /\ Clean' = Clean
    BY <1>6 DEF PushCall, Clean, diskVars
  <2>2. \A q \in Pushers : Writing(q)' => Writing(q)
    BY <1>1, <1>6 DEF PushCall, Writing
  <2> QED
    BY <2>1, <2>2 DEF WholeSoFar, AtEnd
<1>7. ASSUME NEW p \in Pushers, PushLock(p) PROVE WholeSoFar'
  <2>1. UNCHANGED log /\ Clean' = Clean /\ batch' = [batch EXCEPT ![p] = 1]
    BY <1>7 DEF PushLock, Clean, diskVars
  <2>2. \A q \in Pushers : q # p => (Writing(q)' => Writing(q)) /\ batch'[q] = batch[q]
    BY <1>1, <1>7, <2>1 DEF PushLock, Writing
  <2>3. batch'[p] = 1 /\ AtEnd(p, 0)
    BY <1>1, <2>1, SMT DEF AtEnd
  <2>4. AtEnd(p, batch[p] - 1)'
    BY <2>1, <2>3 DEF AtEnd
  <2>5. batch'[p] > 0
    BY <2>3, SMT
  <2>6. ASSUME NEW q \in Pushers, q # p, Writing(q)'
        PROVE  batch'[q] > 0 /\ (q \in Clean' => AtEnd(q, batch[q] - 1)')
    BY <2>1, <2>2, <2>6 DEF WholeSoFar, AtEnd
  <2> QED
    BY <2>4, <2>5, <2>6 DEF WholeSoFar
<1>8. ASSUME NEW p \in Pushers, PushError(p), Writing(p) PROVE WholeSoFar'
  <2>1. p \notin Clean'
    BY <1>8, Zenon DEF PushError, Collect, Clean, IInv, FlagTypeOK
  <2>2. batch'[p] > 0
    BY <1>1, <1>8, SMT DEF PushError
  <2>3. \A q \in Pushers : q # p => ~Writing(q)'
    BY <1>1, <1>8 DEF PushError, Writing
  <2> QED
    BY <2>1, <2>2, <2>3 DEF WholeSoFar
<1>9. ASSUME NEW p \in Pushers, PushIndex(p) PROVE WholeSoFar'
  <2>1. CASE PushError(p)
    BY <1>8, <1>9, <2>1 DEF PushIndex, Writing
  <2>2. CASE ~PushError(p)
    <3>1. UNCHANGED <<log, batch>> /\ Clean' = Clean
      BY <1>9, <2>2 DEF PushIndex, Clean, diskVars
    <3>2. \A q \in Pushers : Writing(q)' => Writing(q)
      BY <1>1, <1>9, <2>2 DEF PushIndex, Writing
    <3> QED
      BY <3>1, <3>2 DEF WholeSoFar, AtEnd
  <2> QED
    BY <2>1, <2>2
<1>10. ASSUME NEW p \in Pushers, PushWrite(p) PROVE WholeSoFar'
  <2>1. CASE PushError(p)
    BY <1>8, <1>10, <2>1 DEF PushWrite, Writing
  <2>2. CASE ~PushError(p)
    <3>1. /\ AppendEntry(<<p, batch[p]>>) /\ batch' = [batch EXCEPT ![p] = @ + 1]
          /\ ppc' = [ppc EXCEPT ![p] = "index"] /\ perr' = perr /\ Writing(p)
      BY <1>10, <2>2 DEF PushWrite, Writing
    <3>2. <<p, batch[p]>> \in Entry /\ DiskTypeOK
      BY <1>1 DEF Entry, IInv, Core
    <3>3. /\ Len(log') = Len(log) + 1 /\ log'[Len(log) + 1] = <<p, batch[p]>>
          /\ \A i \in 1..Len(log) : log'[i] = log[i]
      BY <3>1, <3>2, AppendFacts
    <3>4. batch[p] \in Nat /\ batch'[p] = batch[p] + 1
      BY <1>1, <3>1
    <3>5. ASSUME p \in Clean' PROVE AtEnd(p, batch[p] - 1)
      <4>1. p \in Clean
        BY <3>1, <3>5 DEF Clean
      <4> QED
        BY <3>1, <4>1 DEF WholeSoFar
    <3>6. batch[p] > 0
      BY <3>1 DEF WholeSoFar
    <3>7. ASSUME p \in Clean' PROVE AtEnd(p, batch[p] - 1)'
      <4>1. /\ batch[p] - 1 <= Len(log)
            /\ \A k \in 1..(batch[p] - 1) : log[Len(log) - (batch[p] - 1) + k] = <<p, k>>
        BY <3>5, <3>7 DEF AtEnd
      <4>2. batch[p] <= Len(log')
        BY <1>1, <3>3, <3>4, <4>1, SMT
      <4>3. ASSUME NEW k \in 1..batch[p] PROVE log'[Len(log') - batch[p] + k] = <<p, k>>
        <5>1. CASE k = batch[p]
          <6>1. Len(log') - batch[p] + k = Len(log) + 1
            BY <1>1, <3>3, <3>4, <5>1, SMT
          <6> QED
            BY <3>3, <5>1, <6>1
        <5>2. CASE k # batch[p]
          <6> DEFINE i == Len(log) - (batch[p] - 1) + k
          <6>1. k \in 1..(batch[p] - 1) /\ i \in 1..Len(log)
            BY <1>1, <3>4, <3>6, <4>1, <5>2, SMT
          <6>2. Len(log') - batch[p] + k = i
            BY <1>1, <3>3, <3>4, SMT
          <6>3. log'[i] = <<p, k>>
            BY <3>3, <4>1, <6>1
          <6> QED
            BY <6>2, <6>3
        <5> QED
          BY <5>1, <5>2
      <4>4. batch'[p] - 1 = batch[p]
        BY <3>4, SMT
      <4> QED
        BY <4>2, <4>3, <4>4 DEF AtEnd
    <3>8. \A q \in Pushers : q # p => ~Writing(q)'
      BY <1>1, <3>1 DEF Writing
    <3>9. batch'[p] > 0
      BY <3>4, SMT
    <3> QED
      BY <3>7, <3>8, <3>9 DEF WholeSoFar, AtEnd
  <2> QED
    BY <2>1, <2>2
<1>11. ASSUME NEW p \in Pushers, PushReturn(p) PROVE WholeSoFar'
  <2>1. \A q \in Pushers : ~Writing(q)'
    BY <1>1, <1>11 DEF PushReturn, Writing
  <2> QED
    BY <1>3, <2>1
<1> QED
  BY <1>2, <1>4, <1>5, <1>6, <1>7, <1>9, <1>10, <1>11
     DEF Next, PushStep, RunnerStep, PushPanic, RunnerTop, RunnerLock,
         RunnerSetup, RunnerExport, RunnerAnswer, RunnerTruncate, RunnerWatch,
         RunnerWake, RunnerClose, Start, ShutdownCall, ShutdownReturn, CancelCtx,
         Exit, Crash, diskVars, pushVars, vars

(* A push that returned nil stays whole.                                   *)
LEMMA OkPushIsWholeKept ==
    ASSUME IInv, WholeSoFar, OkPushIsWhole, [Next]_vars
    PROVE  OkPushIsWhole'
<1> SUFFICES ASSUME NEW p \in Pushers, ppc'[p] = "ok"
             PROVE  \E i \in 0..Len(log') : \A k \in 1..BatchesOf[p] :
                        i + k <= Len(log') /\ log'[i + k] = <<p, k>>
  BY DEF OkPushIsWhole
<1>1. /\ Len(log) \in Nat /\ Len(log') \in Nat /\ Len(log') >= Len(log)
      /\ \A i \in 1..Len(log) : log'[i] = log[i]
  BY LogGrows
<1>2. BatchesOf[p] \in Nat
  BY WALAssumption
<1>3. \E i \in 0..Len(log) : \A k \in 1..BatchesOf[p] :
          i + k <= Len(log) /\ log[i + k] = <<p, k>>
  <2>1. CASE ppc[p] = "ok"
    BY <2>1 DEF OkPushIsWhole
  <2>2. CASE PushReturn(p) /\ ppc[p] # "ok"
    <3>1. Writing(p) /\ batch[p] > BatchesOf[p]
      BY <2>2 DEF PushReturn, Writing
    <3>2. ~perr[p]
      BY <2>2, Zenon DEF PushReturn, IInv, Core, PushTypeOK
    <3>3. AtEnd(p, batch[p] - 1)
      BY <3>1, <3>2 DEF WholeSoFar, Clean
    <3>4. batch[p] \in Nat
      BY DEF IInv, Core, PushTypeOK
    <3> DEFINE i == Len(log) - (batch[p] - 1)
    <3>5. i \in 0..Len(log)
      BY <1>1, <1>2, <3>1, <3>3, <3>4, SMT DEF AtEnd
    <3>6. ASSUME NEW k \in 1..BatchesOf[p] PROVE i + k <= Len(log) /\ log[i + k] = <<p, k>>
      <4>1. k \in 1..(batch[p] - 1) /\ i + k <= Len(log)
        BY <1>1, <1>2, <3>1, <3>4, SMT
      <4> QED
        BY <3>3, <4>1 DEF AtEnd
    <3> QED
      BY <3>5, <3>6
  <2>3. ppc[p] = "ok" \/ PushReturn(p)
    BY ZenonT(30) DEF Next, PushStep, RunnerStep, PushCall, PushLock, PushIndex, PushPanic,
       PushWrite, PushReturn, PushError, Down, RunnerTop, RunnerLock, RunnerSetup,
       RunnerExport, RunnerAnswer, RunnerFill, RunnerTruncate, RunnerWatch,
       RunnerWake, RunnerClose, Start, ShutdownCall, ShutdownReturn, CancelCtx,
       Exit, Crash, pushVars, vars, IInv, Core, PushTypeOK
  <2> QED
    BY <2>1, <2>2, <2>3
<1> QED
  <2>1. PICK i \in 0..Len(log) : \A k \in 1..BatchesOf[p] :
            i + k <= Len(log) /\ log[i + k] = <<p, k>>
    BY <1>3
  <2>2. \A k \in 1..BatchesOf[p] : i + k \in 1..Len(log) /\ i + k <= Len(log')
    BY <1>1, <1>2, <2>1, SMT
  <2>3. i \in 0..Len(log')
    BY <1>1, <2>1, SMT
  <2> QED
    BY <1>1, <2>1, <2>2, <2>3

(* The final loop is run only after shutdownC was closed.                  *)
LEMMA FlushingKept == Flushing /\ [Next]_vars => Flushing'
  BY Zenon DEF Next, PushStep, RunnerStep, PushCall, PushLock, PushIndex, PushPanic,
     PushWrite, PushReturn, PushError, Down, RunnerTop, RunnerLock, RunnerSetup,
     RunnerExport, RunnerAnswer, RunnerFill, RunnerTruncate, Return, RunnerWatch,
     RunnerWake, RunnerClose, Start, ShutdownCall, ShutdownReturn, CancelCtx,
     Exit, Crash, lifeVars, runnerVars, vars, Flushing

(* A log that was flushed to its end stays so.                             *)
LEMMA FlushedKept ==
    ASSUME IInv, LogOpen, FilledBehind, Flushing, Flushed, [Next]_vars
    PROVE  Flushed'
<1>1. /\ Len(log) \in Nat /\ first \in Nat /\ mark \in 0..Len(log)
      /\ pc \in Working => rIdx = first /\ wIdx = Len(log)
      /\ faults \in Nat
  BY Counted, SMT DEF IInv, Core, DiskTypeOK, LifeTypeOK, IndicesFresh, Working
<1>2. Fault => faults' # 0
  BY <1>1, SMT DEF Fault
<1>3. CASE faults' # 0 \/ pc' \notin {"closing", "done"} \/ ctxDone'
  BY <1>3 DEF Flushed
<1>4. CASE RunnerTop
  BY <1>3, <1>4 DEF RunnerTop, lifeVars

(* The final loop ends at the end of the log.                              *)
<1>5. CASE RunnerSetup
  <2>1. CASE first > Len(log) /\ Return("ErrNotFound") /\ flush
    <3>1. UNCHANGED <<mark, first, stop>>
      BY <1>5 DEF RunnerSetup, lifeVars, diskVars
    <3>2. \A i \in first'..mark' : FALSE
      BY <1>1, <2>1, <3>1, SMT
    <3> QED
      BY <2>1, <3>1, <3>2 DEF Flushed, Flushing
  <2>2. CASE ~flush
    BY <1>3, <1>5, <2>2 DEF RunnerSetup, Return, Resume
  <2>3. CASE Fault \/ pc' = "export"
    BY <1>2, <1>3, <2>3
  <2> QED
    BY <1>5, <2>1, <2>2, <2>3 DEF RunnerSetup
<1>6. CASE RunnerFill
  <2>1. pc = "fill" => CanWrite(wIdx + 1)
    BY <1>1 DEF LogOpen, CanWrite, Working
  <2> QED
    BY <1>2, <1>3, <1>6, <2>1 DEF RunnerFill
<1>7. CASE RunnerTruncate
  <2>1. CASE rIdx >= wIdx /\ Return("ErrNotFound") /\ flush
    <3>1. UNCHANGED <<log, mark, stop>> /\ first' = first
      BY <1>1, <1>7, <2>1, SMT DEF RunnerTruncate, lifeVars, Working
    <3>2. log[first] = Empty
      BY <1>1, <1>7, <2>1, SMT DEF RunnerTruncate, FilledBehind, Working
    <3>3. \A i \in first..mark : i = first
      BY <1>1, <1>7, <2>1, SMT DEF RunnerTruncate, Working
    <3> QED
      BY <2>1, <3>1, <3>2, <3>3 DEF Flushed, Flushing
  <2>2. CASE ~flush
    BY <1>3, <1>7, <2>2 DEF RunnerTruncate, Return, Resume
  <2>3. CASE Fault \/ Return("nil")
    BY <1>2, <1>3, <2>3 DEF Return, Resume
  <2> QED
    BY <1>7, <2>1, <2>2, <2>3 DEF RunnerTruncate
<1>8. CASE /\ pc \in {"closing", "done"} /\ UNCHANGED <<faults, ctxDone, mark, first>>
           /\ stop # "no" => stop' # "no"
  <2> SUFFICES ASSUME faults = 0, ~ctxDone
               PROVE  stop' # "no" /\ \A i \in first'..mark' : log'[i] = Empty
    BY <1>8 DEF Flushed
  <2>1. stop # "no" /\ \A i \in first..mark : log[i] = Empty
    BY <1>8 DEF Flushed
  <2>2. \A i \in first..mark : i \in 1..Len(log)
    BY <1>1, SMT DEF IInv, Core, DiskTypeOK
  <2> QED
    BY <1>8, <2>1, <2>2, LogGrows
<1>9. CASE ShutdownCall
  BY <1>3, <1>9 DEF ShutdownCall, Flushed, runnerVars, boundVars
<1> QED
  BY <1>2, <1>3, <1>4, <1>5, <1>6, <1>7, <1>8, <1>9
     DEF Next, PushStep, RunnerStep, PushCall, PushLock, PushIndex, PushPanic,
         PushWrite, AppendEntry, PushReturn, PushError, Down, RunnerLock,
         RunnerExport, RunnerAnswer, RetryLater, Conclude, RunnerWatch,
         RunnerWake, RunnerClose, Start, ShutdownReturn, CancelCtx, Exit, Crash,
         diskVars, runnerVars, lifeVars, boundVars, vars
-----------------------------------------------------------------------------
(* What holds besides IInv at every step of the log.                       *)
LEMMA Delivering == Spec => [](IInv /\ DInv)
<1>1. Init => DInv
  <2> SUFFICES ASSUME Init PROVE DInv
    OBVIOUS
  <2>1. LogOpen /\ RealVerdicts /\ FilledBehind /\ Flushing /\ Flushed
    BY DEF Init, LogOpen, Working, RealVerdicts, FilledBehind, Flushing, Flushed
  <2>2. AckedLeaves /\ WholeSoFar /\ OkPushIsWhole
    BY DEF Init, AckedLeaves, HeadAcked, WholeSoFar, Writing, OkPushIsWhole
  <2> QED
    BY <2>1, <2>2 DEF DInv
<1>2. IInv /\ DInv /\ [Next]_vars => DInv'
  BY LogOpenKept, RealVerdictsKept, FilledBehindKept, AckedLeavesKept,
     WholeSoFarKept, OkPushIsWholeKept, FlushingKept, FlushedKept DEF DInv
<1> QED
  BY <1>1, <1>2, Inductive, PTL DEF Spec

(* A PushMetrics that returned nil has its requests in the log, one behind *)
(* the other, whatever the runner, other pushes and faults did meanwhile.  *)
THEOREM PushesWhole == Spec => []OkPushIsWhole
<1>1. DInv => OkPushIsWhole
  BY DEF DInv
<1> QED
  BY Delivering, <1>1, PTL

(* The empty entry behind the last request keeps readWALAndExport from     *)
(* exporting an acknowledged request again, but for crashes and faults.    *)
THEOREM NotExportedTwice == Spec => []NoDoubleExport
<1>1. IInv /\ DInv => NoDoubleExport
  <2> SUFFICES ASSUME IInv, DInv, pc = "calling", <<rIdx, "acked">> \in fate
               PROVE  crashes + faults > 0
    BY DEF NoDoubleExport
  <2>1. rIdx = first
    BY DEF IInv, Core, IndicesFresh
  <2> QED
    BY <2>1 DEF DInv, AckedLeaves, HeadAcked
<1> QED
  BY Delivering, <1>1, PTL

(* When the final loop of runWALReadAndExportLoop has ended, nothing that  *)
(* was in the log when shutdownC was closed is left in it, unless a system *)
(* call failed or the context given to Start was cancelled.                *)
THEOREM FlushComplete == Spec => []FlushedWhenDone
<1>1. DInv => FlushedWhenDone
  BY DEF DInv, Flushed, FlushedWhenDone
<1> QED
  BY Delivering, <1>1, PTL
=============================================================================
