---------------------- MODULE MetricDescriptors_proofs ----------------------
(***************************************************************************)
(* Proofs about MetricDescriptors, for any number of callers, any metrics  *)
(* and any buffer.  IInv adds to the types that the cache holds just the   *)
(* descriptors with a final answer, that the runner never calls for one of *)
(* them, and that a descriptor queued when shutdownC was closed is, until  *)
(* it has been tried, on the channel or in the runner's hand.              *)
(***************************************************************************)
EXTENDS MetricDescriptors, Recursion_proofs, TLAPS

(* Everything but draining, whose Boolean value SMT need not see.          *)
Typed ==
    /\ todo \in [Pushers -> Seq(Types)] /\ chan \in Seq(Types)
    /\ Len(chan) <= Capacity
    /\ pc \in {"select", "parked", "export", "calling", "done"}
    /\ cur \in Types \cup {None}
    /\ mdCache \in SUBSET Types /\ stop \in {"no", "called", "closed"}
    /\ answered \in SUBSET Types /\ tried \in SUBSET Types /\ owed \in SUBSET Types

Answers ==
    /\ answered = mdCache
    /\ pc \in {"export", "calling"} => cur \in Types
    /\ pc = "calling" => cur \notin mdCache /\ cur \in tried

Stopping ==
    /\ draining => stop # "no"
    /\ pc = "done" => stop # "no" /\ owed \subseteq tried
    /\ owed \subseteq tried \cup Queued \cup Held

IInv == draining \in BOOLEAN /\ Typed /\ Answers /\ Stopping
-----------------------------------------------------------------------------
(* What is on the channel after a value is put on it, or taken off.        *)
LEMMA QueuedAppend ==
    ASSUME chan \in Seq(Types), NEW d \in Types, chan' = Append(chan, d)
    PROVE  /\ chan' \in Seq(Types) /\ Len(chan') = Len(chan) + 1
           /\ Queued \subseteq Queued'
<1>1. \A k \in 1..Len(chan) : k \in 1..Len(chan') /\ chan'[k] = chan[k]
  OBVIOUS
<1>2. chan' \in Seq(Types) /\ Len(chan') = Len(chan) + 1
  OBVIOUS
<1> QED
  BY <1>1, <1>2, Zenon DEF Queued

(* What is queued when the first of the channel is taken.                  *)
LEMMA QueuedTail ==
    ASSUME chan \in Seq(Types), chan # <<>>, chan' = Tail(chan)
    PROVE  /\ chan' \in Seq(Types) /\ Len(chan') <= Len(chan)
           /\ Head(chan) \in Types
           /\ Queued \subseteq Queued' \cup {Head(chan)}
<1>1. /\ chan' \in Seq(Types) /\ Len(chan') <= Len(chan)
      /\ Head(chan) \in Types /\ Head(chan) = chan[1]
  OBVIOUS
<1>2. ASSUME NEW k \in 1..Len(chan), k # 1
      PROVE  k - 1 \in 1..Len(chan') /\ chan'[k - 1] = chan[k]
  BY <1>2
<1> QED
  BY <1>1, <1>2, ZenonT(30) DEF Queued

(* With the channel as it is, what is queued is the same.                  *)
LEMMA QueuedSame == ASSUME chan' = chan PROVE Queued' = Queued
BY Zenon DEF Queued

(* The invariant holds at the start.                                       *)
LEMMA IInvInit == Init => IInv
<1> SUFFICES ASSUME Init PROVE IInv
  OBVIOUS
<1>1. todo \in [Pushers -> Seq(Types)] /\ chan \in Seq(Types)
  BY DEF Init
<1>2. Len(chan) <= Capacity
  BY DescriptorAssumption DEF Init
<1> QED
  BY <1>1, <1>2 DEF Init, IInv, Typed, Answers, Stopping

(* The invariant, at each step.                                            *)
LEMMA IInvKept == IInv /\ [Next]_vars => IInv'
<1> SUFFICES ASSUME IInv, [Next]_vars PROVE IInv'
  OBVIOUS
<1> USE DEF IInv, Typed, Answers, Stopping
<1>0. Types' = Types
  BY Zenon DEF Types
<1>1. ASSUME NEW p \in Pushers, PushCall(p) PROVE IInv'
  <2>1. Offers[p] \in Seq(Types)
    BY DescriptorAssumption
  <2>2. Queued' = Queued /\ Held' = Held
    BY <1>1, QueuedSame, Zenon DEF PushCall, Held
  <2> QED
    BY <1>1, <2>1, <2>2 DEF PushCall
<1>2. ASSUME NEW p \in Pushers, PushStep(p) PROVE IInv'
  <2> DEFINE d == Head(todo[p])
  <2>1. /\ d \in Types /\ Offer(d)
        /\ todo' \in [Pushers -> Seq(Types)]
        /\ UNCHANGED <<draining, mdCache, stop, answered, tried, owed>>
    BY <1>2 DEF PushStep
  <2> HIDE DEF d
  <2>2. CASE Handed(d)
    <3>1. Queued' = Queued
      BY <2>2, QueuedSame DEF Handed
    <3>2. Held \subseteq Held'
      BY <2>2 DEF Handed, Held
    <3> QED
      BY <2>1, <2>2, <3>1, <3>2 DEF Handed
  <2>3. CASE Queues(d) /\ UNCHANGED <<pc, cur>>
    <3>1. chan' = Append(chan, d) /\ Len(chan) < Capacity
      BY <2>3 DEF Queues
    <3>2. chan' \in Seq(Types) /\ Len(chan') = Len(chan) + 1 /\ Queued \subseteq Queued'
      BY <2>1, <3>1, QueuedAppend
    <3>3. Len(chan') <= Capacity
      BY <3>1, <3>2, DescriptorAssumption
    <3>4. Held' = Held
      BY <2>3 DEF Held
    <3> QED
      BY <2>1, <2>3, <3>2, <3>3, <3>4
  <2>4. CASE UNCHANGED <<chan, pc, cur>>
    <3>1. Queued' = Queued /\ Held' = Held
      BY <2>4, QueuedSame DEF Held
    <3> QED
      BY <2>1, <2>4, <3>1
  <2> QED
    BY <2>1, <2>2, <2>3, <2>4 DEF Offer, Queues
<1>3. CASE RunnerSelect
  <2>1. CASE Take /\ UNCHANGED draining
    <3>1. /\ chan' \in Seq(Types) /\ Len(chan') <= Len(chan) /\ cur' \in Types
          /\ Queued \subseteq Queued' \cup {cur'}
      BY <2>1, QueuedTail DEF Take
    <3>2. Held = {} /\ Held' = {cur'} /\ pc' = "export"
      BY <1>3, <2>1 DEF Take, RunnerSelect, Held
    <3>3. Len(chan') <= Capacity
      BY <3>1, DescriptorAssumption
    <3> QED
      BY <1>3, <2>1, <3>1, <3>2, <3>3 DEF RunnerSelect
  <2>2. CASE stop # "no" /\ draining' = TRUE /\ UNCHANGED <<pc, chan, cur>>
    <3>1. Queued' = Queued /\ Held' = Held
      BY <2>2, QueuedSame DEF Held
    <3> QED
      BY <1>3, <2>2, <3>1 DEF RunnerSelect
  <2>3. CASE pc' = "parked" /\ UNCHANGED <<draining, chan, cur>>
    <3>1. Queued' = Queued /\ Held' = Held
      BY <1>3, <2>3, QueuedSame DEF Held, RunnerSelect
    <3> QED
      BY <1>3, <2>3, <3>1 DEF RunnerSelect
  <2> QED
    BY <1>3, <2>1, <2>2, <2>3 DEF RunnerSelect
<1>4. CASE RunnerDrain
  <2>1. CASE Take
    <3>1. /\ chan' \in Seq(Types) /\ Len(chan') <= Len(chan) /\ cur' \in Types
          /\ Queued \subseteq Queued' \cup {cur'}
      BY <2>1, QueuedTail DEF Take
    <3>2. Held = {} /\ Held' = {cur'} /\ pc' = "export"
      BY <1>4, <2>1 DEF Take, RunnerDrain, Held
    <3>3. Len(chan') <= Capacity
      BY <3>1, DescriptorAssumption
    <3> QED
      BY <1>4, <3>1, <3>2, <3>3 DEF RunnerDrain
  <2>2. CASE chan = <<>> /\ pc' = "done" /\ UNCHANGED <<chan, cur>>
    <3>1. Queued = {} /\ Held = {}
      BY <1>4, <2>2 DEF RunnerDrain, Queued, Held
    <3> QED
      BY <1>4, <2>2, <3>1 DEF RunnerDrain
  <2> QED
    BY <1>4, <2>1, <2>2 DEF RunnerDrain, DrainNext
<1>5. CASE RunnerExport
  <2>1. Queued' = Queued /\ Held = {cur} /\ tried' = tried \cup {cur}
    BY <1>5, QueuedSame DEF RunnerExport, Held
  <2> QED
    BY <1>5, <2>1 DEF RunnerExport, Known
<1>6. CASE RunnerAnswer
  <2>1. Queued' = Queued /\ Held = {cur} /\ Held' = {}
    BY <1>6, QueuedSame DEF RunnerAnswer, Held
  <2>2. PICK answer \in {"ok", "rejected", "retryable"} :
          /\ mdCache' = IF answer \in Cached THEN mdCache \cup {cur} ELSE mdCache
          /\ answered' = IF answer = "retryable" THEN answered ELSE answered \cup {cur}
    BY <1>6 DEF RunnerAnswer
  <2>3. answer \in Cached <=> answer # "retryable"
    BY <2>2 DEF Cached
  <2>4. answered' = mdCache' /\ mdCache' \in SUBSET Types
    BY <1>6, <2>2, <2>3 DEF RunnerAnswer
  <2>5. /\ pc' = "select" /\ cur' = None /\ cur \in tried
        /\ UNCHANGED <<todo, chan, draining, stop, tried, owed>>
    BY <1>6 DEF RunnerAnswer
  <2> QED
    BY <2>1, <2>4, <2>5
<1>7. CASE ShutdownCall
  <2>1. Queued' = Queued /\ Held' = Held
    BY <1>7, QueuedSame DEF ShutdownCall, Held
  <2>2. draining' \in BOOLEAN /\ stop' = "called"
    BY <1>7, Zenon DEF ShutdownCall
  <2>3. pc # "done" /\ pc' \in {pc, "select"} /\ owed' = Queued \cup Held
    BY <1>7 DEF ShutdownCall
  <2>4. UNCHANGED <<todo, chan, cur, mdCache, answered, tried>>
    BY <1>7 DEF ShutdownCall
  <2>5. owed' \in SUBSET Types
    BY <2>3 DEF Queued, Held
  <2> QED
    BY <2>1, <2>2, <2>3, <2>4, <2>5
<1>8. CASE ShutdownReturn
  <2>1. Queued' = Queued /\ Held' = Held
    BY <1>8, QueuedSame DEF ShutdownReturn, Held
  <2> QED
    BY <1>8, <2>1 DEF ShutdownReturn
<1>9. CASE UNCHANGED vars
  <2>1. Queued' = Queued /\ Held' = Held
    BY <1>9, QueuedSame DEF vars, Held
  <2> QED
    BY <1>9, <2>1 DEF vars
<1> QED
  BY <1>1, <1>2, <1>3, <1>4, <1>5, <1>6, <1>7, <1>8, <1>9, Zenon
     DEF Next, RunnerStep

(* The invariant holds in every state.                                     *)
LEMMA Inductive == Spec => []IInv
BY IInvInit, IInvKept, PTL DEF Spec
-----------------------------------------------------------------------------
(* Type correctness, and a channel that never holds more than its buffer.  *)
THEOREM TypesHold == Spec => []TypeOK
<1>1. IInv => TypeOK
  BY Zenon DEF IInv, Typed, TypeOK
<1> QED
  BY Inductive, <1>1, PTL

(* A runner that has ended has tried every descriptor that was queued, or  *)
(* in its hand, when shutdownC was closed.                                 *)
THEOREM ShutdownDrains == Spec => []DrainedWhenDone
<1>1. IInv => DrainedWhenDone
  BY Zenon DEF IInv, Stopping, DrainedWhenDone
<1> QED
  BY Inductive, <1>1, PTL

(* A descriptor with a final answer is never sent again.                   *)
THEOREM SentOnce == Spec => ReportedOnce
<1>1. IInv /\ [Next]_vars =>
          [pc' = "calling" /\ pc # "calling" => cur' \notin answered]_vars
  <2> SUFFICES ASSUME IInv, Next, pc' = "calling", pc # "calling"
               PROVE  cur' \notin answered
    BY Zenon DEF vars
  <2>1. RunnerExport
    <3>1. \A p \in Pushers : ~PushCall(p) /\ ~PushStep(p)
      BY DEF PushCall, PushStep, Offer, Handed, Queues, Full
    <3>2. ~RunnerSelect /\ ~RunnerDrain /\ ~RunnerAnswer
      BY DEF RunnerSelect, RunnerDrain, DrainNext, Take, RunnerAnswer
    <3>3. ~ShutdownCall /\ ~ShutdownReturn
      BY DEF ShutdownCall, ShutdownReturn
    <3> QED
      BY <3>1, <3>2, <3>3 DEF Next, RunnerStep
  <2> QED
    BY <2>1 DEF RunnerExport, Known, IInv, Answers
<1> QED
  BY Inductive, <1>1, PTL DEF Spec, ReportedOnce

(* A descriptor is skipped only after a final answer; one whose call timed *)
(* out is sent again.                                                      *)
THEOREM SkippedAfterAnswer == Spec => SkippedOnlyIfAnswered
<1>1. IInv /\ [Next]_vars =>
          [pc = "export" /\ pc' = "select" => cur \in answered]_vars
  <2> SUFFICES ASSUME IInv, Next, pc = "export", pc' = "select"
               PROVE  cur \in answered
    BY Zenon DEF vars
  <2>1. RunnerExport
    <3>1. \A p \in Pushers : ~PushCall(p) /\ ~PushStep(p)
      BY DEF PushCall, PushStep, Offer, Handed, Queues, Full
    <3>2. ~RunnerSelect /\ ~RunnerDrain /\ ~RunnerAnswer
      BY DEF RunnerSelect, RunnerDrain, RunnerAnswer
    <3>3. ~ShutdownCall /\ ~ShutdownReturn
      BY DEF ShutdownCall, ShutdownReturn
    <3> QED
      BY <3>1, <3>2, <3>3 DEF Next, RunnerStep
  <2> QED
    BY <2>1 DEF RunnerExport, Known, IInv, Answers
<1> QED
  BY Inductive, <1>1, PTL DEF Spec, SkippedOnlyIfAnswered
=============================================================================
