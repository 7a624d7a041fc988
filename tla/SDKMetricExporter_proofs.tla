----------------------- MODULE SDKMetricExporter_proofs -----------------------
(***************************************************************************)
(* Proofs about SDKMetricExporter, for any calls, metrics and batch size:  *)
(* what the descriptor lock protects, what Shutdown leaves behind, and     *)
(* that what a successful Export has converted is stored.                  *)
(***************************************************************************)
EXTENDS SDKMetricExporter, FiniteSetTheorems, Recursion_proofs

(* The holder of the lock is the one call that has metrics to describe,    *)
(* one of each key, and none that is cached.                               *)
WorkLeft(p) ==
    /\ mds[p] # {} => pc[p] \in {"describe", "create"}
    /\ mds[p] \subseteq 1..Len(MetricsOf[p])
    /\ \A i, j \in mds[p] : Metric(p, i).key = Metric(p, j).key => i = j
    /\ \A i \in mds[p] : mdCache[Metric(p, i).key] = None
Holding(p) ==
    /\ pc[p] \in {"describe", "create"} => mdLock = p
    /\ pc[p] = "create" => current[p] \in mds[p]
Locking == \A p \in Exports : WorkLeft(p) /\ Holding(p)

(* What is cached exists in the service.                                   *)
CachedExist == \A k \in Keys : mdCache[k] # None => mdCache[k] \in descriptors

(* One call runs shutdownOnce; the others return only after its end.       *)
Stopping ==
    /\ \A s \in Stops : s # once =>
          /\ result[s] \notin {"nil", "error"} /\ pc[s] # "close"
          /\ pc[s] # "idle" => once # None /\ pc[once] = "done"
    /\ once # None => shutdown = TRUE
    /\ once # None => pc[once] # "done" \/ client = "closed"

(* A request that was not acknowledged is an error of its Export.          *)
Acknowledged(p) ==
    /\ sent[p] <= Len(tss[p])
    /\ stored[p] = 1..sent[p] \/ "series" \in errs[p]
    /\ pc[p] = "done" /\ result[p] # "errShutdown" => sent[p] = Len(tss[p])
    /\ result[p] = "nil" => pc[p] = "done" /\ errs[p] = {}
Sending == \A p \in Exports : Acknowledged(p)

ErrorKinds == {"descriptor", "conversion", "series"}

(* The variables whose types the steps above need, the Booleans apart.     *)
Typed ==
    /\ once \in Stops \cup {None}
    /\ mdLock \in Exports \cup {None}
    /\ mdCache \in [Keys -> Types \cup {None}]
    /\ pc \in [Calls -> {"idle", "lock", "describe", "create", "convert", "send",
                         "close", "done"}]
    /\ result \in [Calls -> {"none", "nil", "error", "errShutdown"}]
    /\ mds \in [Exports -> SUBSET Nat]
    /\ current \in [Exports -> Nat]
    /\ next \in [Exports -> (Nat \ {0}) \X (Nat \ {0})]
    /\ tss \in [Exports -> Seq(Types)]
    /\ sent \in [Exports -> Nat]
    /\ errs \in [Exports -> SUBSET ErrorKinds]
    /\ descriptors \in SUBSET Types
    /\ stored \in [Exports -> SUBSET Nat]
Flags ==
    /\ disableCreateMetricDescriptors \in BOOLEAN /\ shutdown \in BOOLEAN
    /\ client \in {"open", "closed"}
IInv == Flags /\ Typed /\ Locking /\ CachedExist /\ Stopping /\ Sending
-----------------------------------------------------------------------------
(* A metric of a call is a record with a key and a type.                   *)
LEMMA MetricTyped ==
    ASSUME NEW p \in Exports, NEW i \in 1..Len(MetricsOf[p])
    PROVE  /\ Metric(p, i).key \in Keys /\ Metric(p, i).type \in Types
           /\ Metric(p, i).points \in Seq(BOOLEAN)
<1> DEFINE M == [key : Keys, type : Types, points : Seq(BOOLEAN)]
<1>1. MetricsOf[p] \in Seq(M)
  BY MetricsAssumption
<1> HIDE DEF M
<1>2. Metric(p, i) \in M
  BY <1>1 DEF Metric
<1> QED
  BY <1>2 DEF M

(* An error that is noted is of a kind there is.                           *)
LEMMA FailedTyped ==
    ASSUME errs \in [Exports -> SUBSET ErrorKinds], NEW p \in Exports,
           NEW kind \in ErrorKinds, Failed(p, kind)
    PROVE  errs' \in [Exports -> SUBSET ErrorKinds]
<1>1. errs[p] \cup {kind} \in SUBSET ErrorKinds
  OBVIOUS
<1> QED
  BY <1>1, Zenon DEF Failed

(* The Boolean flags, at each step.                                        *)
LEMMA FlagsKept == Flags /\ [Next]_vars => Flags'
<1> SUFFICES ASSUME Flags, [Next]_vars PROVE Flags'
  OBVIOUS
<1> USE Zenon DEF Flags, vars
<1>1. ASSUME NEW p \in Exports, ExportStep(p) PROVE Flags'
  BY <1>1 DEF ExportStep, Export, LockDescriptors, GetDescriptor, CreateDescriptor,
     UnlockDescriptors, ConvertPoint, EndConversion, SendBatch, Return
<1>2. ASSUME NEW s \in Stops, ShutdownStep(s) PROVE Flags'
  BY <1>2 DEF ShutdownStep, ShutdownFirst, CloseClient, ShutdownAgain
<1>3. CASE UNCHANGED vars
  BY <1>3
<1> QED
  BY <1>1, <1>2, <1>3 DEF Next

(* The types, at each step.                                                *)
LEMMA TypedKept == Typed /\ Locking /\ [Next]_vars => Typed'
<1> SUFFICES ASSUME Typed, Locking, [Next]_vars PROVE Typed'
  OBVIOUS
<1> USE DEF Typed, service, callVars, Calls
<1>1. ASSUME NEW p \in Exports, Export(p) PROVE Typed'
  BY <1>1 DEF Export
<1>2. ASSUME NEW p \in Exports, LockDescriptors(p) PROVE Typed'
  <2>1. Undescribed(p) \in SUBSET Nat
    BY MetricsAssumption DEF Undescribed
  <2> QED
    BY <1>2, <2>1 DEF LockDescriptors
<1>3. ASSUME NEW p \in Exports, GetDescriptor(p) PROVE Typed'
  <2>1. PICK i \in mds[p] :
            \/ Cache(p, i) /\ mds' = [mds EXCEPT ![p] = @ \ {i}] /\ UNCHANGED <<pc, current>>
            \/ /\ current' = [current EXCEPT ![p] = i] /\ pc' = [pc EXCEPT ![p] = "create"]
               /\ UNCHANGED <<mdCache, mds>>
    BY <1>3, Zenon DEF GetDescriptor
  <2>2. Metric(p, i).key \in Keys /\ Metric(p, i).type \in Types /\ i \in Nat
    BY MetricTyped DEF Locking, WorkLeft
  <2>3. mdCache' \in [Keys -> Types \cup {None}]
    BY <2>1, <2>2 DEF Cache
  <2>4. mds[p] \ {i} \in SUBSET Nat
    OBVIOUS
  <2>5. mds' \in [Exports -> SUBSET Nat]
    BY <2>1, <2>4, Zenon
  <2>6. current' \in [Exports -> Nat]
    BY <2>1, <2>2, Zenon
  <2> QED
    BY <1>3, <2>3, <2>5, <2>6 DEF GetDescriptor
<1>4. ASSUME NEW p \in Exports, CreateDescriptor(p) PROVE Typed'
  <2>1. Metric(p, current[p]).key \in Keys /\ Metric(p, current[p]).type \in Types
    BY <1>4, MetricTyped DEF CreateDescriptor, Locking, WorkLeft, Holding
  <2>2. errs' \in [Exports -> SUBSET ErrorKinds]
    BY <1>4, FailedTyped, Zenon DEF CreateDescriptor, ErrorKinds
  <2>3. mdCache' \in [Keys -> Types \cup {None}]
    BY <1>4, <2>1 DEF CreateDescriptor, Cache
  <2>4. descriptors' \in SUBSET Types
    BY <1>4, <2>1 DEF CreateDescriptor
  <2> QED
    BY <1>4, <2>2, <2>3, <2>4 DEF CreateDescriptor
<1>5. ASSUME NEW p \in Exports, UnlockDescriptors(p) PROVE Typed'
  BY <1>5 DEF UnlockDescriptors, Unlocked
<1>6. ASSUME NEW p \in Exports, ConvertPoint(p) PROVE Typed'
  <2> DEFINE i == next[p][1]
             j == next[p][2]
  <2>0. i \in Nat \ {0} /\ j \in Nat \ {0}
    OBVIOUS
  <2>1. next' \in [Exports -> (Nat \ {0}) \X (Nat \ {0})]
    <3>1. <<i + 1, 1>> \in (Nat \ {0}) \X (Nat \ {0}) /\ <<i, j + 1>> \in (Nat \ {0}) \X (Nat \ {0})
      BY <2>0, SMTT(30)
    <3>2. next' = [next EXCEPT ![p] = <<i + 1, 1>>] \/ next' = [next EXCEPT ![p] = <<i, j + 1>>]
      BY <1>6, Zenon DEF ConvertPoint
    <3> QED
      BY <3>1, <3>2, ZenonT(30)
  <2>2. errs' \in [Exports -> SUBSET ErrorKinds]
    BY <1>6, FailedTyped, Zenon DEF ConvertPoint, ErrorKinds
  <2>3. tss' \in [Exports -> Seq(Types)]
    <3>1. CASE UNCHANGED tss
      BY <3>1
    <3>2. CASE tss' # tss
      <4>1. i \in 1..Len(MetricsOf[p])
        BY <1>6, <2>0, <3>2 DEF ConvertPoint
      <4>2. Metric(p, i).key \in Keys /\ Metric(p, i).type \in Types
        BY <4>1, MetricTyped
      <4>3. MetricType(Metric(p, i)) \in Types
        BY <4>2 DEF MetricType
      <4>4. tss' = [tss EXCEPT ![p] = Append(@, MetricType(Metric(p, i)))]
        BY <1>6, <3>2, Zenon DEF ConvertPoint
      <4>5. Append(tss[p], MetricType(Metric(p, i))) \in Seq(Types)
        BY <4>3
      <4> QED
        BY <4>4, <4>5, Zenon
    <3> QED
      BY <3>1, <3>2
  <2> QED
    BY <1>6, <2>1, <2>2, <2>3 DEF ConvertPoint
<1>7. ASSUME NEW p \in Exports, EndConversion(p) PROVE Typed'
  BY <1>7 DEF EndConversion
<1>8. ASSUME NEW p \in Exports, SendBatch(p) PROVE Typed'
  <2>1. BatchEnd(p, sent[p]) \in Nat
    BY BatchAssumption DEF BatchEnd
  <2>2. errs' \in [Exports -> SUBSET ErrorKinds]
    BY <1>8, FailedTyped, Zenon DEF SendBatch, ErrorKinds
  <2>3. stored' \in [Exports -> SUBSET Nat] /\ sent' \in [Exports -> Nat]
    BY <1>8, <2>1 DEF SendBatch
  <2> QED
    BY <1>8, <2>2, <2>3 DEF SendBatch
<1>9. ASSUME NEW p \in Exports, Return(p) PROVE Typed'
  BY <1>9 DEF Return
<1>10. ASSUME NEW s \in Stops, ShutdownStep(s) PROVE Typed'
  BY <1>10, ZenonT(30) DEF ShutdownStep, ShutdownFirst, CloseClient, ShutdownAgain
<1>11. CASE UNCHANGED vars
  BY <1>11 DEF vars
<1> QED
  BY <1>1, <1>2, <1>3, <1>4, <1>5, <1>6, <1>7, <1>8, <1>9, <1>10, <1>11
     DEF Next, ExportStep
-----------------------------------------------------------------------------
(* Locking is kept by a step that has nothing to do with descriptors.      *)
LEMMA LockingSame ==
    ASSUME Locking, UNCHANGED <<mds, mdCache, mdLock, current>>,
           \A p \in Exports : pc'[p] = pc[p]
               \/ {pc[p], pc'[p]} \cap {"describe", "create"} = {}
    PROVE  Locking'
BY DEF Locking, WorkLeft, Holding, Metric

(* The lock and what is read under it, at each step.                       *)
LEMMA LockingKept == IInv /\ [Next]_vars => Locking'
<1> SUFFICES ASSUME IInv, [Next]_vars PROVE Locking'
  OBVIOUS
<1> USE DEF IInv, Typed, Calls
<1> DEFINE Busy == {"describe", "create"}
<1>0. \A p, q \in Exports : pc[p] \in Busy /\ pc[q] \in Busy => p = q
  BY DEF Locking, Holding
<1>1. ASSUME NEW p \in Exports,
             Export(p) \/ ConvertPoint(p) \/ EndConversion(p) \/ SendBatch(p) \/ Return(p)
      PROVE  Locking'
  <2>1. UNCHANGED <<mds, mdCache, mdLock, current>>
    BY <1>1, Zenon DEF Export, ConvertPoint, EndConversion, SendBatch, Return
  <2>2. /\ pc'[p] = pc[p] \/ {pc[p], pc'[p]} \cap Busy = {}
        /\ \A q \in Exports \ {p} : pc'[q] = pc[q]
    BY <1>1 DEF Export, ConvertPoint, EndConversion, SendBatch, Return
  <2> QED
    BY <2>1, <2>2, LockingSame
<1>2. ASSUME NEW p \in Exports, LockDescriptors(p) PROVE Locking'
  <2>1. \A q \in Exports : pc[q] \notin Busy /\ mds[q] = {}
    BY <1>2, NoneAssumption DEF LockDescriptors, MdLockFree, Locking, Holding, WorkLeft
  <2>2. /\ mdLock' = p /\ mdCache' = mdCache
        /\ mds' = [mds EXCEPT ![p] = Undescribed(p)]
        /\ pc' = [pc EXCEPT ![p] = "describe"]
    BY <1>2 DEF LockDescriptors
  <2>3. /\ Undescribed(p) \subseteq 1..Len(MetricsOf[p])
        /\ \A i \in Undescribed(p) : mdCache[Metric(p, i).key] = None
    BY MetricsAssumption, SMTT(30) DEF Undescribed
  <2>4. \A i, j \in Undescribed(p) : Metric(p, i).key = Metric(p, j).key => i = j
    <3>1. \A i \in Undescribed(p) : i \in Nat \ {0}
             /\ \A j \in 1..(i - 1) : Metric(p, j).key # Metric(p, i).key
      BY <2>3 DEF Undescribed
    <3>2. \A i, j \in Undescribed(p) : i < j => Metric(p, i).key # Metric(p, j).key
      <4> SUFFICES ASSUME NEW i \in Undescribed(p), NEW j \in Undescribed(p), i < j
                   PROVE  Metric(p, i).key # Metric(p, j).key
        OBVIOUS
      <4>1. i \in 1..(j - 1)
        BY <3>1
      <4> QED
        BY <3>1, <4>1, Zenon
    <3>3. \A i, j \in Undescribed(p) : i < j \/ j < i \/ i = j
      BY <3>1
    <3> QED
      BY <3>2, <3>3, Zenon
  <2>5. mds'[p] = Undescribed(p) /\ pc'[p] = "describe"
    BY <2>2
  <2>6. WorkLeft(p)' /\ Holding(p)'
    BY <2>2, <2>3, <2>4, <2>5, Zenon DEF WorkLeft, Holding, Metric
  <2>7. ASSUME NEW q \in Exports \ {p} PROVE WorkLeft(q)' /\ Holding(q)'
    BY <2>1, <2>2 DEF WorkLeft, Holding
  <2> QED
    BY <2>6, <2>7, Zenon DEF Locking
<1>3. ASSUME NEW p \in Exports, GetDescriptor(p) PROVE Locking'
  <2>0. mdLock' = mdLock /\ pc[p] = "describe"
    BY <1>3 DEF GetDescriptor
  <2>1. PICK i \in mds[p] :
            \/ Cache(p, i) /\ mds' = [mds EXCEPT ![p] = @ \ {i}] /\ UNCHANGED <<pc, current>>
            \/ /\ current' = [current EXCEPT ![p] = i] /\ pc' = [pc EXCEPT ![p] = "create"]
               /\ UNCHANGED <<mdCache, mds>>
    BY <1>3, Zenon DEF GetDescriptor
  <2>2. \A q \in Exports \ {p} : pc[q] \notin Busy /\ mds[q] = {}
    BY <1>0, <2>0 DEF Locking, WorkLeft
  <2>3. CASE Cache(p, i) /\ mds' = [mds EXCEPT ![p] = @ \ {i}] /\ UNCHANGED <<pc, current>>
    <3>1. ASSUME NEW j \in mds'[p] PROVE mdCache'[Metric(p, j).key] = None
      <4>1. j \in mds[p] /\ j # i
        BY <2>3
      <4>2. Metric(p, j).key # Metric(p, i).key /\ Metric(p, j).key \in Keys
        BY <4>1, MetricTyped DEF Locking, WorkLeft
      <4> QED
        BY <2>3, <4>1, <4>2 DEF Cache, Locking, WorkLeft
    <3>2. WorkLeft(p)' /\ Holding(p)'
      BY <2>0, <2>3, <3>1 DEF WorkLeft, Holding, Locking, Metric
    <3>3. \A q \in Exports \ {p} : WorkLeft(q)' /\ Holding(q)'
      BY <2>0, <2>2, <2>3 DEF WorkLeft, Holding, Locking
    <3> QED
      BY <3>2, <3>3 DEF Locking
  <2>4. CASE /\ current' = [current EXCEPT ![p] = i] /\ pc' = [pc EXCEPT ![p] = "create"]
             /\ UNCHANGED <<mdCache, mds>>
    BY <2>0, <2>2, <2>4 DEF WorkLeft, Holding, Locking, Metric
  <2> QED
    BY <2>1, <2>3, <2>4
<1>4. ASSUME NEW p \in Exports, CreateDescriptor(p) PROVE Locking'
  <2> DEFINE i == current[p]
  <2>0. /\ mdLock' = mdLock /\ pc[p] = "create" /\ i \in mds[p]
        /\ mds' = [mds EXCEPT ![p] = @ \ {i}] /\ pc' = [pc EXCEPT ![p] = "describe"]
        /\ Cache(p, i) \/ UNCHANGED mdCache
        /\ \A q \in Exports \ {p} : current'[q] = current[q]
    BY <1>4 DEF CreateDescriptor, Locking, Holding
  <2>1. \A q \in Exports \ {p} : pc[q] \notin Busy /\ mds[q] = {}
    BY <1>0, <2>0 DEF Locking, WorkLeft
  <2>2. ASSUME NEW j \in mds'[p] PROVE mdCache'[Metric(p, j).key] = None
    <3>1. j \in mds[p] /\ j # i
      BY <2>0
    <3>2. Metric(p, j).key # Metric(p, i).key /\ Metric(p, j).key \in Keys
      BY <2>0, <3>1, MetricTyped DEF Locking, WorkLeft
    <3> QED
      BY <2>0, <3>1, <3>2 DEF Cache, Locking, WorkLeft
  <2>3. WorkLeft(p)' /\ Holding(p)'
    BY <2>0, <2>2 DEF WorkLeft, Holding, Locking, Metric
  <2>4. \A q \in Exports \ {p} : WorkLeft(q)' /\ Holding(q)'
    BY <2>0, <2>1 DEF WorkLeft, Holding, Locking
  <2> QED
    BY <2>3, <2>4 DEF Locking
<1>5. ASSUME NEW p \in Exports, UnlockDescriptors(p) PROVE Locking'
  <2>1. /\ pc[p] = "describe" /\ mds[p] = {} /\ pc' = [pc EXCEPT ![p] = "convert"]
        /\ UNCHANGED <<mds, mdCache, current>>
    BY <1>5 DEF UnlockDescriptors
  <2>2. \A q \in Exports \ {p} : pc[q] \notin Busy
    BY <1>0, <2>1
  <2>3. \A q \in Exports : pc'[q] \notin Busy /\ mds'[q] = {}
    BY <2>1, <2>2 DEF Locking, WorkLeft
  <2> QED
    BY <2>3 DEF Locking, WorkLeft, Holding
<1>6. ASSUME NEW s \in Stops, ShutdownStep(s) PROVE Locking'
  <2>1. UNCHANGED <<mds, mdCache, mdLock, current>>
    BY <1>6, Zenon DEF ShutdownStep, ShutdownFirst, CloseClient, ShutdownAgain
  <2>2. \A q \in Exports : pc'[q] = pc[q]
    BY <1>6, CallsAssumption DEF ShutdownStep, ShutdownFirst, CloseClient, ShutdownAgain
  <2> QED
    BY <2>1, <2>2, LockingSame
<1>7. CASE UNCHANGED vars
  BY <1>7, LockingSame, Zenon DEF vars, callVars
<1> QED
  BY <1>1, <1>2, <1>3, <1>4, <1>5, <1>6, <1>7 DEF Next, ExportStep
-----------------------------------------------------------------------------
(* The cached types, at each step.                                         *)
LEMMA CachedExistKept == IInv /\ [Next]_vars => CachedExist'
<1> SUFFICES ASSUME IInv, [Next]_vars PROVE CachedExist'
  OBVIOUS
<1> USE DEF IInv, Typed
<1>1. ASSUME NEW p \in Exports, GetDescriptor(p) PROVE CachedExist'
  <2>1. CASE mdCache' = mdCache
    BY <1>1, <2>1 DEF GetDescriptor, service, CachedExist
  <2>2. CASE mdCache' # mdCache
    <3>1. PICK i \in mds[p] : Metric(p, i).type \in descriptors /\ Cache(p, i)
      BY <1>1, <2>2 DEF GetDescriptor
    <3> QED
      BY <1>1, <3>1 DEF GetDescriptor, service, CachedExist, Cache
  <2> QED
    BY <2>1, <2>2
<1>2. ASSUME NEW p \in Exports, CreateDescriptor(p) PROVE CachedExist'
  <2> DEFINE i == current[p]
  <2>1. PICK a \in Answers :
            /\ IF a.effect THEN descriptors' = descriptors \cup {Metric(p, i).type}
                           ELSE UNCHANGED descriptors
            /\ IF a.ok THEN Cache(p, i) /\ UNCHANGED errs
                       ELSE Failed(p, "descriptor") /\ UNCHANGED mdCache
    BY <1>2, Zenon DEF CreateDescriptor
  <2>2. descriptors \subseteq descriptors'
    BY <2>1, Zenon
  <2>3. CASE mdCache' = mdCache
    BY <2>2, <2>3 DEF CachedExist
  <2>4. CASE mdCache' # mdCache
    <3>1. a.ok
      BY <2>1, <2>4, Zenon
    <3>2. a \in {[effect |-> TRUE, ok |-> TRUE], [effect |-> FALSE, ok |-> FALSE],
                 [effect |-> TRUE, ok |-> FALSE]}
      BY <2>1 DEF Answers
    <3>3. a.effect
      BY <3>1, <3>2
    <3>4. Cache(p, i) /\ Metric(p, i).type \in descriptors'
      BY <2>1, <3>1, <3>3, Zenon
    <3> QED
      BY <2>2, <3>4 DEF CachedExist, Cache
  <2> QED
    BY <2>3, <2>4
<1>3. CASE UNCHANGED <<mdCache, descriptors>>
  BY <1>3 DEF CachedExist
<1>4. ASSUME NEW p \in Exports,
             \/ Export(p) \/ LockDescriptors(p) \/ UnlockDescriptors(p) \/ ConvertPoint(p)
             \/ EndConversion(p) \/ SendBatch(p) \/ Return(p)
      PROVE  UNCHANGED <<mdCache, descriptors>>
  BY <1>4, Zenon DEF Export, LockDescriptors, UnlockDescriptors, ConvertPoint,
     EndConversion, SendBatch, Return, service
<1>5. ASSUME NEW s \in Stops, ShutdownStep(s) PROVE UNCHANGED <<mdCache, descriptors>>
  BY <1>5, Zenon DEF ShutdownStep, ShutdownFirst, CloseClient, ShutdownAgain, service
<1>6. CASE UNCHANGED vars
  BY <1>6, <1>3, Zenon DEF vars, service
<1> QED
  BY <1>1, <1>2, <1>3, <1>4, <1>5, <1>6 DEF Next, ExportStep

(* The state of Shutdown, at each step.                                    *)
LEMMA StoppingKept == IInv /\ [Next]_vars => Stopping'
<1> SUFFICES ASSUME IInv, [Next]_vars PROVE Stopping'
  OBVIOUS
<1> USE DEF IInv, Typed, Calls
<1>1. ASSUME UNCHANGED <<once, shutdown, client>>,
             \A s \in Stops : pc'[s] = pc[s] /\ result'[s] = result[s]
      PROVE  Stopping'
  BY <1>1, NoneAssumption DEF Stopping
<1>2. ASSUME NEW p \in Exports, ExportStep(p) PROVE Stopping'
  <2>1. UNCHANGED <<once, shutdown, client>>
    BY <1>2, Zenon DEF ExportStep, Export, LockDescriptors, GetDescriptor, CreateDescriptor,
       UnlockDescriptors, ConvertPoint, EndConversion, SendBatch, Return
  <2>2. \A s \in Stops : pc'[s] = pc[s] /\ result'[s] = result[s]
    BY <1>2, CallsAssumption DEF ExportStep, Export, LockDescriptors, GetDescriptor,
       CreateDescriptor, UnlockDescriptors, ConvertPoint, EndConversion, SendBatch, Return
  <2> QED
    BY <1>1, <2>1, <2>2
<1>3. ASSUME NEW s \in Stops, ShutdownFirst(s) PROVE Stopping'
  <2>1. /\ once = None /\ once' = s /\ pc' = [pc EXCEPT ![s] = "close"]
        /\ UNCHANGED <<client, result>>
    BY <1>3 DEF ShutdownFirst
  <2>2. shutdown' = TRUE
    BY <1>3, Zenon DEF ShutdownFirst
  <2>3. \A t \in Stops : result[t] \notin {"nil", "error"} /\ pc[t] = "idle"
    BY <2>1, NoneAssumption DEF Stopping
  <2>4. pc'[once'] = "close" /\ \A t \in Stops : t # once' => pc'[t] = "idle"
    BY <2>1, <2>3
  <2> QED
    BY <2>1, <2>2, <2>3, <2>4, Zenon DEF Stopping
<1>4. ASSUME NEW s \in Stops, CloseClient(s) PROVE Stopping'
  <2>1. /\ pc[s] = "close" /\ pc' = [pc EXCEPT ![s] = "done"] /\ client' = "closed"
        /\ UNCHANGED <<once, shutdown>>
        /\ \A t \in Stops \ {s} : result'[t] = result[t]
    BY <1>4 DEF CloseClient
  <2>2. once = s /\ once # None
    BY <2>1, NoneAssumption, Zenon DEF Stopping
  <2>3. shutdown' = TRUE
    BY <2>1, <2>2, Zenon DEF Stopping
  <2>4. pc'[once'] = "done"
    BY <2>1, <2>2
  <2>5. \A t \in Stops : t # once' => result'[t] \notin {"nil", "error"}
    BY <2>1, <2>2 DEF Stopping
  <2> QED
    BY <2>1, <2>2, <2>3, <2>4, <2>5, Zenon DEF Stopping
<1>5. ASSUME NEW s \in Stops, ShutdownAgain(s) PROVE Stopping'
  <2>1. /\ pc[s] = "idle" /\ pc' = [pc EXCEPT ![s] = "done"]
        /\ once # None /\ pc[once] = "done" /\ UNCHANGED <<once, shutdown, client>>
        /\ result' = [result EXCEPT ![s] = "errShutdown"]
    BY <1>5 DEF ShutdownAgain, OnceDone
  <2>2. s # once /\ once \in Stops
    BY <2>1
  <2>3. /\ pc'[once'] = "done" /\ result'[s] \notin {"nil", "error"}
        /\ \A t \in Stops \ {s} : pc'[t] = pc[t] /\ result'[t] = result[t]
    BY <2>1, <2>2
  <2>4. client = "closed"
    BY <2>1 DEF Stopping
  <2>5. shutdown' = TRUE
    BY <2>1, Zenon DEF Stopping
  <2> QED
    BY <2>1, <2>2, <2>3, <2>4, <2>5, Zenon DEF Stopping
<1>6. CASE UNCHANGED vars
  BY <1>1, <1>6, Zenon DEF vars, callVars
<1> QED
  BY <1>2, <1>3, <1>4, <1>5, <1>6 DEF Next, ShutdownStep

(* What was sent and acknowledged, at each step.                           *)
LEMMA SendingKept == IInv /\ [Next]_vars => Sending'
<1> SUFFICES ASSUME IInv, [Next]_vars PROVE Sending'
  OBVIOUS
<1> USE DEF IInv, Typed, Calls
(* What the other exports have sent is not touched.                        *)
<1>1. ASSUME NEW p \in Exports, Acknowledged(p)',
             \A q \in Exports \ {p} :
                 /\ sent'[q] = sent[q] /\ tss'[q] = tss[q] /\ stored'[q] = stored[q]
                 /\ errs'[q] = errs[q] /\ pc'[q] = pc[q] /\ result'[q] = result[q]
      PROVE  Sending'
  <2>1. ASSUME NEW q \in Exports \ {p} PROVE Acknowledged(q)'
    BY <1>1 DEF Sending, Acknowledged
  <2> QED
    BY <1>1, <2>1 DEF Sending
<1>2. ASSUME NEW p \in Exports,
             \/ Export(p) \/ LockDescriptors(p) \/ GetDescriptor(p) \/ UnlockDescriptors(p)
             \/ EndConversion(p)
      PROVE  Sending'
  <2>1. UNCHANGED <<sent, tss, errs>> /\ stored' = stored
    BY <1>2, Zenon DEF Export, LockDescriptors, GetDescriptor, UnlockDescriptors,
       EndConversion, service
  <2>2. /\ \A q \in Exports \ {p} : pc'[q] = pc[q] /\ result'[q] = result[q]
        /\ pc'[p] = "done" => result'[p] = "errShutdown"
        /\ result'[p] = "nil" => result[p] = "nil"
        /\ pc[p] # "done"
    BY <1>2 DEF Export, LockDescriptors, GetDescriptor, UnlockDescriptors, EndConversion
  <2>3. Acknowledged(p)'
    BY <2>1, <2>2 DEF Sending, Acknowledged
  <2> QED
    BY <1>1, <2>1, <2>2, <2>3
<1>3. ASSUME NEW p \in Exports, CreateDescriptor(p) PROVE Sending'
  <2>1. /\ UNCHANGED <<sent, tss, result>> /\ stored' = stored
        /\ pc[p] = "create" /\ pc' = [pc EXCEPT ![p] = "describe"]
    BY <1>3, Zenon DEF CreateDescriptor
  <2>2. errs' = errs \/ Failed(p, "descriptor")
    BY <1>3, Zenon DEF CreateDescriptor
  <2>3. Acknowledged(p)'
    BY <2>1, <2>2 DEF Sending, Acknowledged, Failed
  <2> QED
    BY <1>1, <2>1, <2>2, <2>3 DEF Failed
<1>4. ASSUME NEW p \in Exports, ConvertPoint(p) PROVE Sending'
  <2>1. /\ UNCHANGED <<sent, result, pc>> /\ stored' = stored /\ pc[p] = "convert"
    BY <1>4, Zenon DEF ConvertPoint, service
  <2>2. /\ errs' = errs \/ Failed(p, "conversion")
        /\ tss' = tss \/ \E t : tss' = [tss EXCEPT ![p] = Append(@, t)]
    BY <1>4, Zenon DEF ConvertPoint
  <2>3. Len(tss'[p]) >= Len(tss[p]) /\ \A q \in Exports \ {p} : tss'[q] = tss[q]
    BY <2>2
  <2>4. errs[p] \subseteq errs'[p] /\ \A q \in Exports \ {p} : errs'[q] = errs[q]
    BY <2>2 DEF Failed
  <2>5. Len(tss[p]) \in Nat /\ Len(tss'[p]) >= Len(tss[p]) /\ sent'[p] <= Len(tss'[p])
    BY <2>1, <2>3 DEF Sending, Acknowledged
  <2>6. pc'[p] # "done" /\ result'[p] # "nil"
    BY <2>1 DEF Sending, Acknowledged
  <2>7. stored'[p] = 1..sent'[p] \/ "series" \in errs'[p]
    BY <2>1, <2>4 DEF Sending, Acknowledged
  <2>8. Acknowledged(p)'
    BY <2>5, <2>6, <2>7, Zenon DEF Acknowledged
  <2> QED
    BY <1>1, <2>1, <2>3, <2>4, <2>8
<1>5. ASSUME NEW p \in Exports, SendBatch(p) PROVE Sending'
  <2> DEFINE end == BatchEnd(p, sent[p])
             Batch == (sent[p] + 1)..end
  <2>1. /\ UNCHANGED <<result, pc, tss>> /\ pc[p] = "send"
        /\ sent' = [sent EXCEPT ![p] = end] /\ sent[p] < Len(tss[p])
    BY <1>5 DEF SendBatch
  <2>2. \/ stored' = [stored EXCEPT ![p] = @ \cup Batch] /\ errs' = errs
        \/ stored' = stored /\ Failed(p, "series")
    BY <1>5, Zenon DEF SendBatch
  <2>3. sent[p] < end /\ end <= Len(tss[p]) /\ end \in Nat
    BY <2>1, BatchAssumption DEF BatchEnd
  <2>4. 1..end = (1..sent[p]) \cup Batch
    BY <2>3
  <2>5. stored'[p] = 1..sent'[p] \/ "series" \in errs'[p]
    <3>1. CASE stored' = stored /\ Failed(p, "series")
      BY <3>1 DEF Failed
    <3>2. CASE stored' = [stored EXCEPT ![p] = @ \cup Batch] /\ errs' = errs
      <4>1. stored'[p] = stored[p] \cup Batch /\ sent'[p] = end /\ errs'[p] = errs[p]
        BY <2>1, <3>2
      <4> HIDE DEF end, Batch
      <4>2. stored[p] = 1..sent[p] \/ "series" \in errs[p]
        BY Zenon DEF Sending, Acknowledged
      <4> QED
        BY <2>4, <4>1, <4>2, Zenon
    <3> QED
      BY <2>2, <3>1, <3>2
  <2>6. Acknowledged(p)'
    BY <2>1, <2>3, <2>5 DEF Sending, Acknowledged
  <2> QED
    BY <1>1, <2>1, <2>2, <2>6 DEF Failed
<1>6. ASSUME NEW p \in Exports, Return(p) PROVE Sending'
  <2>1. /\ UNCHANGED <<sent, tss, errs>> /\ stored' = stored
        /\ sent[p] >= Len(tss[p]) /\ pc' = [pc EXCEPT ![p] = "done"]
        /\ result' = [result EXCEPT ![p] = IF errs[p] = {} THEN "nil" ELSE "error"]
    BY <1>6, Zenon DEF Return, service
  <2>2. Acknowledged(p)'
    BY <2>1 DEF Sending, Acknowledged
  <2> QED
    BY <1>1, <2>1, <2>2
<1>7. ASSUME NEW s \in Stops, ShutdownStep(s) PROVE Sending'
  <2>1. UNCHANGED <<sent, tss, errs>> /\ stored' = stored
    BY <1>7, Zenon DEF ShutdownStep, ShutdownFirst, CloseClient, ShutdownAgain, service
  <2>2. \A q \in Exports : pc'[q] = pc[q] /\ result'[q] = result[q]
    BY <1>7, CallsAssumption DEF ShutdownStep, ShutdownFirst, CloseClient, ShutdownAgain
  <2> QED
    BY <2>1, <2>2 DEF Sending, Acknowledged
<1>8. CASE UNCHANGED vars
  BY <1>8 DEF vars, callVars, service, Sending, Acknowledged
<1> QED
  BY <1>2, <1>3, <1>4, <1>5, <1>6, <1>7, <1>8 DEF Next, ExportStep
-----------------------------------------------------------------------------
(* The invariant holds at the start.                                       *)
LEMMA IInvInit == Init => IInv
<1> SUFFICES ASSUME Init PROVE IInv
  OBVIOUS
<1>1. Flags
  BY Zenon DEF Init, Flags
<1>2. Typed
  BY DEF Init, Typed, Calls
<1>3. Locking /\ CachedExist
  BY DEF Init, Locking, WorkLeft, Holding, CachedExist, Calls
<1>4. Stopping
  BY NoneAssumption DEF Init, Stopping, Calls
<1>5. Sending
  BY DEF Init, Sending, Acknowledged, Calls
<1> QED
  BY <1>1, <1>2, <1>3, <1>4, <1>5 DEF IInv

(* The inductive invariant, of any number of overlapping calls.            *)
THEOREM Inductive == Spec => []IInv
<1>1. IInv /\ [Next]_vars => IInv'
  BY FlagsKept, TypedKept, LockingKept, CachedExistKept, StoppingKept, SendingKept
     DEF IInv
<1> QED
  BY IInvInit, <1>1, PTL DEF Spec

(* Types of every variable.                                                *)
THEOREM TypesHold == Spec => []TypeOK
<1>1. IInv => TypeOK
  BY Zenon DEF IInv, Flags, Typed, TypeOK, ErrorKinds
<1> QED
  BY Inductive, <1>1, PTL

(* No metric whose descriptor is cached is left to describe, whichever     *)
(* calls of Export overlap: mdLock is held from the look into the cache to *)
(* the last write (metric.go:181).                                         *)
THEOREM NotDescribedAgain == Spec => []DescribedOnce
<1>1. IInv => DescribedOnce
  BY Zenon DEF IInv, Locking, WorkLeft, DescribedOnce
<1> QED
  BY Inductive, <1>1, PTL

(* After any Shutdown has returned the client is closed for good, and only *)
(* one call has closed it.                                                 *)
THEOREM ShutdownFinal == Spec => []StopIsFinal
<1>1. ASSUME IInv PROVE StopIsFinal
  <2> DEFINE Closers == {s \in Stops : result[s] \in {"nil", "error"}}
  <2>1. ASSUME NEW s \in Stops, pc[s] = "done" PROVE shutdown /\ client = "closed"
    <3>1. once # None /\ pc[once] = "done"
      BY <1>1, <2>1, NoneAssumption DEF IInv, Typed, Stopping
    <3> QED
      BY <1>1, <3>1, Zenon DEF IInv, Stopping
  <2>2. Closers \in SUBSET {once}
    BY <1>1, Zenon DEF IInv, Stopping
  <2>3. IsFiniteSet({once}) /\ Cardinality({once}) = 1
    BY FS_Singleton
  <2>4. Cardinality(Closers) <= 1
    BY <2>2, <2>3, FS_Subset
  <2> QED
    BY <2>1, <2>4, Zenon DEF StopIsFinal
<1> QED
  BY Inductive, <1>1, PTL

(* A successful Export has each of its converted series stored, whatever   *)
(* batches they went in: an unacknowledged one is an error in the end.     *)
StoredWhenNil ==
    \A p \in Exports : result[p] = "nil" => stored[p] = 1..Len(tss[p])
THEOREM NilMeansStored == Spec => []StoredWhenNil
<1>1. IInv => StoredWhenNil
  BY DEF IInv, Sending, Acknowledged, StoredWhenNil
<1> QED
  BY Inductive, <1>1, PTL

(* A step drops nothing from the cache, and no descriptor that exists.      *)
LEMMA Grows ==
    ASSUME IInv, [Next]_vars
    PROVE  /\ \A k \in Keys : mdCache[k] # None => mdCache'[k] = mdCache[k]
           /\ descriptors \subseteq descriptors'
<1>1. ASSUME NEW p \in Exports, NEW i \in mds[p], Cache(p, i),
             NEW k \in Keys, mdCache[k] # None
      PROVE  mdCache'[k] = mdCache[k]
  BY <1>1 DEF IInv, Typed, Locking, WorkLeft, Cache
<1>2. ASSUME NEW p \in Exports, ExportStep(p)
      PROVE  (mdCache' = mdCache \/ \E i \in mds[p] : Cache(p, i))
             /\ descriptors \subseteq descriptors'
  <2>1. CASE GetDescriptor(p)
    BY <2>1, Zenon DEF GetDescriptor, service
  <2>2. CASE CreateDescriptor(p)
    <3>1. current[p] \in mds[p]
      BY <2>2, Zenon DEF CreateDescriptor, IInv, Locking, Holding
    <3> QED
      BY <2>2, <3>1, Zenon DEF CreateDescriptor
  <2>3. CASE \/ Export(p) \/ LockDescriptors(p) \/ UnlockDescriptors(p)
             \/ ConvertPoint(p) \/ EndConversion(p) \/ SendBatch(p) \/ Return(p)
    BY <2>3, Zenon DEF Export, LockDescriptors, UnlockDescriptors, ConvertPoint,
       EndConversion, SendBatch, Return, service
  <2> QED
    BY <1>2, <2>1, <2>2, <2>3 DEF ExportStep
<1>3. ASSUME NEW s \in Stops, ShutdownStep(s) PROVE mdCache' = mdCache /\ descriptors' = descriptors
  BY <1>3, Zenon DEF ShutdownStep, ShutdownFirst, CloseClient, ShutdownAgain, service
<1>4. CASE UNCHANGED vars
  BY <1>4 DEF vars, service
<1> QED
  BY <1>1, <1>2, <1>3, <1>4 DEF Next

(* A cached type exists in the service, and is never changed to another    *)
(* one: the series of one key are all written under one type.              *)
CachedKept == [][\A k \in Keys : mdCache[k] # None => mdCache'[k] = mdCache[k]]_vars
THEOREM CacheOnlyGrows == Spec => []CachedExist /\ CachedKept
<1>1. IInv => CachedExist
  BY DEF IInv
<1>2. IInv /\ [Next]_vars => [\A k \in Keys : mdCache[k] # None => mdCache'[k] = mdCache[k]]_vars
  BY Grows
<1> QED
  BY Inductive, <1>1, <1>2, PTL DEF Spec, CachedKept
-----------------------------------------------------------------------------
(* The points before next: those that a call has converted or given up.    *)
Passed(p) ==
    {q \in PointsOf(p) : \/ q[1] < next[p][1]
                         \/ q[1] = next[p][1] /\ q[2] < next[p][2]}

(* A point that is passed is a series, or there is an error for it; and a  *)
(* call sends when it has passed them all.                                 *)
Counted(p) ==
    /\ IsFiniteSet(Passed(p))
    /\ Cardinality(Passed(p)) = Len(tss[p]) \/ "conversion" \in errs[p]
    /\ pc[p] = "send" \/ (pc[p] = "done" /\ result[p] # "errShutdown") =>
          next[p][1] > Len(MetricsOf[p])

(* A metric of the call that has no cached descriptor has one to come, of  *)
(* its own or of an earlier metric of its key, unless one has failed; and  *)
(* the series are of types that exist.                                     *)
Cached(p, i) == mdCache[Metric(p, i).key] # None
Described(p) ==
    ~disableCreateMetricDescriptors /\ "descriptor" \notin errs[p] =>
        /\ pc[p] \in {"describe", "create"} =>
              \A i \in 1..Len(MetricsOf[p]) :
                  Cached(p, i) \/ \E j \in mds[p] : Metric(p, j).key = Metric(p, i).key
        /\ pc[p] = "convert" => \A i \in 1..Len(MetricsOf[p]) : Cached(p, i)
        /\ \A i \in 1..Len(tss[p]) : tss[p][i] \in descriptors

Points == \A p \in Exports : Counted(p) /\ Described(p)

(* The option is fixed, and what the service has it keeps.                 *)
LEMMA OptionKept ==
    ASSUME [Next]_vars
    PROVE  disableCreateMetricDescriptors' = disableCreateMetricDescriptors
<1> USE Zenon
<1>1. ASSUME NEW p \in Exports, ExportStep(p)
      PROVE  disableCreateMetricDescriptors' = disableCreateMetricDescriptors
  BY <1>1 DEF ExportStep, Export, LockDescriptors, GetDescriptor, CreateDescriptor,
     UnlockDescriptors, ConvertPoint, EndConversion, SendBatch, Return
<1>2. ASSUME NEW s \in Stops, ShutdownStep(s)
      PROVE  disableCreateMetricDescriptors' = disableCreateMetricDescriptors
  BY <1>2 DEF ShutdownStep, ShutdownFirst, CloseClient, ShutdownAgain
<1> QED
  BY <1>1, <1>2 DEF Next, vars

(* What is known of an Export whose part of the state is left alone.       *)
LEMMA PointsSame ==
    ASSUME IInv, [Next]_vars, NEW p \in Exports, Counted(p), Described(p),
           next'[p] = next[p], tss'[p] = tss[p], errs'[p] = errs[p], mds'[p] = mds[p],
           pc'[p] = pc[p], result'[p] = result[p]
    PROVE  Counted(p)' /\ Described(p)'
<1>1. Passed(p)' = Passed(p)
  BY DEF Passed, PointsOf, Metric
<1>2. Counted(p)'
  BY <1>1 DEF Counted
<1>3. Described(p)'
  <2> SUFFICES ASSUME ~disableCreateMetricDescriptors', "descriptor" \notin errs[p]
               PROVE  /\ pc[p] \in {"describe", "create"} =>
                            \A i \in 1..Len(MetricsOf[p]) : Cached(p, i)' \/
                               \E j \in mds[p] : Metric(p, j).key = Metric(p, i).key
                      /\ pc[p] = "convert" => \A i \in 1..Len(MetricsOf[p]) : Cached(p, i)'
                      /\ \A i \in 1..Len(tss[p]) : tss[p][i] \in descriptors'
    BY DEF Described, Metric
  <2>1. ~disableCreateMetricDescriptors
    BY OptionKept, Zenon
  <2>2. \A i \in 1..Len(MetricsOf[p]) : Cached(p, i) => Cached(p, i)'
    BY Grows, MetricTyped DEF Cached, Metric
  <2>3. descriptors \subseteq descriptors'
    BY Grows
  <2> QED
    BY <2>1, <2>2, <2>3 DEF Described
<1> QED
  BY <1>2, <1>3

(* LockDescriptors takes one metric of every key that is not cached.       *)
LEMMA UndescribedWhole ==
    ASSUME NEW p \in Exports, NEW i \in 1..Len(MetricsOf[p]), ~Cached(p, i)
    PROVE  \E j \in Undescribed(p) : Metric(p, j).key = Metric(p, i).key
<1> DEFINE T == {j \in 1..Len(MetricsOf[p]) : Metric(p, j).key = Metric(p, i).key}
<1>1. Len(MetricsOf[p]) \in Nat /\ DOMAIN MetricsOf[p] = 1..Len(MetricsOf[p])
  BY MetricsAssumption
<1>2. i \in T /\ T \in SUBSET Nat
  BY <1>1
<1>3. PICK j \in T : \A k \in T : j <= k
  BY <1>2, Least
<1>4. \A k \in 1..(j - 1) : k \in 1..Len(MetricsOf[p]) /\ ~(j <= k)
  BY <1>1, <1>3
<1>5. \A k \in 1..(j - 1) : Metric(p, k).key # Metric(p, j).key
  BY <1>3, <1>4
<1>6. j \in Undescribed(p)
  BY <1>1, <1>3, <1>5 DEF Undescribed, Cached
<1> QED
  BY <1>3, <1>6

(* Converting a point, or going on to the next metric.                     *)
LEMMA PassedByConversion ==
    ASSUME IInv, NEW p \in Exports, ConvertPoint(p), Counted(p)
    PROVE  Counted(p)'
<1> USE DEF IInv, Typed
<1> DEFINE i == next[p][1]
           j == next[p][2]
<1>1. /\ i \in Nat \ {0} /\ j \in Nat \ {0} /\ next[p] = <<i, j>>
      /\ Len(MetricsOf[p]) \in Nat /\ i \in 1..Len(MetricsOf[p])
      /\ DOMAIN MetricsOf[p] = 1..Len(MetricsOf[p])
      /\ pc[p] = "convert" /\ pc'[p] = "convert"
  <2>1. i \in Nat \ {0} /\ j \in Nat \ {0} /\ next[p] = <<i, j>>
    OBVIOUS
  <2>2. Len(MetricsOf[p]) \in Nat /\ DOMAIN MetricsOf[p] = 1..Len(MetricsOf[p])
    BY MetricsAssumption
  <2>3. i <= Len(MetricsOf[p]) /\ pc[p] = "convert" /\ pc' = pc
    BY DEF ConvertPoint
  <2> HIDE DEF i, j
  <2> QED
    BY <2>1, <2>2, <2>3
<1>2. Metric(p, i).points \in Seq(BOOLEAN)
  BY <1>1, MetricTyped
<1>3. \A q \in PointsOf(p) : /\ q = <<q[1], q[2]>> /\ q[1] \in 1..Len(MetricsOf[p])
                             /\ q[2] \in 1..Len(Metric(p, q[1]).points)
                             /\ q[1] \in Nat /\ q[2] \in Nat \ {0}
  <2> SUFFICES ASSUME NEW k \in 1..Len(MetricsOf[p]), NEW l \in DOMAIN Metric(p, k).points
               PROVE  l \in 1..Len(Metric(p, k).points) /\ l \in Nat \ {0}
    BY <1>1, SMTT(30) DEF PointsOf
  <2>1. Metric(p, k).points \in Seq(BOOLEAN)
    BY MetricTyped
  <2> QED
    BY <2>1
<1> HIDE DEF i, j
<1>4. CASE j > Len(Metric(p, i).points)
  <2>1. next'[p] = <<i + 1, 1>> /\ tss' = tss /\ errs' = errs
    BY <1>4 DEF ConvertPoint, i, j
  <2>2. ASSUME NEW q \in PointsOf(p)
        PROVE  (q[1] < i + 1 \/ (q[1] = i + 1 /\ q[2] < 1))
                  <=> (q[1] < i \/ (q[1] = i /\ q[2] < j))
    <3>1. q[1] = i => q[2] < j
      BY <1>1, <1>2, <1>3, <1>4
    <3>2. q[1] \in Nat /\ q[2] \in Nat \ {0}
      BY <1>3
    <3> QED
      BY <1>1, <3>1, <3>2, SMTT(30)
  <2>3. Passed(p)' = Passed(p)
    BY <1>1, <2>1, <2>2 DEF Passed, PointsOf, Metric
  <2> QED
    BY <1>1, <2>1, <2>3 DEF Counted
<1>5. CASE j <= Len(Metric(p, i).points)
  <2>1. next'[p] = <<i, j + 1>>
    BY <1>1, <1>2, <1>5 DEF ConvertPoint, i, j
  <2>2. \/ (\E t : tss'[p] = Append(tss[p], t)) /\ errs' = errs
        \/ "conversion" \in errs'[p]
    <3>1. ~(j > Len(Metric(p, i).points))
      BY <1>1, <1>2, <1>5
    <3>2. \/ /\ tss' = [tss EXCEPT ![p] = Append(@, MetricType(Metric(p, i)))]
             /\ errs' = errs
          \/ Failed(p, "conversion")
      BY <3>1, Zenon DEF ConvertPoint, i, j
    <3>3. CASE /\ tss' = [tss EXCEPT ![p] = Append(@, MetricType(Metric(p, i)))]
               /\ errs' = errs
      BY <3>3
    <3>4. CASE Failed(p, "conversion")
      BY <3>4 DEF Failed
    <3> QED
      BY <3>2, <3>3, <3>4
  <2>3. "conversion" \in errs[p] => "conversion" \in errs'[p]
    BY <2>2
  <2>4. <<i, j>> \in PointsOf(p) /\ <<i, j>> \notin Passed(p)
    <3>1. j \in DOMAIN Metric(p, i).points
      BY <1>1, <1>2, <1>5
    <3>2. <<i, j>> \in PointsOf(p)
      BY <1>1, <3>1 DEF PointsOf
    <3> QED
      BY <1>1, <3>2 DEF Passed
  <2>5. ASSUME NEW q \in PointsOf(p)
        PROVE  (q[1] < i \/ (q[1] = i /\ q[2] < j + 1))
                  <=> (q[1] < i \/ (q[1] = i /\ q[2] < j)) \/ q = <<i, j>>
    BY <1>1, <1>3
  <2>6. Passed(p)' = Passed(p) \cup {<<i, j>>}
    BY <1>1, <2>1, <2>4, <2>5 DEF Passed, PointsOf, Metric
  <2>7. IsFiniteSet(Passed(p))' /\ Cardinality(Passed(p)') = Cardinality(Passed(p)) + 1
    <3>1. IsFiniteSet(Passed(p))
      BY DEF Counted
    <3>2. /\ IsFiniteSet(Passed(p) \cup {<<i, j>>})
          /\ Cardinality(Passed(p) \cup {<<i, j>>}) = Cardinality(Passed(p)) + 1
      BY <2>4, <3>1, FS_AddElement
    <3> QED
      BY <2>6, <3>2
  <2>8. Cardinality(Passed(p)') = Len(tss'[p]) \/ "conversion" \in errs'[p]
    BY <2>2, <2>3, <2>7 DEF Counted
  <2> QED
    BY <1>1, <2>7, <2>8 DEF Counted
<1> QED
  BY <1>1, <1>2, <1>4, <1>5

(* A step that passes no point.                                            *)
LEMMA PassedSame ==
    ASSUME NEW p \in Exports, Counted(p), next'[p] = next[p], tss'[p] = tss[p],
           errs[p] \subseteq errs'[p],
           pc'[p] = "send" \/ (pc'[p] = "done" /\ result'[p] # "errShutdown") =>
              next[p][1] > Len(MetricsOf[p])
    PROVE  Counted(p)'
<1>1. Passed(p)' = Passed(p)
  BY DEF Passed, PointsOf, Metric
<1> QED
  BY <1>1 DEF Counted

(* What Described(p) says where it has something to say.                   *)
DescribedNow(p) ==
    /\ pc[p] \in {"describe", "create"} =>
          \A i \in 1..Len(MetricsOf[p]) :
              Cached(p, i) \/ \E j \in mds[p] : Metric(p, j).key = Metric(p, i).key
    /\ pc[p] = "convert" => \A i \in 1..Len(MetricsOf[p]) : Cached(p, i)
    /\ \A i \in 1..Len(tss[p]) : tss[p][i] \in descriptors

(* To prove it of the next state one may use that it holds now.            *)
Known(p) ==
    /\ DescribedNow(p) /\ "descriptor" \notin errs'[p]
    /\ ~disableCreateMetricDescriptors
    /\ \A i \in 1..Len(MetricsOf[p]) : Cached(p, i) => Cached(p, i)'
    /\ descriptors \subseteq descriptors'

(* What is described stays described, or is described by this step.        *)
LEMMA DescribedStep ==
    ASSUME IInv, [Next]_vars, NEW p \in Exports, Described(p), errs[p] \subseteq errs'[p],
           Known(p) => DescribedNow(p)'
    PROVE  Described(p)'
<1> SUFFICES ASSUME ~disableCreateMetricDescriptors', "descriptor" \notin errs'[p]
             PROVE  DescribedNow(p)'
  BY DEF Described, DescribedNow
<1>1. ~disableCreateMetricDescriptors
  BY OptionKept, Zenon
<1>2. "descriptor" \notin errs[p]
  OBVIOUS
<1>3. DescribedNow(p)
  BY <1>1, <1>2 DEF Described, DescribedNow
<1>4. \A i \in 1..Len(MetricsOf[p]) : Cached(p, i) => Cached(p, i)'
  BY Grows, MetricTyped DEF Cached, Metric
<1>5. descriptors \subseteq descriptors'
  BY Grows
<1> QED
  BY <1>1, <1>3, <1>4, <1>5 DEF Known

(* The points that are accounted for, at each step.                        *)
LEMMA PointsKept == IInv /\ Points /\ [Next]_vars => Points'
<1> SUFFICES ASSUME IInv, Points, [Next]_vars PROVE Points'
  OBVIOUS
<1> USE DEF IInv, Typed, Calls
(* The other exports.                                                      *)
<1>1. ASSUME NEW p \in Exports, Counted(p)', Described(p)',
             \A q \in Exports \ {p} :
                 /\ next'[q] = next[q] /\ tss'[q] = tss[q] /\ errs'[q] = errs[q]
                 /\ mds'[q] = mds[q] /\ pc'[q] = pc[q] /\ result'[q] = result[q]
      PROVE  Points'
  <2>1. ASSUME NEW q \in Exports \ {p} PROVE Counted(q)' /\ Described(q)'
    BY <1>1, PointsSame DEF Points
  <2> QED
    BY <1>1, <2>1 DEF Points
<1>2. ASSUME NEW p \in Exports, Export(p) PROVE Points'
  <2>1. /\ UNCHANGED <<next, tss, errs, mds>> /\ pc[p] = "idle"
        /\ pc'[p] \in {"convert", "lock", "done"}
        /\ pc'[p] = "done" => result'[p] = "errShutdown"
        /\ pc'[p] = "convert" => disableCreateMetricDescriptors
        /\ \A q \in Exports \ {p} : pc'[q] = pc[q] /\ result'[q] = result[q]
    BY <1>2 DEF Export
  <2>2. Counted(p)'
    BY <2>1, PassedSame DEF Points
  <2>3. Known(p) => DescribedNow(p)'
    BY <2>1 DEF DescribedNow, Known
  <2>4. Described(p)'
    BY <2>1, <2>3, DescribedStep DEF Points
  <2> QED
    BY <1>1, <2>1, <2>2, <2>4
<1>3. ASSUME NEW p \in Exports, LockDescriptors(p) PROVE Points'
  <2>1. /\ UNCHANGED <<next, tss, errs, result, mdCache>>
        /\ mds' = [mds EXCEPT ![p] = Undescribed(p)]
        /\ pc' = [pc EXCEPT ![p] = "describe"]
    BY <1>3 DEF LockDescriptors
  <2>2. Counted(p)'
    BY <2>1, PassedSame DEF Points
  <2>3. ASSUME NEW i \in 1..Len(MetricsOf[p])
        PROVE  Cached(p, i)' \/ \E j \in mds'[p] : Metric(p, j).key = Metric(p, i).key
    BY <2>1, UndescribedWhole DEF Cached, Metric
  <2>4. Known(p) => DescribedNow(p)'
    BY <2>1, <2>3 DEF DescribedNow, Known, Metric
  <2>5. Described(p)'
    BY <2>1, <2>4, DescribedStep DEF Points
  <2> QED
    BY <1>1, <2>1, <2>2, <2>5
<1>4. ASSUME NEW p \in Exports, GetDescriptor(p) PROVE Points'
  <2>1. UNCHANGED <<next, tss, errs, result>> /\ pc[p] = "describe"
    BY <1>4 DEF GetDescriptor
  <2>2. PICK i \in mds[p] :
            \/ Cache(p, i) /\ mds' = [mds EXCEPT ![p] = @ \ {i}] /\ UNCHANGED <<pc, current>>
            \/ /\ current' = [current EXCEPT ![p] = i] /\ pc' = [pc EXCEPT ![p] = "create"]
               /\ UNCHANGED <<mdCache, mds>>
    BY <1>4, Zenon DEF GetDescriptor
  <2>3. Counted(p)'
    BY <2>1, <2>2, PassedSame DEF Points
  <2>4. i \in 1..Len(MetricsOf[p])
    BY DEF Locking, WorkLeft
  <2>5. ASSUME DescribedNow(p), \A k \in 1..Len(MetricsOf[p]) : Cached(p, k) => Cached(p, k)',
               NEW k \in 1..Len(MetricsOf[p])
        PROVE  Cached(p, k)' \/ \E j \in mds'[p] : Metric(p, j).key = Metric(p, k).key
    <3>1. CASE Cached(p, k)
      BY <2>5, <3>1
    <3>2. CASE ~Cached(p, k)
      <4>1. PICK j \in mds[p] : Metric(p, j).key = Metric(p, k).key
        BY <2>1, <2>5, <3>2 DEF DescribedNow
      <4>2. CASE j \in mds'[p]
        BY <4>1, <4>2
      <4>3. CASE j \notin mds'[p]
        <5>1. j = i /\ Cache(p, i)
          BY <2>2, <4>3
        <5>2. Metric(p, i).key \in Keys /\ Metric(p, i).type \in Types
          BY <2>4, MetricTyped
        <5>3. mdCache'[Metric(p, k).key] # None
          BY <4>1, <5>1, <5>2, NoneAssumption DEF Cache
        <5> QED
          BY <5>3 DEF Cached, Metric
      <4> QED
        BY <4>2, <4>3
    <3> QED
      BY <3>1, <3>2
  <2>6. pc'[p] # "convert"
    BY <2>1, <2>2
  <2>7. ASSUME Known(p) PROVE DescribedNow(p)'
    <3>1. \A k \in 1..Len(MetricsOf[p]) :
             Cached(p, k)' \/ \E j \in mds'[p] : Metric(p, j).key = Metric(p, k).key
      BY <2>5, <2>7 DEF Known
    <3> QED
      BY <2>1, <2>6, <2>7, <3>1 DEF DescribedNow, Known, Metric
  <2>8. Described(p)'
    BY <2>1, <2>7, DescribedStep DEF Points
  <2> QED
    BY <1>1, <2>1, <2>2, <2>3, <2>8
<1>5. ASSUME NEW p \in Exports, CreateDescriptor(p) PROVE Points'
  <2> DEFINE i == current[p]
  <2>1. /\ UNCHANGED <<next, tss, result>> /\ pc[p] = "create"
        /\ mds' = [mds EXCEPT ![p] = @ \ {i}] /\ pc' = [pc EXCEPT ![p] = "describe"]
        /\ (Cache(p, i) /\ errs' = errs) \/ Failed(p, "descriptor")
    BY <1>5, Zenon DEF CreateDescriptor
  <2>2. errs[p] \subseteq errs'[p] /\ \A q \in Exports \ {p} : errs'[q] = errs[q]
    BY <2>1 DEF Failed
  <2>3. Counted(p)'
    BY <2>1, <2>2, PassedSame DEF Points
  <2>4. i \in mds[p] /\ i \in 1..Len(MetricsOf[p])
    BY <2>1 DEF Locking, WorkLeft, Holding
  <2>5. ASSUME DescribedNow(p), \A k \in 1..Len(MetricsOf[p]) : Cached(p, k) => Cached(p, k)',
               "descriptor" \notin errs'[p], NEW k \in 1..Len(MetricsOf[p])
        PROVE  Cached(p, k)' \/ \E j \in mds'[p] : Metric(p, j).key = Metric(p, k).key
    <3>1. CASE Cached(p, k)
      BY <2>5, <3>1
    <3>2. CASE ~Cached(p, k)
      <4>1. PICK j \in mds[p] : Metric(p, j).key = Metric(p, k).key
        BY <2>1, <2>5, <3>2 DEF DescribedNow
      <4>2. CASE j # i
        BY <2>1, <4>1, <4>2
      <4>3. CASE j = i
        <5>1. Cache(p, i)
          BY <2>1, <2>5 DEF Failed
        <5>2. Metric(p, i).key \in Keys /\ Metric(p, i).type \in Types
          BY <2>4, MetricTyped
        <5>3. mdCache'[Metric(p, k).key] # None
          BY <4>1, <4>3, <5>1, <5>2, NoneAssumption DEF Cache
        <5> QED
          BY <5>3 DEF Cached, Metric
      <4> QED
        BY <4>2, <4>3
    <3> QED
      BY <3>1, <3>2
  <2>6. pc'[p] = "describe"
    BY <2>1
  <2>7. ASSUME Known(p) PROVE DescribedNow(p)'
    <3>1. \A k \in 1..Len(MetricsOf[p]) :
             Cached(p, k)' \/ \E j \in mds'[p] : Metric(p, j).key = Metric(p, k).key
      BY <2>5, <2>7 DEF Known
    <3> QED
      BY <2>1, <2>6, <2>7, <3>1 DEF DescribedNow, Known, Metric
  <2>8. Described(p)'
    BY <2>2, <2>7, DescribedStep DEF Points
  <2> QED
    BY <1>1, <2>1, <2>2, <2>3, <2>8
<1>6. ASSUME NEW p \in Exports, UnlockDescriptors(p) PROVE Points'
  <2>1. /\ UNCHANGED <<next, tss, errs, result, mds, mdCache>> /\ mds[p] = {}
        /\ pc[p] = "describe" /\ pc' = [pc EXCEPT ![p] = "convert"]
    BY <1>6 DEF UnlockDescriptors
  <2>2. Counted(p)'
    BY <2>1, PassedSame DEF Points
  <2>3. Known(p) => DescribedNow(p)'
    BY <2>1 DEF DescribedNow, Known, Cached, Metric
  <2>4. Described(p)'
    BY <2>1, <2>3, DescribedStep DEF Points
  <2> QED
    BY <1>1, <2>1, <2>2, <2>4
<1>7. ASSUME NEW p \in Exports, ConvertPoint(p) PROVE Points'
  <2> DEFINE i == next[p][1]
  <2>1. /\ UNCHANGED <<result, pc, mds, mdCache>> /\ pc[p] = "convert"
        /\ errs' = errs \/ Failed(p, "conversion")
        /\ tss' = tss \/ (/\ i <= Len(MetricsOf[p])
                          /\ tss' = [tss EXCEPT ![p] = Append(@, MetricType(Metric(p, i)))])
        /\ next' = [next EXCEPT ![p] = next'[p]]
    <3>1. /\ UNCHANGED <<result, pc, mds, mdCache>> /\ pc[p] = "convert"
          /\ errs' = errs \/ Failed(p, "conversion")
          /\ tss' = tss \/ (/\ i <= Len(MetricsOf[p])
                            /\ tss' = [tss EXCEPT ![p] = Append(@, MetricType(Metric(p, i)))])
      BY <1>7, Zenon DEF ConvertPoint
    <3>2. next' = [next EXCEPT ![p] = next'[p]]
      BY <1>7 DEF ConvertPoint
    <3> QED
      BY <3>1, <3>2
  <2>2. errs[p] \subseteq errs'[p] /\ \A q \in Exports \ {p} : errs'[q] = errs[q]
    BY <2>1 DEF Failed
  <2>3. Counted(p)'
    BY <1>7, PassedByConversion DEF Points
  <2>4. ASSUME DescribedNow(p) PROVE \A n \in 1..Len(tss'[p]) : tss'[p][n] \in descriptors
    <3>1. CASE tss' = tss
      BY <2>4, <3>1 DEF DescribedNow
    <3>2. CASE tss' # tss
      <4>1. i \in 1..Len(MetricsOf[p])
        <5>1. i \in Nat \ {0} /\ i <= Len(MetricsOf[p])
          BY <2>1, <3>2
        <5>2. Len(MetricsOf[p]) \in Nat
          BY MetricsAssumption
        <5> HIDE DEF i
        <5> QED
          BY <5>1, <5>2
      <4>2. mdCache[Metric(p, i).key] # None /\ Metric(p, i).key \in Keys
        BY <2>1, <2>4, <4>1, MetricTyped DEF DescribedNow, Cached
      <4>3. MetricType(Metric(p, i)) \in descriptors
        BY <4>2 DEF MetricType, CachedExist
      <4>4. tss'[p] = Append(tss[p], MetricType(Metric(p, i))) /\ tss[p] \in Seq(Types)
        BY <2>1, <3>2
      <4> QED
        BY <2>4, <4>3, <4>4 DEF DescribedNow
    <3> QED
      BY <3>1, <3>2
  <2>5. Known(p) => DescribedNow(p)'
    BY <2>1, <2>4 DEF DescribedNow, Known, Cached, Metric
  <2>6. Described(p)'
    BY <2>2, <2>5, DescribedStep DEF Points
  <2>7. \A q \in Exports \ {p} : tss'[q] = tss[q] /\ next'[q] = next[q]
    BY <2>1
  <2> QED
    BY <1>1, <2>1, <2>2, <2>3, <2>6, <2>7
<1>8. ASSUME NEW p \in Exports, EndConversion(p) PROVE Points'
  <2>1. /\ UNCHANGED <<next, tss, errs, result, mds>> /\ next[p][1] > Len(MetricsOf[p])
        /\ pc' = [pc EXCEPT ![p] = "send"]
    BY <1>8 DEF EndConversion
  <2>2. Counted(p)'
    BY <2>1, PassedSame DEF Points
  <2>3. Known(p) => DescribedNow(p)'
    BY <2>1 DEF DescribedNow, Known
  <2>4. Described(p)'
    BY <2>1, <2>3, DescribedStep DEF Points
  <2> QED
    BY <1>1, <2>1, <2>2, <2>4
<1>9. ASSUME NEW p \in Exports, SendBatch(p) \/ Return(p) PROVE Points'
  <2>1. /\ UNCHANGED <<next, tss, mds>> /\ pc[p] = "send"
        /\ errs' = errs \/ Failed(p, "series")
        /\ pc' = pc \/ pc' = [pc EXCEPT ![p] = "done"]
        /\ \A q \in Exports \ {p} : result'[q] = result[q]
    BY <1>9 DEF SendBatch, Return
  <2>2. errs[p] \subseteq errs'[p] /\ \A q \in Exports \ {p} : errs'[q] = errs[q]
    BY <2>1 DEF Failed
  <2>3. next[p][1] > Len(MetricsOf[p])
    BY <2>1 DEF Points, Counted
  <2>4. Counted(p)'
    BY <2>1, <2>2, <2>3, PassedSame DEF Points
  <2>5. pc'[p] \in {"send", "done"} /\ \A q \in Exports \ {p} : pc'[q] = pc[q]
    BY <2>1
  <2>6. Known(p) => DescribedNow(p)'
    BY <2>1, <2>5 DEF DescribedNow, Known
  <2>7. Described(p)'
    BY <2>2, <2>6, DescribedStep DEF Points
  <2> QED
    BY <1>1, <2>1, <2>2, <2>4, <2>5, <2>7
<1>10. ASSUME NEW s \in Stops, ShutdownStep(s) PROVE Points'
  <2>1. UNCHANGED <<next, tss, errs, mds>>
    BY <1>10, Zenon DEF ShutdownStep, ShutdownFirst, CloseClient, ShutdownAgain
  <2>2. \A q \in Exports : pc'[q] = pc[q] /\ result'[q] = result[q]
    BY <1>10, CallsAssumption DEF ShutdownStep, ShutdownFirst, CloseClient, ShutdownAgain
  <2> QED
    BY <2>1, <2>2, PointsSame DEF Points
<1>11. CASE UNCHANGED vars
  BY <1>11, PointsSame DEF vars, callVars, Points
<1> QED
  BY <1>2, <1>3, <1>4, <1>5, <1>6, <1>7, <1>8, <1>9, <1>10, <1>11 DEF Next, ExportStep

(* They are, before the first export.                                      *)
LEMMA PointsInit == Init => Points
<1> SUFFICES ASSUME Init, NEW p \in Exports PROVE Counted(p) /\ Described(p)
  BY DEF Points
<1>1. next[p] = <<1, 1>> /\ tss[p] = <<>> /\ pc[p] = "idle"
  BY DEF Init, Calls
<1>2. \A q \in PointsOf(p) : q[1] \in Nat \ {0} /\ q[2] \in Nat \ {0}
  <2> SUFFICES ASSUME NEW i \in DOMAIN MetricsOf[p], NEW j \in DOMAIN Metric(p, i).points
               PROVE  i \in Nat \ {0} /\ j \in Nat \ {0}
    BY DEF PointsOf
  <2>1. i \in 1..Len(MetricsOf[p]) /\ i \in Nat \ {0}
    BY MetricsAssumption
  <2>2. Metric(p, i).points \in Seq(BOOLEAN)
    BY <2>1, MetricTyped
  <2> QED
    BY <2>1, <2>2
<1>3. Passed(p) = {}
  BY <1>1, <1>2 DEF Passed
<1>4. Counted(p)
  BY <1>1, <1>3, FS_EmptySet DEF Counted
<1>5. Described(p)
  BY <1>1 DEF Described
<1> QED
  BY <1>4, <1>5

(* An Export that returns nil has stored every point of every metric, each *)
(* under a type with a descriptor unless the option turns them off; and    *)
(* one that returns an error has put every converted series in a request,  *)
(* with an error for each point and each series that was not stored.       *)
THEOREM PointsAccounted == Spec => []PointsAccountedFor
<1>1. ASSUME IInv, Points PROVE PointsAccountedFor
  <2> USE <1>1 DEF IInv, Typed, Calls
  <2>1. ASSUME NEW p \in Exports, pc[p] = "done", result[p] # "errShutdown"
        PROVE  /\ sent[p] = Len(tss[p])
               /\ stored[p] = 1..sent[p] \/ "series" \in errs[p]
               /\ Cardinality(PointsOf(p)) = Len(tss[p]) \/ "conversion" \in errs[p]
    <3>1. next[p][1] > Len(MetricsOf[p]) /\ next[p][1] \in Nat
      BY <2>1 DEF Points, Counted
    <3>2. \A q \in PointsOf(p) : q[1] \in 1..Len(MetricsOf[p])
      BY MetricsAssumption, SMTT(30) DEF PointsOf
    <3>3. Passed(p) = PointsOf(p)
      BY <3>1, <3>2, MetricsAssumption DEF Passed
    <3> QED
      BY <2>1, <3>3 DEF Points, Counted, Sending, Acknowledged
  <2>2. EverySeriesTried
    <3> SUFFICES ASSUME NEW p \in Exports, pc[p] = "done" /\ result[p] # "errShutdown"
                 PROVE  /\ sent[p] = Len(tss[p])
                        /\ Cardinality(PointsOf(p)) > Len(tss[p]) => "conversion" \in errs[p]
                        /\ stored[p] # 1..Len(tss[p]) => "series" \in errs[p]
      BY DEF EverySeriesTried
    <3>1. /\ sent[p] = Len(tss[p])
          /\ stored[p] = 1..sent[p] \/ "series" \in errs[p]
          /\ Cardinality(PointsOf(p)) = Len(tss[p]) \/ "conversion" \in errs[p]
      BY <2>1
    <3>2. Len(tss[p]) \in Nat
      OBVIOUS
    <3> QED
      BY <3>1, <3>2
  <2>3. ASSUME NEW p \in Exports, result[p] = "nil"
        PROVE  /\ Cardinality(stored[p]) = Cardinality(PointsOf(p))
               /\ ~disableCreateMetricDescriptors => \A i \in stored[p] : tss[p][i] \in descriptors
    <3>1. pc[p] = "done" /\ errs[p] = {}
      BY <2>3 DEF Sending, Acknowledged
    <3>2. stored[p] = 1..Len(tss[p]) /\ Cardinality(PointsOf(p)) = Len(tss[p])
      BY <2>1, <2>3, <3>1
    <3>3. Len(tss[p]) \in Nat
      OBVIOUS
    <3>4. Cardinality(1..Len(tss[p])) = Len(tss[p])
      <4>1. ASSUME NEW n \in Nat PROVE Cardinality(1..n) = n
        <5>1. Cardinality(1..n) = IF 1 > n THEN 0 ELSE n - 1 + 1
          BY FS_Interval
        <5> QED
          BY <5>1
      <4> QED
        BY <3>3, <4>1
    <3> QED
      BY <3>1, <3>2, <3>4 DEF Points, Described
  <2> QED
    BY <2>2, <2>3 DEF PointsAccountedFor, OkExportIsWhole
<1> QED
  BY Inductive, PointsInit, PointsKept, <1>1, PTL DEF Spec
=============================================================================
