--------------------------- MODULE LogPush_proofs ---------------------------
(***************************************************************************)
(* Proofs about LogPush for every payload, every size limit and every      *)
(* number of calls.                                                        *)
(***************************************************************************)
EXTENDS LogPush, Recursion_proofs

TypeOK ==
    /\ payload \in Payloads /\ quota \in BOOLEAN /\ disableRetries \in BOOLEAN
    /\ calls \in Nat /\ repeats \in Nat
    /\ pc \in {"called", "next", "fill", "write", "returned"}
    /\ left \subseteq Keys /\ project \in Keys \cup {"all"}
    /\ entries \in Seq(Places) /\ entry \in Nat /\ batchSize \in Nat
    /\ failed \in BOOLEAN /\ retryable \in BOOLEAN
    /\ result \in {"none", "ok", "permanent", "retryable"}
    /\ sent \in [Keys -> Seq(Places)]
    /\ stored \in [Places -> Nat] /\ repeated \in [Places -> Nat]
    /\ refused \subseteq Places

Sending == pc \in {"next", "fill", "write"}

(* The batch is a prefix of the entries, and batchSize the size of it.     *)
Filling ==
    pc \in {"fill", "write"} =>
        /\ project \in Keys \ left
        /\ entry \in 0..Len(entries)
        /\ batchSize = SumOfSizes(Batch) /\ batchSize < maxRequestSize

(* A call that sends has mapped every record, and remembers that a request *)
(* may be retried only as long as it remembers that one failed.            *)
Mapped ==
    /\ Sending => AllMapped
    /\ retryable => failed
    /\ pc # "returned" => calls > 0

(* What was sent is stored, refused, or a reason to call again.            *)
Settled ==
    Sending => \A key \in Keys : \A i \in 1..Len(sent[key]) :
        stored[sent[key][i]] > 0 \/ sent[key][i] \in refused \/ retryable

(* A call begins with nothing sent; and what is still to be sent was       *)
(* stored by earlier calls only, or by a request that is repeated.         *)
Unstored ==
    /\ pc = "called" =>
          sent = NothingSent /\ \A k \in Places : stored[k] < CopiesAllowed(k)
    /\ Sending => \A key \in Keys : \A i \in 1..Len(Todo(key)) :
          stored[Todo(key)[i]] < CopiesAllowed(Todo(key)[i])

IInv ==
    /\ TypeOK /\ Filling /\ EachEntryOnce /\ Mapped /\ Settled /\ Unstored
    /\ NothingForgotten /\ StoredAtMostPerCall
----------------------------------------------------------------------------
(* What the payload alone determines stays what it is.                     *)
LEMMA SamePayload ==
    ASSUME payload' = payload, quota' = quota
    PROVE  /\ Places' = Places /\ Keys' = Keys /\ AllMapped' = AllMapped
           /\ NothingSent' = NothingSent
           /\ \A k : Key(k)' = Key(k) /\ Size(k)' = Size(k)
           /\ \A key : EntriesOf(key)' = EntriesOf(key)
           /\ \A s : SumOfSizes(s)' = SumOfSizes(s)
<1>1. Places' = Places /\ Keys' = Keys /\ AllMapped' = AllMapped
  BY DEF Places, Keys, Key, AllMapped
<1>2. NothingSent' = NothingSent
  BY <1>1 DEF NothingSent
<1>3. \A k : Key(k)' = Key(k) /\ Size(k)' = Size(k)
  BY DEF Key, Size
<1>4. \A key : EntriesOf(key)' = EntriesOf(key)
  BY DEF EntriesOf, Places, Key
<1>5. \A s : SumOfSizes(s)' = SumOfSizes(s)
  BY DEF SumOfSizes, Total, Size
<1> QED
  BY <1>1, <1>2, <1>3, <1>4, <1>5

(* And so does what a call and the history determine.                      *)
LEMMA SameCopies ==
    ASSUME disableRetries' = disableRetries, calls' = calls, repeated' = repeated
    PROVE  \A k : CopiesAllowed(k)' = CopiesAllowed(k)
  BY DEF CopiesAllowed

(* The copies that are allowed of an entry are a number.                   *)
LEMMA CopiesNumber ==
    ASSUME TypeOK
    PROVE  \A k \in Places : CopiesAllowed(k) \in Nat /\ calls <= CopiesAllowed(k)
  BY DEF TypeOK, CopiesAllowed

(* A payload is a sequence of records.                                     *)
LEMMA PayloadType ==
    ASSUME payload \in Payloads
    PROVE  /\ Len(payload) \in Nat
           /\ \A k \in Places : Size(k) \in Nat
<1>1. payload \in Seq(Records)
  BY LogPushAssumption
<1>2. \A k \in 1..Len(payload) : payload[k] \in Records
  BY <1>1
<1> QED
  BY <1>1, <1>2 DEF Records, Places, Size

(* EntriesOf(key) is made of the places with that key, each one once.      *)
LEMMA EntriesOfKey ==
    ASSUME payload \in Payloads, NEW key
    PROVE  /\ EntriesOf(key) \in Seq(Places)
           /\ \A i \in 1..Len(EntriesOf(key)) : Key(EntriesOf(key)[i]) = key
           /\ \A k \in Places : Key(k) = key =>
                 \E i \in 1..Len(EntriesOf(key)) : EntriesOf(key)[i] = k
           /\ \A i, j \in 1..Len(EntriesOf(key)) :
                 EntriesOf(key)[i] = EntriesOf(key)[j] => i = j
<1> DEFINE keys == [k \in Places |-> Key(k)]
           N == Len(payload)
           s == PlacesOf(key, keys)
<1>1. N \in Nat /\ Len(keys) = N
  BY PayloadType DEF Places
<1>2. s = EntriesOf(key)
  BY DEF EntriesOf
<1>3. Places = 1..N /\ \A k \in Places : keys[k] = Key(k)
  BY DEF Places
<1> HIDE DEF keys, N
<1>4. /\ s \in Seq(1..N)
      /\ \A i \in 1..Len(s) : keys[s[i]] = key
      /\ \A k \in 1..N : keys[k] = key => \E i \in 1..Len(s) : s[i] = k
      /\ \A i, j \in 1..Len(s) : s[i] = s[j] => i = j
  BY <1>1, PlacesUnderKey
<1> HIDE DEF s
<1>5. s \in Seq(Places)
  BY <1>3, <1>4
<1>6. \A i \in 1..Len(s) : s[i] \in Places
  BY <1>5
<1> QED
  BY <1>2, <1>3, <1>4, <1>5, <1>6

(* The sizes of a batch add up entry by entry.                             *)
LEMMA SumOfNone ==
    SumOfSizes(<<>>) = 0
<1> DEFINE sizes == [i \in 1..Len(<<>>) |-> Size(<<>>[i])]
<1>1. Len(sizes) = 0 /\ \A n \in 1..0 : sizes[n] \in Nat
  OBVIOUS
<1>2. SumOfSizes(<<>>) = TotalUpTo(sizes)[0]
  BY DEF SumOfSizes, Total
<1> HIDE DEF sizes
<1>3. TotalUpTo(sizes)[0] = 0
  BY <1>1, NaturalTotals
<1> QED
  BY <1>2, <1>3

(* See SumOfNone.                                                          *)
LEMMA SumOfOneMore ==
    ASSUME payload \in Payloads, NEW s \in Seq(Places), NEW k \in Places
    PROVE  /\ SumOfSizes(s) \in Nat
           /\ SumOfSizes(Append(s, k)) = SumOfSizes(s) + Size(k)
<1> DEFINE N == Len(s)
           t == Append(s, k)
           a == [i \in 1..N |-> Size(s[i])]
           b == [i \in 1..(N + 1) |-> Size(t[i])]
           A == TotalUpTo(a)
           B == TotalUpTo(b)
           S == {n \in 0..N : A[n] = B[n]}
<1>1. N \in Nat /\ Len(t) = N + 1 /\ N + 1 \in Nat /\ t[N + 1] = k
      /\ \A i \in 1..N : t[i] = s[i] /\ s[i] \in Places
  OBVIOUS
<1> HIDE DEF N, t
<1>2. /\ Len(a) = N /\ \A i \in 1..N : a[i] = Size(s[i]) /\ a[i] \in Nat
      /\ Len(b) = N + 1 /\ \A i \in 1..N : b[i] = Size(s[i])
      /\ b[N + 1] = Size(k) /\ Size(k) \in Nat
  BY <1>1, PayloadType
<1>3. SumOfSizes(s) = A[N] /\ SumOfSizes(t) = B[N + 1]
  BY <1>1 DEF SumOfSizes, Total, N
<1> HIDE DEF a, b
<1>4. A \in [0..N -> Nat] /\ A[0] = 0 /\ \A n \in 1..N : A[n] = A[n - 1] + a[n]
  BY <1>1, <1>2, NaturalTotals, SMTT(30)
<1>5. \A i \in 1..(N + 1) : b[i] \in Nat
  <2>1. \A i \in 1..(N + 1) : i \in 1..N \/ i = N + 1
    BY <1>1
  <2> QED
    BY <1>2, <2>1
<1>6. B \in [0..(N + 1) -> Nat] /\ B[0] = 0
      /\ \A n \in 1..(N + 1) : B[n] = B[n - 1] + b[n]
  BY <1>1, <1>2, <1>5, NaturalTotals, ZenonT(30)
<1> HIDE DEF A, B
<1>7. 0 \in S
  BY <1>1, <1>4, <1>6
<1>8. ASSUME NEW n \in 0..N, n \in S, n < N PROVE n + 1 \in S
  <2>1. n + 1 \in 1..N /\ n + 1 \in 1..(N + 1) /\ n + 1 \in 0..N /\ (n + 1) - 1 = n
    BY <1>1, <1>8
  <2>2. A[n + 1] = A[n] + a[n + 1] /\ B[n + 1] = B[n] + b[n + 1]
    BY <1>4, <1>6, <2>1
  <2>3. a[n + 1] = b[n + 1] /\ A[n] = B[n]
    BY <1>2, <1>8, <2>1
  <2> QED
    BY <2>1, <2>2, <2>3
<1>9. \A n \in 0..N : n \in S /\ n < N => n + 1 \in S
  BY <1>8
<1>10. A[N] = B[N]
  <2> HIDE DEF S
  <2>1. \A n \in 0..N : n \in S
    BY <1>1, <1>7, <1>9, Induction
  <2>2. N \in S
    BY <1>1, <2>1
  <2> QED
    BY <2>2 DEF S
<1>11. B[N + 1] = B[N] + b[N + 1]
  <2>1. N + 1 \in 1..(N + 1) /\ (N + 1) - 1 = N
    BY <1>1
  <2> QED
    BY <1>6, <2>1
<1>12. A[N] \in Nat
  BY <1>1, <1>4
<1> QED
  BY <1>2, <1>3, <1>10, <1>11, <1>12 DEF t
----------------------------------------------------------------------------
(* The initial states.                                                     *)
LEMMA InitInv == Init => IInv
<1> SUFFICES ASSUME Init PROVE IInv
  OBVIOUS
<1>1. TypeOK
  <2>1. NothingSent \in [Keys -> Seq(Places)]
    BY DEF NothingSent
  <2>2. sent \in [Keys -> Seq(Places)] /\ entries \in Seq(Places)
    BY <2>1 DEF Init
  <2>3. stored \in [Places -> Nat] /\ repeated \in [Places -> Nat] /\ refused \subseteq Places
    BY DEF Init
  <2> QED
    BY <2>2, <2>3 DEF Init, TypeOK
<1>2. Filling /\ EachEntryOnce /\ Mapped /\ Settled /\ Unstored
  BY DEF Init, Filling, EachEntryOnce, Mapped, Settled, Unstored, Sending
<1>3. NothingForgotten
  BY DEF Init, NothingForgotten
<1>4. StoredAtMostPerCall
  BY DEF Init, StoredAtMostPerCall, CopiesAllowed
<1> QED
  BY <1>1, <1>2, <1>3, <1>4 DEF IInv

(* Call.                                                                   *)
LEMMA CallInv == IInv /\ Call => IInv'
<1> SUFFICES ASSUME IInv, Call PROVE IInv'
  OBVIOUS
<1> USE DEF IInv
<1>1. payload' = payload /\ quota' = quota /\ disableRetries' = disableRetries
  BY DEF Call
<1>2. /\ Places' = Places /\ Keys' = Keys /\ AllMapped' = AllMapped
      /\ NothingSent' = NothingSent
  BY <1>1, SamePayload
<1>3. TypeOK'
  <2>1. NothingSent \in [Keys -> Seq(Places)]
    BY DEF NothingSent
  <2>2. sent' \in [Keys -> Seq(Places)]
    BY <2>1 DEF Call
  <2>3. payload' \in Payloads /\ quota' \in BOOLEAN /\ disableRetries' \in BOOLEAN
    BY <1>1, Zenon DEF TypeOK
  <2>5. calls' \in Nat /\ failed' = FALSE /\ retryable' = FALSE
        /\ pc' = "called" /\ result' = "none"
    BY DEF TypeOK, Call
  <2>4. /\ left' \subseteq Keys /\ project' \in Keys \cup {"all"}
        /\ entries' \in Seq(Places) /\ entry' \in Nat /\ batchSize' \in Nat
        /\ repeats' \in Nat /\ stored' \in [Places -> Nat]
        /\ repeated' \in [Places -> Nat] /\ refused' \subseteq Places
    <3>1. /\ left' = left /\ project' = project /\ entries' = entries /\ entry' = entry
          /\ batchSize' = batchSize /\ repeats' = repeats
          /\ stored' = stored /\ repeated' = repeated /\ refused' = refused
      BY DEF Call, histVars
    <3> QED
      BY <3>1 DEF TypeOK
  <2> QED
    BY <1>2, <2>2, <2>3, <2>4, <2>5 DEF TypeOK
<1>4. Filling' /\ EachEntryOnce' /\ Settled' /\ NothingForgotten'
  BY DEF Call, histVars, Filling, EachEntryOnce, Settled, Sending, NothingForgotten
<1>5. Mapped'
  BY DEF Mapped, Call, Sending, TypeOK
<1>6. /\ stored' = stored /\ calls' = calls + 1 /\ repeated' = repeated
      /\ pc' = "called" /\ sent' = NothingSent
  BY DEF Call, histVars
<1>7. ASSUME NEW k \in Places
      PROVE  /\ CopiesAllowed(k)' = CopiesAllowed(k) + 1
             /\ stored[k] \in Nat /\ stored[k] <= IF AllMapped THEN CopiesAllowed(k) ELSE 0
             /\ CopiesAllowed(k) \in Nat
  BY <1>1, <1>6, CopiesNumber DEF CopiesAllowed, TypeOK, StoredAtMostPerCall
<1>8. Unstored'
  <2>1. \A k \in Places : stored[k] < CopiesAllowed(k)'
    BY <1>7
  <2> QED
    BY <1>2, <1>6, <2>1 DEF Unstored, Sending
<1>9. StoredAtMostPerCall'
  <2>1. \A k \in Places : stored[k] <= IF AllMapped THEN CopiesAllowed(k)' ELSE 0
    BY <1>7
  <2> QED
    BY <1>2, <1>6, <2>1 DEF StoredAtMostPerCall
<1> QED
  BY <1>3, <1>4, <1>5, <1>8, <1>9

(* CreateEntries.                                                          *)
LEMMA CreateEntriesInv == IInv /\ CreateEntries => IInv'
<1> SUFFICES ASSUME IInv, CreateEntries PROVE IInv'
  OBVIOUS
<1> USE DEF IInv
<1>1. /\ payload' = payload /\ quota' = quota /\ disableRetries' = disableRetries
      /\ calls' = calls /\ stored' = stored /\ repeated' = repeated /\ refused' = refused
  BY DEF CreateEntries, callVars, histVars
<1>2. /\ Places' = Places /\ Keys' = Keys /\ AllMapped' = AllMapped
      /\ NothingSent' = NothingSent /\ \A key : EntriesOf(key)' = EntriesOf(key)
      /\ \A k : CopiesAllowed(k)' = CopiesAllowed(k)
  BY <1>1, SamePayload, SameCopies
<1>3. TypeOK'
  BY <1>2 DEF TypeOK, CreateEntries, callVars, histVars
<1>4. Filling' /\ Mapped' /\ NothingForgotten' /\ StoredAtMostPerCall'
  BY <1>1, <1>2 DEF CreateEntries, callVars, Filling, Mapped, Sending, NothingForgotten,
              StoredAtMostPerCall, TypeOK
<1>5. CASE pc' = "next"
  <2>1. left' = Keys /\ sent' = NothingSent
        /\ \A k \in Places : stored[k] < CopiesAllowed(k)
    BY <1>5 DEF CreateEntries, Unstored
  <2>2. ASSUME NEW key \in Keys
        PROVE  Todo(key)' = EntriesOf(key) /\ sent'[key] = <<>>
    BY <1>2, <1>5, <2>1, <2>2 DEF Todo, NothingSent
  <2>3. EachEntryOnce'
    <3>1. ASSUME NEW key \in Keys PROVE sent'[key] \o Todo(key)' = EntriesOf(key)'
      <4>1. EntriesOf(key) \in Seq(Places)
        BY EntriesOfKey DEF TypeOK
      <4> QED
        BY <1>2, <2>2, <4>1
    <3> QED
      BY <1>2, <3>1 DEF EachEntryOnce
  <2>4. Settled'
    <3>1. \A key \in Keys : Len(sent'[key]) = 0
      BY <2>2
    <3> QED
      BY <1>2, <3>1 DEF Settled
  <2>5. Unstored'
    <3>1. \A key \in Keys : \A i \in 1..Len(EntriesOf(key)) : EntriesOf(key)[i] \in Places
      BY EntriesOfKey DEF TypeOK
    <3> QED
      BY <1>1, <1>2, <1>5, <2>1, <2>2, <3>1 DEF Unstored
  <2> QED
    BY <1>3, <1>4, <2>3, <2>4, <2>5
<1>6. CASE pc' = "returned"
  BY <1>3, <1>4, <1>6 DEF EachEntryOnce, Settled, Unstored, Sending
<1> QED
  BY <1>5, <1>6 DEF CreateEntries

(* A step of a call that sends nothing and leaves what is to be sent.      *)
LEMMA SameTodo ==
    ASSUME IInv, payload' = payload, quota' = quota, Sending, Sending',
           disableRetries' = disableRetries, calls' = calls, repeated' = repeated,
           sent' = sent, stored' = stored,
           refused' = refused, retryable' = retryable,
           \A key \in Keys : Todo(key)' = Todo(key)
    PROVE  EachEntryOnce' /\ Settled' /\ Unstored'
<1> USE DEF IInv
<1>1. /\ Places' = Places /\ Keys' = Keys
      /\ \A key : EntriesOf(key)' = EntriesOf(key)
      /\ \A k : CopiesAllowed(k)' = CopiesAllowed(k)
  BY SamePayload, SameCopies
<1>2. EachEntryOnce'
  BY <1>1 DEF EachEntryOnce, Sending
<1>3. Settled'
  BY <1>1 DEF Settled
<1>4. Unstored'
  BY <1>1 DEF Unstored, Sending
<1> QED
  BY <1>2, <1>3, <1>4

(* NextProject.                                                            *)
LEMMA NextProjectInv == IInv /\ NextProject => IInv'
<1> SUFFICES ASSUME IInv, NextProject PROVE IInv'
  OBVIOUS
<1> USE DEF IInv
<1>1. /\ payload' = payload /\ quota' = quota /\ disableRetries' = disableRetries
      /\ calls' = calls /\ repeats' = repeats /\ repeated' = repeated
      /\ failed' = failed /\ retryable' = retryable /\ result' = result
      /\ sent' = sent /\ stored' = stored /\ refused' = refused
      /\ pc = "next" /\ pc' = "fill" /\ entry' = 0 /\ batchSize' = 0
  BY DEF NextProject, callVars, histVars
<1>2. PICK key \in left : left' = left \ {key} /\ project' = key /\ entries' = EntriesOf(key)
  BY DEF NextProject
<1>3. /\ Places' = Places /\ Keys' = Keys /\ AllMapped' = AllMapped
      /\ \A k : EntriesOf(k)' = EntriesOf(k) /\ \A q : SumOfSizes(q)' = SumOfSizes(q)
      /\ \A k : CopiesAllowed(k)' = CopiesAllowed(k)
  BY <1>1, SamePayload, SameCopies
<1>4. left \subseteq Keys /\ EntriesOf(key) \in Seq(Places)
  BY EntriesOfKey DEF TypeOK
<1>5. TypeOK'
  <2>1. payload' \in Payloads /\ quota' \in BOOLEAN /\ failed' \in BOOLEAN
        /\ disableRetries' \in BOOLEAN
        /\ retryable' \in BOOLEAN
    BY <1>1, Zenon DEF TypeOK
  <2>2. left' \subseteq Keys /\ project' \in Keys /\ entries' \in Seq(Places)
    BY <1>2, <1>4
  <2>3. calls' \in Nat /\ entry' \in Nat /\ batchSize' \in Nat
        /\ result' \in {"none", "ok", "permanent", "retryable"}
        /\ sent' \in [Keys -> Seq(Places)] /\ stored' \in [Places -> Nat]
        /\ repeats' \in Nat /\ repeated' \in [Places -> Nat] /\ refused' \subseteq Places
    BY <1>1 DEF TypeOK
  <2> QED
    BY <1>1, <1>3, <2>1, <2>2, <2>3 DEF TypeOK
<1>6. Filling'
  <2>1. SubSeq(entries', 1, 0) = <<>>
    BY <1>2, <1>4
  <2>2. SumOfSizes(Batch)' = SumOfSizes(SubSeq(entries', 1, entry'))
    BY <1>1 DEF Batch, SumOfSizes, Size
  <2>3. SumOfSizes(Batch)' = 0
    BY <1>1, <2>1, <2>2, SumOfNone
  <2>4. entry' \in 0..Len(entries')
    BY <1>1, <1>2, <1>4
  <2>5. 0 < maxRequestSize
    BY LogPushAssumption
  <2> QED
    BY <1>1, <1>2, <1>3, <1>4, <2>3, <2>4, <2>5 DEF Filling
<1>7. EachEntryOnce' /\ Settled' /\ Unstored'
  <2>1. ASSUME NEW k \in Keys PROVE Todo(k)' = Todo(k)
    <3>1. Todo(k) = IF k \in left THEN EntriesOf(k) ELSE <<>>
      BY <1>1 DEF Todo
    <3>2. Todo(k)' = IF key = k THEN EntriesOf(key)
                     ELSE IF k \in left \ {key} THEN EntriesOf(k) ELSE <<>>
      BY <1>1, <1>2, <1>3 DEF Todo
    <3> QED
      BY <1>2, <3>1, <3>2
  <2>2. Sending /\ Sending'
    BY <1>1 DEF Sending
  <2> QED
    BY <1>1, <2>1, <2>2, SameTodo
<1>8. Mapped' /\ NothingForgotten' /\ StoredAtMostPerCall'
  BY <1>1, <1>3 DEF Mapped, Sending, NothingForgotten, StoredAtMostPerCall
<1> QED
  BY <1>5, <1>6, <1>7, <1>8

(* What a step of the loop that fills a batch does.                        *)
LEMMA FillSteps ==
    ASSUME TypeOK, Filling, Fill
    PROVE  \/ /\ entry < Len(entries) /\ entries[entry + 1] \in Places
              /\ batchSize + Size(entries[entry + 1]) < maxRequestSize
              /\ batchSize' = batchSize + Size(entries[entry + 1])
              /\ entry' = entry + 1 /\ pc' = "fill"
           \/ /\ pc' = "write" /\ batchSize' = batchSize /\ entry' = entry
           \/ /\ entries = <<>> /\ pc' = "next" /\ batchSize' = batchSize /\ entry' = entry
<1>1. pc = "fill" /\ entry \in 0..Len(entries) /\ entries \in Seq(Places) /\ batchSize \in Nat
  BY DEF Fill, Filling, TypeOK
<1>2. CASE /\ entries # <<>> /\ Fits /\ batchSize' = batchSize + EntrySize
           /\ entry' = entry + 1 /\ UNCHANGED pc
  <2>1. entry < Len(entries)
    BY <1>1, <1>2, LogPushAssumption DEF Fits, EntrySize
  <2>2. entries[entry + 1] \in Places
    BY <1>1, <2>1
  <2> QED
    BY <1>1, <1>2, <2>1, <2>2 DEF Fits, EntrySize
<1>3. CASE entries # <<>> /\ ~Fits /\ pc' = "write" /\ UNCHANGED <<batchSize, entry>>
  BY <1>3
<1>4. CASE entries = <<>> /\ pc' = "next" /\ UNCHANGED <<batchSize, entry>>
  BY <1>4
<1> QED
  BY <1>2, <1>3, <1>4 DEF Fill

(* Fill.                                                                   *)
LEMMA FillInv == IInv /\ Fill => IInv'
<1> SUFFICES ASSUME IInv, Fill PROVE IInv'
  OBVIOUS
<1> USE DEF IInv
<1>1. /\ payload' = payload /\ quota' = quota /\ disableRetries' = disableRetries
      /\ calls' = calls /\ repeats' = repeats /\ repeated' = repeated
      /\ failed' = failed /\ retryable' = retryable /\ result' = result
      /\ sent' = sent /\ stored' = stored /\ refused' = refused
      /\ left' = left /\ project' = project /\ entries' = entries /\ pc = "fill"
  BY DEF Fill, callVars, histVars
<1>2. \/ /\ entry < Len(entries) /\ entries[entry + 1] \in Places
         /\ batchSize + Size(entries[entry + 1]) < maxRequestSize
         /\ batchSize' = batchSize + Size(entries[entry + 1])
         /\ entry' = entry + 1 /\ pc' = "fill"
      \/ /\ pc' = "write" /\ batchSize' = batchSize /\ entry' = entry
      \/ /\ entries = <<>> /\ pc' = "next" /\ batchSize' = batchSize /\ entry' = entry
  BY FillSteps
<1>3. /\ Places' = Places /\ Keys' = Keys /\ AllMapped' = AllMapped
      /\ \A k : EntriesOf(k)' = EntriesOf(k) /\ \A q : SumOfSizes(q)' = SumOfSizes(q)
      /\ \A k : CopiesAllowed(k)' = CopiesAllowed(k)
  BY <1>1, SamePayload, SameCopies
<1>4. /\ project \in Keys \ left /\ entry \in 0..Len(entries)
      /\ batchSize = SumOfSizes(Batch) /\ batchSize < maxRequestSize
      /\ entries \in Seq(Places) /\ batchSize \in Nat /\ payload \in Payloads
  BY <1>1 DEF Filling, TypeOK
<1>5. entry' \in 0..Len(entries) /\ batchSize' \in Nat /\ batchSize' < maxRequestSize
      /\ pc' \in {"next", "fill", "write"}
  BY <1>2, <1>4, PayloadType
<1>6. TypeOK'
  <2>1. payload' \in Payloads /\ quota' \in BOOLEAN /\ failed' \in BOOLEAN
        /\ disableRetries' \in BOOLEAN
        /\ retryable' \in BOOLEAN
    BY <1>1, Zenon DEF TypeOK
  <2>2. left' \subseteq Keys /\ project' \in Keys \cup {"all"} /\ entries' \in Seq(Places)
    BY <1>1 DEF TypeOK
  <2>3. calls' \in Nat /\ entry' \in Nat /\ batchSize' \in Nat
        /\ result' \in {"none", "ok", "permanent", "retryable"}
        /\ sent' \in [Keys -> Seq(Places)] /\ stored' \in [Places -> Nat]
        /\ repeats' \in Nat /\ repeated' \in [Places -> Nat] /\ refused' \subseteq Places
    BY <1>1, <1>5 DEF TypeOK
  <2> QED
    BY <1>3, <1>5, <2>1, <2>2, <2>3 DEF TypeOK
<1>7. Filling'
  <2>1. SumOfSizes(Batch)' = SumOfSizes(SubSeq(entries, 1, entry'))
    BY <1>1 DEF Batch, SumOfSizes, Size
  <2>2. batchSize' = SumOfSizes(SubSeq(entries, 1, entry'))
    <3>1. CASE /\ entry < Len(entries) /\ entries[entry + 1] \in Places
               /\ batchSize' = batchSize + Size(entries[entry + 1])
               /\ entry' = entry + 1
      <4>1. SubSeq(entries, 1, entry + 1) = Append(SubSeq(entries, 1, entry), entries[entry + 1])
        BY <1>4, <3>1
      <4>2. SubSeq(entries, 1, entry) \in Seq(Places)
        BY <1>4, Divided
      <4>3. SumOfSizes(Append(SubSeq(entries, 1, entry), entries[entry + 1]))
              = SumOfSizes(SubSeq(entries, 1, entry)) + Size(entries[entry + 1])
        BY <1>4, <3>1, <4>2, SumOfOneMore
      <4> QED
        BY <1>4, <3>1, <4>1, <4>3 DEF Batch
    <3>2. CASE batchSize' = batchSize /\ entry' = entry
      BY <1>4, <3>2 DEF Batch
    <3> QED
      BY <1>2, <3>1, <3>2
  <2> QED
    BY <1>1, <1>3, <1>4, <1>5, <2>1, <2>2 DEF Filling
<1>8. EachEntryOnce' /\ Settled' /\ Unstored'
  <2>1. ASSUME NEW k \in Keys PROVE Todo(k)' = Todo(k)
    <3>1. CASE pc' # "next"
      BY <1>1, <1>3, <3>1 DEF Todo
    <3>2. CASE pc' = "next"
      <4>1. entries = <<>>
        BY <1>2, <3>2
      <4> QED
        BY <1>1, <1>3, <1>4, <3>2, <4>1 DEF Todo
    <3> QED
      BY <3>1, <3>2
  <2>2. Sending /\ Sending'
    BY <1>1, <1>5 DEF Sending
  <2> QED
    BY <1>1, <2>1, <2>2, SameTodo
<1>9. Mapped' /\ NothingForgotten' /\ StoredAtMostPerCall'
  BY <1>1, <1>3, <1>5 DEF Mapped, Sending, NothingForgotten, StoredAtMostPerCall
<1> QED
  BY <1>6, <1>7, <1>8, <1>9

(* Return.                                                                 *)
LEMMA ReturnInv == IInv /\ Return => IInv'
<1> SUFFICES ASSUME IInv, Return PROVE IInv'
  OBVIOUS
<1> USE DEF IInv
<1>1. /\ payload' = payload /\ quota' = quota /\ disableRetries' = disableRetries
      /\ calls' = calls /\ repeats' = repeats /\ repeated' = repeated
      /\ failed' = failed /\ retryable' = retryable
      /\ sent' = sent /\ stored' = stored /\ refused' = refused
      /\ left' = left /\ project' = project /\ entries' = entries
      /\ entry' = entry /\ batchSize' = batchSize
      /\ pc = "next" /\ left = {} /\ pc' = "returned"
  BY DEF Return, callVars, histVars
<1>2. result' \in {"ok", "permanent", "retryable"}
      /\ (result' \in {"ok", "permanent"} => ~(failed /\ retryable))
  BY DEF Return, TypeOK
<1>3. /\ Places' = Places /\ Keys' = Keys /\ AllMapped' = AllMapped
      /\ \A k : CopiesAllowed(k)' = CopiesAllowed(k)
  BY <1>1, SamePayload, SameCopies
<1>4. TypeOK'
  <2>1. payload' \in Payloads /\ quota' \in BOOLEAN /\ failed' \in BOOLEAN
        /\ disableRetries' \in BOOLEAN
        /\ retryable' \in BOOLEAN
    BY <1>1, Zenon DEF TypeOK
  <2>2. /\ calls' \in Nat /\ left' \subseteq Keys /\ project' \in Keys \cup {"all"}
        /\ entries' \in Seq(Places) /\ entry' \in Nat /\ batchSize' \in Nat
        /\ sent' \in [Keys -> Seq(Places)] /\ stored' \in [Places -> Nat]
        /\ repeats' \in Nat /\ repeated' \in [Places -> Nat] /\ refused' \subseteq Places
    BY <1>1 DEF TypeOK
  <2> QED
    BY <1>1, <1>2, <1>3, <2>1, <2>2 DEF TypeOK
<1>5. Filling' /\ EachEntryOnce' /\ Settled' /\ Unstored' /\ StoredAtMostPerCall'
  BY <1>1, <1>3 DEF Filling, EachEntryOnce, Settled, Unstored, Sending, StoredAtMostPerCall
<1>6. Mapped'
  BY <1>1 DEF Mapped, Sending
<1>7. NothingForgotten'
  <2> SUFFICES ASSUME result' \in {"ok", "permanent"}, NEW k \in Places
               PROVE  stored[k] > 0 \/ k \in refused
    BY <1>1, <1>3 DEF NothingForgotten
  <2>1. ~retryable
    BY <1>2 DEF Mapped
  <2> DEFINE key == Key(k)
  <2>2. key \in Keys
    BY DEF Keys
  <2>3. sent[key] \o <<>> = EntriesOf(key)
    BY <1>1, <2>2 DEF EachEntryOnce, Todo
  <2>4. sent[key] \in Seq(Places)
    BY <2>2 DEF TypeOK
  <2>5. sent[key] = EntriesOf(key)
    BY <2>3, <2>4
  <2>6. PICK i \in 1..Len(EntriesOf(key)) : EntriesOf(key)[i] = k
    BY EntriesOfKey DEF TypeOK
  <2> QED
    BY <1>1, <2>1, <2>2, <2>5, <2>6 DEF Settled, Sending
<1> QED
  BY <1>4, <1>5, <1>6, <1>7

(* What the answer to a request leaves: every entry of the batch stored,   *)
(* refused or to be retried.                                               *)
LEMMA WriteSteps ==
    ASSUME TypeOK, Mapped, Write, Range(Batch) \subseteq Places
    PROVE  \E places \in SUBSET Range(Batch) :
              /\ stored' = [k \in Places |-> stored[k] + IF k \in places THEN 1 ELSE 0]
              /\ refused \subseteq refused' /\ refused' \subseteq Places
              /\ failed' \in BOOLEAN /\ retryable' \in BOOLEAN
              /\ (retryable => retryable') /\ (retryable' => failed')
              /\ \A k \in Range(Batch) : k \in places \/ k \in refused' \/ retryable'
<1> DEFINE batch == Range(Batch)
           Leaves(places) ==
              /\ stored' = [k \in Places |-> stored[k] + IF k \in places THEN 1 ELSE 0]
              /\ refused \subseteq refused' /\ refused' \subseteq Places
              /\ failed' \in BOOLEAN /\ retryable' \in BOOLEAN
              /\ (retryable => retryable') /\ (retryable' => failed')
              /\ \A k \in batch : k \in places \/ k \in refused' \/ retryable'
<1>1. ASSUME Stores(batch), UNCHANGED <<failed, retryable, refused>>
      PROVE  Leaves(batch)
  <2>1. failed' \in BOOLEAN /\ retryable' \in BOOLEAN
    BY <1>1, Zenon DEF TypeOK
  <2>2. refused \subseteq refused' /\ refused' \subseteq Places
        /\ (retryable => retryable') /\ (retryable' => failed')
    BY <1>1 DEF TypeOK, Mapped
  <2> QED
    BY <1>1, <2>1, <2>2 DEF Stores
<1>2. ASSUME NEW places, Note(TRUE), refused' = refused, Stores(places)
      PROVE  Leaves(places)
  BY <1>2 DEF Stores, Note, TypeOK
<1>3. ASSUME NEW bad \in SUBSET batch, Note(FALSE), Stores(batch \ bad),
             refused' = refused \cup bad
      PROVE  Leaves(batch \ bad)
  <2>1. failed' = TRUE /\ retryable' = retryable
    BY <1>3, Zenon DEF Note, TypeOK
  <2>2. failed' \in BOOLEAN /\ retryable' \in BOOLEAN
    BY <2>1, Zenon DEF TypeOK
  <2>3. refused \subseteq refused' /\ refused' \subseteq Places
    BY <1>3 DEF TypeOK
  <2> QED
    BY <1>3, <2>1, <2>2, <2>3 DEF Stores
<1> HIDE DEF Leaves
<1>4. \E places \in SUBSET batch : Leaves(places)
  <2>1. {} \in SUBSET batch /\ batch \in SUBSET batch
        /\ \A bad \in SUBSET batch : batch \ bad \in SUBSET batch
    OBVIOUS
  <2> QED
    BY <1>1, <1>2, <1>3, <2>1 DEF Write
<1> QED
  BY <1>4 DEF Leaves

(* Repeat: every entry that may be stored once more was allowed a copy     *)
(* less before.                                                            *)
LEMMA RepeatInv == IInv /\ Repeat => IInv'
<1> SUFFICES ASSUME IInv, Repeat PROVE IInv'
  OBVIOUS
<1> USE DEF IInv
<1>1. /\ payload' = payload /\ quota' = quota /\ disableRetries' = disableRetries
      /\ calls' = calls /\ failed' = failed /\ retryable' = retryable /\ result' = result
      /\ sent' = sent /\ refused' = refused /\ left' = left /\ project' = project
      /\ entries' = entries /\ entry' = entry /\ batchSize' = batchSize
      /\ pc = "write" /\ pc' = "write" /\ ~disableRetries /\ repeats' = repeats + 1
  BY DEF Repeat, callVars, ClientRetries
<1>2. PICK places : /\ places \in {{}, Range(Batch)}
                    /\ stored' = [k \in Places |-> stored[k] + IF k \in places THEN 1 ELSE 0]
  BY DEF Repeat, Stores
<1>3. repeated' = [k \in Places |-> repeated[k] + IF k \in Range(Batch) THEN 1 ELSE 0]
  BY DEF Repeat
<1>4. /\ Places' = Places /\ Keys' = Keys /\ AllMapped' = AllMapped
      /\ \A k : EntriesOf(k)' = EntriesOf(k) /\ \A q : SumOfSizes(q)' = SumOfSizes(q)
  BY <1>1, SamePayload
<1>5. ASSUME NEW k \in Places
      PROVE  /\ stored[k] \in Nat /\ stored[k] <= stored'[k] /\ stored'[k] \in Nat
             /\ CopiesAllowed(k) \in Nat
             /\ stored'[k] - stored[k] <= CopiesAllowed(k)' - CopiesAllowed(k)
             /\ CopiesAllowed(k)' \in Nat
  <2>1. stored[k] \in Nat /\ repeated[k] \in Nat /\ calls \in Nat
    BY DEF TypeOK
  <2>2. CopiesAllowed(k) = calls + repeated[k] /\ CopiesAllowed(k)' = calls + repeated'[k]
    BY <1>1 DEF CopiesAllowed
  <2>3. /\ stored'[k] = stored[k] + IF k \in places THEN 1 ELSE 0
        /\ repeated'[k] = repeated[k] + IF k \in Range(Batch) THEN 1 ELSE 0
        /\ k \in places => k \in Range(Batch)
    BY <1>2, <1>3
  <2> QED
    BY <2>1, <2>2, <2>3
<1>6. TypeOK'
  <2>1. payload' \in Payloads /\ quota' \in BOOLEAN /\ failed' \in BOOLEAN
        /\ retryable' \in BOOLEAN /\ disableRetries' \in BOOLEAN
    BY <1>1, Zenon DEF TypeOK
  <2>2. stored' \in [Places -> Nat] /\ repeated' \in [Places -> Nat]
    <3>1. \A k \in Places : stored[k] \in Nat /\ repeated[k] \in Nat
      BY DEF TypeOK
    <3> QED
      BY <1>2, <1>3, <3>1
  <2>3. /\ calls' \in Nat /\ repeats' \in Nat /\ left' \subseteq Keys
        /\ project' \in Keys \cup {"all"} /\ entries' \in Seq(Places) /\ entry' \in Nat
        /\ batchSize' \in Nat /\ result' \in {"none", "ok", "permanent", "retryable"}
        /\ sent' \in [Keys -> Seq(Places)] /\ refused' \subseteq Places
    BY <1>1 DEF TypeOK
  <2> QED
    BY <1>1, <1>4, <2>1, <2>2, <2>3 DEF TypeOK
<1>7. Filling'
  <2>1. SumOfSizes(Batch)' = SumOfSizes(Batch)
    BY <1>1 DEF Batch, SumOfSizes, Size
  <2> QED
    BY <1>1, <1>4, <2>1 DEF Filling
<1>8. \A key : Todo(key)' = Todo(key)
  BY <1>1, <1>4 DEF Todo
<1>9. EachEntryOnce' /\ Mapped' /\ NothingForgotten'
  BY <1>1, <1>4, <1>8 DEF EachEntryOnce, Mapped, Sending, NothingForgotten
<1>10. Settled'
  <2> SUFFICES ASSUME NEW key \in Keys, NEW i \in 1..Len(sent[key])
               PROVE  stored'[sent[key][i]] > 0 \/ sent[key][i] \in refused \/ retryable
    BY <1>1, <1>4 DEF Settled
  <2>1. sent[key][i] \in Places
    BY DEF TypeOK
  <2>2. stored[sent[key][i]] > 0 \/ sent[key][i] \in refused \/ retryable
    BY <1>1 DEF Settled, Sending
  <2> QED
    BY <1>5, <2>1, <2>2
<1>11. Unstored'
  <2>1. ASSUME NEW key \in Keys, NEW i \in 1..Len(Todo(key)), NEW k, k = Todo(key)[i]
        PROVE  k \in Places /\ stored'[k] < CopiesAllowed(k)'
    <3>1. EntriesOf(key) \in Seq(Places) /\ entries \in Seq(Places)
      BY EntriesOfKey DEF TypeOK
    <3>2. Todo(key) \in Seq(Places)
      BY <3>1 DEF Todo
    <3>3. k \in Places
      BY <2>1, <3>2
    <3>4. stored[k] < CopiesAllowed(k)
      BY <1>1, <2>1 DEF Unstored, Sending
    <3> QED
      BY <1>5, <3>3, <3>4
  <2>2. ASSUME NEW key \in Keys, NEW i \in 1..Len(Todo(key)')
        PROVE  (stored[Todo(key)[i]] < CopiesAllowed(Todo(key)[i]))'
    <3>1. Todo(key)' = Todo(key)
      BY <1>8
    <3>2. PICK k : k = Todo(key)[i]
      OBVIOUS
    <3>3. stored'[k] < CopiesAllowed(k)'
      BY <2>1, <3>1, <3>2
    <3>4. (Todo(key)[i])' = k
      BY <3>1, <3>2
    <3>5. CopiesAllowed(Todo(key)[i])' = CopiesAllowed(k)'
      BY <3>4 DEF CopiesAllowed
    <3> QED
      BY <3>3, <3>4, <3>5
  <2> QED
    BY <1>1, <1>4, <2>2 DEF Unstored
<1>12. StoredAtMostPerCall'
  <2>1. AllMapped
    BY <1>1 DEF Mapped, Sending
  <2> SUFFICES ASSUME NEW k \in Places PROVE stored'[k] <= CopiesAllowed(k)'
    BY <1>4, <2>1 DEF StoredAtMostPerCall
  <2>2. stored[k] <= CopiesAllowed(k)
    BY <2>1 DEF StoredAtMostPerCall
  <2> QED
    BY <1>5, <2>2
<1> QED
  BY <1>6, <1>7, <1>9, <1>10, <1>11, <1>12

(* Write.                                                                  *)
LEMMA WriteInv == IInv /\ Write => IInv'
<1> SUFFICES ASSUME IInv, Write PROVE IInv'
  OBVIOUS
<1> USE DEF IInv
<1> DEFINE batch == SubSeq(entries, 1, entry)
           rest == SubSeq(entries, entry + 1, Len(entries))
<1>1. /\ payload' = payload /\ quota' = quota /\ disableRetries' = disableRetries
      /\ calls' = calls /\ result' = result /\ repeats' = 0 /\ repeated' = repeated
      /\ left' = left /\ project' = project /\ pc = "write" /\ pc' = "fill"
      /\ sent' = [sent EXCEPT ![project] = @ \o batch]
      /\ entries' = rest /\ entry' = 0 /\ batchSize' = 0
  BY DEF Write, callVars, Advance, Batch
<1>2. /\ Places' = Places /\ Keys' = Keys /\ AllMapped' = AllMapped
      /\ \A k : EntriesOf(k)' = EntriesOf(k) /\ \A q : SumOfSizes(q)' = SumOfSizes(q)
      /\ \A k : CopiesAllowed(k)' = CopiesAllowed(k)
  BY <1>1, SamePayload, SameCopies
<1>3. /\ project \in Keys \ left /\ entry \in 0..Len(entries)
      /\ entries \in Seq(Places) /\ payload \in Payloads
      /\ \A k \in Places : CopiesAllowed(k) \in Nat
      /\ sent \in [Keys -> Seq(Places)] /\ stored \in [Places -> Nat]
      /\ AllMapped
  BY <1>1, CopiesNumber DEF Filling, TypeOK, Mapped, Sending
<1>4. /\ batch \in Seq(Places) /\ Len(batch) = entry /\ \A i \in 1..entry : batch[i] = entries[i]
      /\ rest \in Seq(Places) /\ Len(rest) = Len(entries) - entry
      /\ \A i \in 1..Len(rest) : rest[i] = entries[entry + i]
      /\ batch \o rest = entries
  BY <1>3, Divided
<1> DEFINE done == sent[project]
<1>5. /\ done \in Seq(Places) /\ done \o entries = EntriesOf(project)
      /\ \A i \in 1..Len(entries) : stored[entries[i]] < CopiesAllowed(entries[i])
  <2>1. Todo(project) = entries
    BY <1>1 DEF Todo
  <2> QED
    BY <1>1, <1>3, <2>1 DEF EachEntryOnce, Unstored, Sending
<1>6. Range(batch) = {batch[i] : i \in 1..Len(batch)}
  <2>1. DOMAIN batch = 1..Len(batch)
    BY <1>4, LenProperties
  <2> HIDE DEF batch
  <2> QED
    BY <2>1 DEF Range
<1>7. Range(batch) \subseteq Places
  BY <1>4, <1>6
<1>8. PICK places \in SUBSET Range(batch) :
          /\ stored' = [k \in Places |-> stored[k] + IF k \in places THEN 1 ELSE 0]
          /\ refused \subseteq refused' /\ refused' \subseteq Places
          /\ failed' \in BOOLEAN /\ retryable' \in BOOLEAN
          /\ (retryable => retryable') /\ (retryable' => failed')
          /\ \A k \in Range(batch) : k \in places \/ k \in refused' \/ retryable'
  BY <1>7, WriteSteps DEF Batch
<1> HIDE DEF batch, rest, done
<1>9. \A k \in Places : /\ stored[k] \in Nat
                        /\ k \in places => stored'[k] = stored[k] + 1
                        /\ k \notin places => stored'[k] = stored[k]
  BY <1>3, <1>8
<1>10. /\ sent' \in [Keys -> Seq(Places)]
       /\ sent'[project] = done \o batch /\ done \o batch \in Seq(Places)
       /\ \A key \in Keys : key # project => sent'[key] = sent[key]
  BY <1>1, <1>3, <1>4, <1>5 DEF done
<1>11. \A key \in Keys : Todo(key)' = IF key = project THEN rest ELSE Todo(key)
  BY <1>1, <1>2 DEF Todo
<1>12. TypeOK'
  <2>1. payload' \in Payloads /\ quota' \in BOOLEAN /\ disableRetries' \in BOOLEAN
    BY <1>1, Zenon DEF TypeOK
  <2>2. stored' \in [Places -> Nat]
    BY <1>3, <1>8
  <2>3. /\ left' \subseteq Keys /\ project' \in Keys \cup {"all"}
        /\ result' \in {"none", "ok", "permanent", "retryable"}
        /\ calls' \in Nat /\ repeats' \in Nat /\ repeated' \in [Places -> Nat]
    BY <1>1 DEF TypeOK
  <2> QED
    BY <1>1, <1>2, <1>3, <1>4, <1>8, <1>10, <2>1, <2>2, <2>3 DEF TypeOK
<1>13. Filling'
  <2>1. SubSeq(rest, 1, 0) = <<>>
    BY <1>4
  <2>2. SumOfSizes(Batch)' = SumOfSizes(SubSeq(rest, 1, 0))
    BY <1>1 DEF Batch, SumOfSizes, Size
  <2>3. SumOfSizes(Batch)' = 0
    BY <2>1, <2>2, SumOfNone
  <2>4. 0 \in 0..Len(rest)
    BY <1>4
  <2>5. 0 < maxRequestSize
    BY LogPushAssumption
  <2> QED
    BY <1>1, <1>2, <1>3, <2>3, <2>4, <2>5 DEF Filling
<1>14. EachEntryOnce'
  <2>1. ASSUME NEW key \in Keys PROVE sent'[key] \o Todo(key)' = EntriesOf(key)
    <3>1. CASE key = project
      <4>1. (done \o batch) \o rest = done \o (batch \o rest)
        <5>1. done \in Seq(Places) /\ batch \in Seq(Places) /\ rest \in Seq(Places)
          BY <1>4, <1>5
        <5> QED
          BY <5>1, ConcatAssociative
      <4> QED
        BY <1>4, <1>5, <1>10, <1>11, <3>1, <4>1
    <3>2. CASE key # project
      BY <1>1, <1>10, <1>11, <3>2 DEF EachEntryOnce
    <3> QED
      BY <3>1, <3>2
  <2> QED
    BY <1>2, <2>1 DEF EachEntryOnce
<1>15. Mapped'
  BY <1>1, <1>2, <1>3, <1>8 DEF Mapped, Sending
<1>16. Settled'
  <2> SUFFICES ASSUME NEW key \in Keys, NEW i \in 1..Len(sent'[key])
               PROVE  stored'[sent'[key][i]] > 0 \/ sent'[key][i] \in refused' \/ retryable'
    BY <1>2 DEF Settled
  <2> DEFINE k == sent'[key][i]
  <2>1. k \in Places
    BY <1>10
  <2>2. stored'[k] >= stored[k] /\ stored[k] \in Nat
    BY <1>9, <2>1
  <2>3. CASE \E j \in 1..Len(sent[key]) : k = sent[key][j]
    <3>1. stored[k] > 0 \/ k \in refused \/ retryable
      BY <1>1, <2>3 DEF Settled, Sending
    <3> HIDE DEF k
    <3>2. stored[k] > 0 => stored'[k] > 0
      BY <1>9, <2>1
    <3>3. stored'[k] > 0 \/ k \in refused' \/ retryable'
      BY <1>8, <3>1, <3>2
    <3> QED
      BY <3>3 DEF k
  <2>4. CASE key = project /\ \E j \in 1..Len(batch) : k = batch[j]
    <3>1. k \in Range(batch)
      BY <1>6, <2>4
    <3> HIDE DEF k
    <3>2. k \in places => stored'[k] > 0
      BY <1>9, <2>1
    <3>3. stored'[k] > 0 \/ k \in refused' \/ retryable'
      BY <1>8, <3>1, <3>2
    <3> QED
      BY <3>3 DEF k
  <2>5. key = project =>
            (\E j \in 1..Len(sent[key]) : k = sent[key][j]) \/ \E j \in 1..Len(batch) : k = batch[j]
    <3> SUFFICES ASSUME key = project
                 PROVE  \/ \E j \in 1..Len(done) : (done \o batch)[i] = done[j]
                        \/ \E j \in 1..Len(batch) : (done \o batch)[i] = batch[j]
      BY <1>10 DEF done
    <3>1. i \in 1..(Len(done) + Len(batch))
      BY <1>4, <1>5, <1>10
    <3>2. CASE i <= Len(done)
      BY <1>4, <1>5, <3>1, <3>2
    <3>3. CASE i > Len(done)
      <4>1. i - Len(done) \in 1..Len(batch) /\ (done \o batch)[i] = batch[i - Len(done)]
        BY <1>4, <1>5, <3>1, <3>3
      <4> QED
        BY <4>1
    <3> QED
      BY <1>4, <1>5, <3>1, <3>2, <3>3
  <2> QED
    BY <1>10, <2>3, <2>4, <2>5
<1>17. Unstored'
  <2> SUFFICES ASSUME NEW key \in Keys, NEW i \in 1..Len(Todo(key)')
               PROVE  stored'[Todo(key)'[i]] < CopiesAllowed(Todo(key)'[i])
    BY <1>1, <1>2 DEF Unstored
  <2>1. ASSUME NEW k \in Places, k \notin Range(batch), stored[k] < CopiesAllowed(k)
        PROVE  stored'[k] < CopiesAllowed(k)
    BY <1>8, <1>9, <2>1
  <2>2. CASE key = project
    <3> DEFINE k == rest[i]
    <3>1. Todo(key)' = rest
      BY <1>11, <2>2
    <3>2. i \in 1..Len(rest) /\ entry + i \in 1..Len(entries) /\ k = entries[entry + i]
          /\ k \in Places
      <4>1. i \in 1..Len(rest) /\ k = entries[entry + i] /\ Len(rest) = Len(entries) - entry
        BY <1>4, <3>1
      <4>2. k \in Places
        BY <1>4, <4>1
      <4>3. i \in 1..(Len(entries) - entry) /\ Len(entries) \in Nat
        BY <1>3, <4>1
      <4>4. entry + i \in 1..Len(entries)
        BY <1>3, <4>3
      <4> QED
        BY <4>1, <4>2, <4>4
    <3>3. k \notin Range(batch)
      <4> SUFFICES ASSUME NEW j \in 1..entry, entries[j] = entries[entry + i] PROVE FALSE
        BY <1>4, <1>6, <3>2
      <4> DEFINE all == done \o entries
      <4>4. ASSUME NEW n \in 1..Len(entries)
            PROVE  Len(done) + n \in 1..Len(all) /\ all[Len(done) + n] = entries[n]
        <5>1. PICK m \in Nat : m = Len(done) + n
          BY <1>5
        <5>2. Len(all) = Len(done) + Len(entries)
          BY <1>3, <1>5
        <5>3. m \in 1..Len(all) /\ ~(m <= Len(done)) /\ m - Len(done) = n
          BY <1>3, <1>5, <5>1, <5>2
        <5>4. all[m] = entries[m - Len(done)]
          BY <1>3, <1>5, <5>2, <5>3, ConcatProperties
        <5> QED
          BY <5>1, <5>3, <5>4
      <4>5. j \in 1..Len(entries)
        BY <1>3
      <4>1. all[Len(done) + j] = all[Len(done) + (entry + i)]
            /\ Len(done) + j \in 1..Len(all) /\ Len(done) + (entry + i) \in 1..Len(all)
        BY <3>2, <4>4, <4>5
      <4>2. all = EntriesOf(project)
        BY <1>5
      <4> HIDE DEF all
      <4>6. \A m, n \in 1..Len(all) : all[m] = all[n] => m = n
        BY <1>3, <4>2, EntriesOfKey
      <4>3. Len(done) + j = Len(done) + (entry + i)
        BY <4>1, <4>6
      <4> QED
        BY <1>3, <1>5, <3>2, <4>3
    <3>4. stored[k] < CopiesAllowed(k)
      BY <1>5, <3>2
    <3> QED
      BY <2>1, <3>1, <3>2, <3>3, <3>4
  <2>3. CASE key # project
    <3> DEFINE k == Todo(key)[i]
    <3>1. Todo(key)' = Todo(key) /\ Todo(key) \in {EntriesOf(key), <<>>}
      BY <1>1, <1>11, <2>3 DEF Todo
    <3>2. Todo(key) = EntriesOf(key) /\ i \in 1..Len(EntriesOf(key))
      BY <3>1
    <3>3. k \in Places /\ Key(k) = key /\ stored[k] < CopiesAllowed(k)
      BY <1>1, <1>3, <3>2, EntriesOfKey DEF Unstored, Sending
    <3>4. k \notin Range(batch)
      <4> SUFFICES ASSUME NEW j \in 1..entry, entries[j] = k PROVE FALSE
        BY <1>4, <1>6
      <4> DEFINE all == done \o entries
      <4>1. Len(done) + j \in 1..Len(all) /\ all[Len(done) + j] = entries[j]
        BY <1>3, <1>5
      <4>2. all = EntriesOf(project)
        BY <1>5
      <4> HIDE DEF all
      <4>3. Key(entries[j]) = project
        BY <1>3, <4>1, <4>2, EntriesOfKey, SMTT(30)
      <4> QED
        BY <2>3, <3>3, <4>3
    <3> QED
      BY <2>1, <3>1, <3>3, <3>4
  <2> QED
    BY <2>2, <2>3
<1>18. NothingForgotten'
  BY <1>1 DEF NothingForgotten
<1>19. StoredAtMostPerCall'
  <2> SUFFICES ASSUME NEW k \in Places PROVE stored'[k] <= CopiesAllowed(k)
    BY <1>1, <1>2, <1>3 DEF StoredAtMostPerCall
  <2>1. stored[k] <= CopiesAllowed(k)
    BY <1>3 DEF StoredAtMostPerCall
  <2>2. CASE k \in places
    <3>1. PICK i \in 1..entry : k = entries[i]
      BY <1>4, <1>6, <1>8, <2>2
    <3>2. stored[k] < CopiesAllowed(k)
      <4>1. i \in 1..Len(entries)
        BY <1>3
      <4> QED
        BY <1>5, <3>1, <4>1
    <3> QED
      BY <1>3, <1>9, <2>2, <3>2
  <2>3. CASE k \notin places
    BY <1>9, <2>1, <2>3
  <2> QED
    BY <2>2, <2>3
<1> QED
  BY <1>12, <1>13, <1>14, <1>15, <1>16, <1>17, <1>18, <1>19
----------------------------------------------------------------------------
(* Every step.                                                             *)
LEMMA NextInv == IInv /\ [Next]_vars => IInv'
<1> SUFFICES ASSUME IInv, [Next]_vars PROVE IInv'
  OBVIOUS
<1>1. CASE Next
  BY <1>1, CallInv, CreateEntriesInv, NextProjectInv, FillInv, RepeatInv, WriteInv, ReturnInv
     DEF Next
<1>2. CASE UNCHANGED vars
  <2>1. /\ Places' = Places /\ Keys' = Keys /\ AllMapped' = AllMapped
        /\ NothingSent' = NothingSent /\ \A k : EntriesOf(k)' = EntriesOf(k)
        /\ \A k : CopiesAllowed(k)' = CopiesAllowed(k)
    BY <1>2, SamePayload, SameCopies DEF vars
  <2>2. \A key : Todo(key)' = Todo(key)
    BY <1>2, <2>1 DEF vars, Todo
  <2>3. SumOfSizes(Batch)' = SumOfSizes(Batch)
    BY <1>2 DEF vars, SumOfSizes, Batch, Size
  <2>4. TypeOK' /\ Mapped'
    BY <1>2, <2>1 DEF IInv, vars, TypeOK, Mapped, Sending
  <2>5. EachEntryOnce' /\ Settled' /\ Unstored'
    BY <1>2, <2>1, <2>2 DEF IInv, vars, EachEntryOnce, Settled, Unstored, Sending
  <2>6. Filling' /\ NothingForgotten' /\ StoredAtMostPerCall'
    BY <1>2, <2>1, <2>3 DEF IInv, vars, Filling, NothingForgotten, StoredAtMostPerCall
  <2> QED
    BY <2>4, <2>5, <2>6 DEF IInv
<1> QED
  BY <1>1, <1>2

(* The inductive invariant.                                                *)
LEMMA SpecInv == Spec => []IInv
BY InitInv, NextInv, PTL DEF Spec

(* The variables keep their types.                                         *)
THEOREM TypesOfCalls == Spec => []TypeOK
<1>1. IInv => TypeOK
  BY DEF IInv
<1> QED
  BY <1>1, SpecInv, PTL

(* The framing of a request: a tag and one to five bytes of size for each  *)
(* of its entries, and two bytes of partial_success.                       *)
LEMMA FramingBounded ==
    ASSUME payload \in Payloads, NEW s \in Seq(Places)
    PROVE  Framing(s) \in Nat /\ Framing(s) <= 2 + 6 * Len(s)
<1> DEFINE N == Len(s)
           a == [i \in 1..N |-> 1 + SizeOfSize(Size(s[i]))]
           A == TotalUpTo(a)
           S == {n \in 0..N : A[n] <= 6 * n}
<1>1. N \in Nat
  OBVIOUS
<1>2. \A n : SizeOfSize(n) \in 1..5
  BY DEF SizeOfSize
<1>3. Len(a) = N /\ \A i \in 1..N : a[i] \in Nat /\ a[i] <= 6
  <2>1. Len(a) = N /\ \A i \in 1..N : a[i] = 1 + SizeOfSize(Size(s[i]))
    BY <1>1
  <2>2. ASSUME NEW i \in 1..N PROVE a[i] \in Nat /\ a[i] <= 6
    <3>1. PICK m \in 1..5 : m = SizeOfSize(Size(s[i]))
      BY <1>2
    <3>2. a[i] = 1 + m
      BY <2>1, <3>1
    <3> HIDE DEF a
    <3> QED
      BY <3>2
  <2> QED
    BY <2>1, <2>2
<1>4. Framing(s) = 2 + A[N]
  BY DEF Framing, Total
<1> HIDE DEF N, a
<1>5. A \in [0..N -> Nat] /\ A[0] = 0 /\ \A n \in 1..N : A[n] = A[n - 1] + a[n]
  BY <1>1, <1>3, NaturalTotals
<1> HIDE DEF A
<1>6. 0 \in S
  BY <1>1, <1>5
<1>7. ASSUME NEW n \in 0..N, n \in S, n < N PROVE n + 1 \in S
  <2>1. n + 1 \in 1..N /\ (n + 1) - 1 = n
    BY <1>1, <1>7
  <2>2. A[n + 1] = A[n] + a[n + 1] /\ a[n + 1] \in Nat /\ a[n + 1] <= 6 /\ A[n] \in Nat
    BY <1>3, <1>5, <2>1
  <2>3. A[n] <= 6 * n
    BY <1>7
  <2>4. A[n + 1] <= 6 * (n + 1)
    BY <2>2, <2>3
  <2> QED
    BY <2>1, <2>4
<1> HIDE DEF S
<1>8. \A n \in 0..N : n \in S
  BY <1>1, <1>6, <1>7, Induction
<1>9. A[N] <= 6 * N /\ A[N] \in Nat
  BY <1>1, <1>5, <1>8 DEF S
<1> QED
  BY <1>1, <1>4, <1>9 DEF N

(* The entries of a request stay under maxRequestSize however their sizes  *)
(* fall, so that the request itself reaches it by less than its framing,   *)
(* two bytes and six at most for each entry; and with                      *)
(* destination_project_quota it holds entries of one project.              *)
THEOREM RequestsAreLegal == Spec => []RequestsLegal
<1>1. IInv => RequestsLegal
  <2> SUFFICES ASSUME IInv, pc = "write"
               PROVE  /\ RequestSize(Batch) < maxRequestSize + Framing(Batch)
                      /\ Framing(Batch) <= 2 + 6 * Len(Batch)
                      /\ quota => \A k \in Range(Batch) : payload[k].project = project
    BY DEF RequestsLegal
  <2>1. SumOfSizes(Batch) < maxRequestSize /\ project \in Keys \ left
        /\ entry \in 0..Len(entries) /\ entries \in Seq(Places) /\ payload \in Payloads
        /\ sent[project] \in Seq(Places)
    BY DEF IInv, Filling, TypeOK
  <2>2. sent[project] \o entries = EntriesOf(project)
    <3>1. Todo(project) = entries
      BY DEF Todo
    <3> QED
      BY <2>1, <3>1 DEF IInv, EachEntryOnce
  <2>3. ASSUME NEW k \in Range(Batch) PROVE Key(k) = project
    <3> DEFINE done == sent[project]
               all == done \o entries
    <3>1. Batch \in Seq(Places) /\ Len(Batch) = entry /\ \A i \in 1..entry : Batch[i] = entries[i]
      BY <2>1, Divided DEF Batch
    <3>2. DOMAIN Batch = 1..entry
      BY <3>1, LenProperties
    <3>3. PICK i \in 1..entry : k = Batch[i]
      BY <2>3, <3>2 DEF Range
    <3>4. PICK m \in Nat : m = Len(done) + i
      BY <2>1
    <3> HIDE DEF done
    <3>5. Len(all) = Len(done) + Len(entries) /\ done \in Seq(Places)
      BY <2>1 DEF done
    <3>6. m \in 1..Len(all) /\ ~(m <= Len(done)) /\ m - Len(done) = i
      BY <2>1, <3>4, <3>5
    <3>7. all[m] = entries[i]
      BY <2>1, <3>5, <3>6, ConcatProperties
    <3>8. all = EntriesOf(project)
      BY <2>2 DEF done
    <3> HIDE DEF all
    <3> QED
      BY <2>1, <3>1, <3>3, <3>6, <3>7, <3>8, EntriesOfKey, SMTT(30)
  <2>4. Batch \in Seq(Places)
    BY <2>1, Divided DEF Batch
  <2>5. Framing(Batch) \in Nat /\ Framing(Batch) <= 2 + 6 * Len(Batch)
    BY <2>1, <2>4, FramingBounded
  <2>6. PICK size \in Nat : size = SumOfSizes(Batch)
    BY <2>1 DEF IInv, Filling, TypeOK
  <2>7. RequestSize(Batch) < maxRequestSize + Framing(Batch)
    BY <2>1, <2>5, <2>6, LogPushAssumption DEF RequestSize
  <2>8. quota => \A k \in Range(Batch) : payload[k].project = project
    BY <2>3 DEF Key
  <2> QED
    BY <2>5, <2>7, <2>8
<1> QED
  BY <1>1, SpecInv, PTL

(* A call sends every entry of the payload once and in the order of the    *)
(* records.                                                                *)
THEOREM EntriesGoOutOnce == Spec => []EachEntryOnce
<1>1. IInv => EachEntryOnce
  BY DEF IInv
<1> QED
  BY <1>1, SpecInv, PTL

(* PushLogs gives up on a payload only when each of its entries was stored *)
(* or refused, or when a record could not be mapped.                       *)
THEOREM NothingIsForgotten == Spec => []NothingForgotten
<1>1. IInv => NothingForgotten
  BY DEF IInv
<1> QED
  BY <1>1, SpecInv, PTL

(* An entry is stored at most once by each call of PushLogs and, without   *)
(* DisableRetries, once more by each request that the client repeats; and  *)
(* never if one record of the payload cannot be mapped.                    *)
THEOREM StoredOncePerCall == Spec => []StoredAtMostPerCall
<1>1. IInv => StoredAtMostPerCall
  BY DEF IInv
<1> QED
  BY <1>1, SpecInv, PTL
=============================================================================
