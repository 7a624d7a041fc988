------------------------------ MODULE LogPush ------------------------------
(***************************************************************************)
(* LogsExporter.PushLogs (exporter/collector/logs.go) on one payload, and  *)
(* the exporterhelper around it, which calls it again with the whole       *)
(* payload after an error that is not Permanent.  The entries of a payload *)
(* go out project by project in WriteLogEntries requests that are filled   *)
(* up to a size.  The client of Cloud Logging, unless DisableRetries is    *)
(* set, repeats a request within one WriteLogEntries.                      *)
(*                                                                         *)
(* Abstracted: the mapping of a record to entries (module LogSplit has the *)
(* splitting); an entry is its place in the payload, with a project and a  *)
(* size.  The exporter keeps no state between calls.                       *)
(***************************************************************************)
EXTENDS Naturals, Sequences, Functions, Grouping, Sums

CONSTANTS
    Payloads,        \* sequences of Records
    maxRequestSize,  \* the size a request must stay under
    MaxCalls,        \* bound: calls the exporterhelper makes of PushLogs
    MaxRepeats       \* bound: times the client repeats one request

(* A log record: whether it can be mapped, and if so the project and the   *)
(* size of its entry.                                                      *)
Records == [project : STRING, size : Nat, ok : BOOLEAN]

ASSUME LogPushAssumption ==
    /\ \A d \in Payloads : d \in Seq(Records)
    /\ maxRequestSize \in Nat \ {0}
    /\ MaxCalls \in Nat \ {0} /\ MaxRepeats \in Nat

VARIABLES
    payload,    \* the payload, and
    quota,      \* destination_project_quota: requests are per project
    disableRetries,  \* DisableRetries, which wrapping exporters set
    calls,      \* calls of PushLogs made
    pc,         \* "called", "next" project, "fill", "write", or "returned"
    left,       \* projects whose entries are still to be sent in this call
    project,    \* project
    entries,    \* entries, what is left of this project
    entry,      \* entry, the length of the batch
    batchSize,  \* currentBatchSize
    repeats,    \* times the client has repeated this request
    failed,     \* errs holds an error
    retryable,  \* hasRetryableErr
    result,     \* "none", "ok", "permanent" or "retryable"
    sent,       \* history: the entries of each project sent in this call
    stored,     \* history: how often Cloud Logging has stored each entry
    repeated,   \* history: how often a request with the entry was repeated
    refused     \* history: entries of a request refused for good

vars == <<payload, quota, disableRetries, calls, pc, left, project, entries, entry,
          batchSize, repeats, failed, retryable, result, sent, stored, repeated, refused>>
callVars == <<payload, quota, disableRetries, calls>>
histVars == <<stored, repeated, refused>>

Places == 1..Len(payload)
Size(k) == payload[k].size

(* createEntries: the key of the map an entry is put under.               *)
Key_Mixed(k) == "all"
Key(k) == IF quota THEN payload[k].project ELSE "all"
Keys == {Key(k) : k \in Places}

(* projectMapping[key] after the records: the entries of the key.          *)
EntriesOf(key) == PlacesOf(key, [k \in Places |-> Key(k)])
NothingSent == [key \in Keys |-> <<>>]
AllMapped == \A k \in Places : payload[k].ok

Init ==
    /\ payload \in Payloads /\ quota \in BOOLEAN /\ disableRetries \in BOOLEAN
    /\ calls = 0
    /\ pc = "returned" /\ result = "none"
    /\ left = {} /\ project = "all" /\ entries = <<>> /\ entry = 0 /\ batchSize = 0
    /\ repeats = 0 /\ failed = FALSE /\ retryable = FALSE
    /\ sent = NothingSent
    /\ stored = [k \in Places |-> 0] /\ repeated = stored /\ refused = {}
----------------------------------------------------------------------------
(* exporterhelper: the first call, and a call after each error that is not *)
(* Permanent.                                                              *)
Call ==
    /\ pc = "returned" /\ result \in {"none", "retryable"} /\ calls < MaxCalls
    /\ calls' = calls + 1 /\ result' = "none" /\ pc' = "called"
    /\ failed' = FALSE /\ retryable' = FALSE /\ sent' = NothingSent
    /\ UNCHANGED <<payload, quota, disableRetries, left, project, entries, entry,
                   batchSize, repeats, histVars>>

CreateEntries_KeepsValid ==
    /\ pc = "called" /\ pc' = "next"
    /\ left' = {Key(k) : k \in {x \in Places : payload[x].ok}}
    /\ UNCHANGED <<callVars, project, entries, entry, batchSize, repeats, failed,
                   retryable, result, sent, histVars>>

(* One record that cannot be mapped is a Permanent error for the payload.  *)
CreateEntries ==
    /\ pc = "called"
    /\ \/ ~AllMapped /\ pc' = "returned" /\ result' = "permanent" /\ UNCHANGED left
       \/ AllMapped /\ pc' = "next" /\ left' = Keys /\ UNCHANGED result
    /\ UNCHANGED <<callVars, project, entries, entry, batchSize, repeats, failed,
                   retryable, sent, histVars>>

(* for project, entries := range projectEntries                            *)
NextProject ==
    /\ pc = "next"
    /\ \E key \in left :
          /\ left' = left \ {key} /\ project' = key
          /\ entries' = EntriesOf(key)
    /\ entry' = 0 /\ batchSize' = 0 /\ pc' = "fill"
    /\ UNCHANGED <<callVars, repeats, failed, retryable, result, sent, histVars>>

(* Past the last entry the size check is meant to fail.                    *)
EntrySize == IF entry < Len(entries) THEN Size(entries[entry + 1]) ELSE maxRequestSize
Fits_Reached == entry < Len(entries) /\ batchSize + EntrySize <= maxRequestSize
Fits == batchSize + EntrySize < maxRequestSize

Fill_PastEnd ==
    /\ pc = "fill"
    /\ \/ /\ Fits
          /\ batchSize' = batchSize + EntrySize /\ entry' = entry + 1
          /\ UNCHANGED pc
       \/ ~Fits /\ pc' = "write" /\ UNCHANGED <<batchSize, entry>>
    /\ UNCHANGED <<callVars, left, project, entries, repeats, failed, retryable,
                   result, sent, histVars>>
Fill ==
    /\ pc = "fill"
    /\ \/ /\ entries # <<>> /\ Fits
          /\ batchSize' = batchSize + EntrySize /\ entry' = entry + 1
          /\ UNCHANGED pc
       \/ entries # <<>> /\ ~Fits /\ pc' = "write" /\ UNCHANGED <<batchSize, entry>>
       \/ entries = <<>> /\ pc' = "next" /\ UNCHANGED <<batchSize, entry>>
    /\ UNCHANGED <<callVars, left, project, entries, repeats, failed, retryable,
                   result, sent, histVars>>

Batch == SubSeq(entries, 1, entry)

Stores(places) ==
    stored' = [k \in Places |-> stored[k] + IF k \in places THEN 1 ELSE 0]

(* entries = entries[entry:]; entry = 0; currentBatchSize = 0              *)
Advance_SkipsOne ==
    /\ entries' = SubSeq(entries, entry + 2, Len(entries))
    /\ entry' = 0 /\ batchSize' = 0
Advance ==
    /\ entries' = SubSeq(entries, entry + 1, Len(entries))
    /\ entry' = 0 /\ batchSize' = 0

(* isRetryableWriteLogEntriesError                                         *)
Note_LastOnly(isRetryable) == failed' = TRUE /\ retryable' = isRetryable
Note(isRetryable) == failed' = TRUE /\ retryable' = (retryable \/ isRetryable)

(* The client tries a request again when it is answered with Unavailable,  *)
(* Internal or DeadlineExceeded, which does not say that it was not        *)
(* stored.  It goes on until the timeout of WriteLogEntries.               *)
ClientRetries_Always == TRUE
ClientRetries == ~disableRetries
Repeat ==
    /\ pc = "write" /\ ClientRetries /\ repeats < MaxRepeats
    /\ repeats' = repeats + 1
    /\ Stores({}) \/ Stores(Range(Batch))
    /\ repeated' = [k \in Places |-> repeated[k] + IF k \in Range(Batch) THEN 1 ELSE 0]
    /\ UNCHANGED <<callVars, pc, left, project, entries, entry, batchSize, failed,
                   retryable, result, sent, refused>>

(* The answer PushLogs gets.  With PartialSuccess the valid entries of a   *)
(* refused request are stored, and a request that timed out may have been  *)
(* stored.                                                                 *)
Write ==
    /\ pc = "write" /\ pc' = "fill"
    /\ \/ Stores(Range(Batch)) /\ UNCHANGED <<failed, retryable, refused>>
       \/ Note(TRUE) /\ UNCHANGED refused /\ (Stores({}) \/ Stores(Range(Batch)))
       \/ \E bad \in SUBSET Range(Batch) :
             /\ Note(FALSE)
             /\ Stores(Range(Batch) \ bad) /\ refused' = refused \cup bad
    /\ sent' = [sent EXCEPT ![project] = @ \o Batch]
    /\ Advance /\ repeats' = 0
    /\ UNCHANGED <<callVars, left, project, result, repeated>>

Return ==
    /\ pc = "next" /\ left = {}
    /\ pc' = "returned"
    /\ result' = CASE ~failed                 -> "ok"
                   [] failed /\ ~retryable    -> "permanent"
                   [] failed /\ retryable     -> "retryable"
    /\ UNCHANGED <<callVars, left, project, entries, entry, batchSize, repeats,
                   failed, retryable, sent, histVars>>

Next == Call \/ CreateEntries \/ NextProject \/ Fill \/ Repeat \/ Write \/ Return

Spec == Init /\ [][Next]_vars

(* A call of PushLogs runs on; every request gets a last answer, as the    *)
(* client may repeat it only until the timeout.                            *)
FairSpec == Spec /\ WF_vars(CreateEntries \/ NextProject \/ Fill \/ Write \/ Return)
----------------------------------------------------------------------------
(* proto.Size of a request: partial_success, and each entry behind a tag   *)
(* and its size, which is written seven bits to a byte.                    *)
SizeOfSize(n) ==
    IF n < 128 THEN 1 ELSE IF n < 16384 THEN 2
    ELSE IF n < 2097152 THEN 3 ELSE IF n < 268435456 THEN 4 ELSE 5
SumOfSizes(places) == Total([i \in 1..Len(places) |-> Size(places[i])])
Framing(places) == 2 + Total([i \in 1..Len(places) |-> 1 + SizeOfSize(Size(places[i]))])
RequestSize(places) == Framing(places) + SumOfSizes(places)

(* A request may be larger than maxRequestSize, which logsutil calls the   *)
(* maximum size of a request, but only by its framing, which PushLogs does *)
(* not count and the number of its entries bounds; and a request with      *)
(* destination_project_quota holds entries of the one project whose quota  *)
(* it is charged to.                                                       *)
RequestsLegal ==
    pc = "write" =>
        /\ RequestSize(Batch) < maxRequestSize + Framing(Batch)
        /\ Framing(Batch) <= 2 + 6 * Len(Batch)
        /\ quota => \A k \in Range(Batch) : payload[k].project = project

(* What a call has yet to send of a project.                               *)
Todo(key) ==
    IF pc # "next" /\ project = key THEN entries
    ELSE IF key \in left THEN EntriesOf(key) ELSE <<>>

(* However the sizes fall, a call sends every entry once: what has been    *)
(* sent and what is left make up the payload, project by project, in the   *)
(* order of the records.                                                   *)
EachEntryOnce ==
    pc \in {"next", "fill", "write"} =>
        \A key \in Keys : sent[key] \o Todo(key) = EntriesOf(key)

(* A payload is not given up on while one of its entries might still be    *)
(* stored: after "ok" or "permanent", each entry was stored or refused, if *)
(* the records could all be mapped.                                        *)
NothingForgotten ==
    pc = "returned" /\ result \in {"ok", "permanent"} /\ AllMapped =>
        \A k \in Places : stored[k] > 0 \/ k \in refused

(* How often an entry may have been stored by now.                         *)
CopiesAllowed(k) == IF disableRetries THEN calls ELSE calls + repeated[k]

(* An entry is stored again only by another call of PushLogs, or because   *)
(* the client repeated a request that holds it, which it does not with     *)
(* DisableRetries; and never without the rest of the payload: a record     *)
(* that cannot be mapped takes all others with it.                         *)
StoredAtMostPerCall ==
    \A k \in Places : stored[k] <= IF AllMapped THEN CopiesAllowed(k) ELSE 0

(* A call of PushLogs returns.                                             *)
PushReturns == (pc = "called") ~> (pc = "returned")

(* logsutil.ExporterConfig: "Request larger than this size will be split   *)
(* into multiple requests", so that PushLogs comes to the end of them.     *)
LargePayloadsAreSplit == PushReturns
=============================================================================
