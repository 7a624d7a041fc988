------------------------------ MODULE LogRecords ------------------------------
(***************************************************************************)
(* How the logs exporter of the collector makes a LogEntry of a log record *)
(* (exporter/collector/logs.go, createEntries and logToSplitEntries).      *)
(*                                                                         *)
(* A record keeps what the mapping branches on.  Its special attributes    *)
(* are "absent", "good" (they parse) or "bad"; its body is one of Bodies.  *)
(* Labels are functions from keys to values.  LogPush batches the entries  *)
(* and LogSplit cuts the text payloads that are too large.                 *)
(***************************************************************************)
EXTENDS Integers, Sequences

(* LogSeverity by SeverityNumber, from 0; Cloud Logging numbers them so    *)
(* that a higher one is more severe.                                       *)
DEFAULT == 0
DEBUG == 100
INFO == 200
NOTICE == 300
WARNING == 400
ERROR == 500
CRITICAL == 600
ALERT == 700
EMERGENCY == 800

severityMapping_Shifted ==
    [n \in 0..24 |-> CASE n = 0 -> DEFAULT      [] n \in 1..8 -> DEBUG
                       [] n \in 9..10 -> INFO   [] n \in 11..12 -> NOTICE
                       [] n \in 13..17 -> WARNING [] n \in 18..20 -> ERROR
                       [] n \in 21..22 -> CRITICAL [] n = 23 -> ALERT
                       [] n = 24 -> EMERGENCY]
severityMapping ==
    [n \in 0..24 |-> CASE n = 0 -> DEFAULT      [] n \in 1..8 -> DEBUG
                       [] n \in 9..10 -> INFO   [] n \in 11..12 -> NOTICE
                       [] n \in 13..16 -> WARNING [] n \in 17..20 -> ERROR
                       [] n \in 21..22 -> CRITICAL [] n = 23 -> ALERT
                       [] n = 24 -> EMERGENCY]

otelSeverityForText ==
    [trace |-> 1, trace2 |-> 2, trace3 |-> 3, trace4 |-> 4,
     debug |-> 5, debug2 |-> 6, debug3 |-> 7, debug4 |-> 8,
     info |-> 9, info2 |-> 10, info3 |-> 11, info4 |-> 12,
     warn |-> 13, warn2 |-> 14, warn3 |-> 15, warn4 |-> 16,
     error |-> 17, error2 |-> 18, error3 |-> 19, error4 |-> 20,
     fatal |-> 21, fatal2 |-> 22, fatal3 |-> 23, fatal4 |-> 24,
     default |-> 0, notice |-> 11, warning |-> 13, critical |-> 21,
     alert |-> 23, emergency |-> 24]

(* Bodies: a map structpb takes, one it refuses, bytes of a JSON object,   *)
(* other bytes, no bytes, text, text that is not UTF-8, and no text.       *)
Bodies == {"map", "badMap", "json", "bytes", "noBytes", "text", "badText", "empty"}

(* The body is rewritten in the payload for Error Reporting: what is not a *)
(* map becomes a map of its text, and gets the type of the event.  Text    *)
(* that is not UTF-8 makes a map structpb refuses.                         *)
Reported_Wraps(body) == IF body = "map" THEN "badMap" ELSE "map"
Reported(body) == IF body \in {"badMap", "badText"} THEN "badMap" ELSE "map"

(* toProtoStruct marshals the []byte of a bytes body, which makes a JSON   *)
(* string of it whatever the bytes hold, and a string is not unmarshalled  *)
(* to a map.  Only the nil of no bytes is: it marshals to null.            *)
ToProtoStruct(body) == body = "noBytes"
IsStruct(body) == body = "map" \/ ToProtoStruct(body)
PayloadOf(body) ==
    CASE IsStruct(body)                     -> "json"
      [] ~IsStruct(body) /\ body # "empty"  -> "text"
      [] body = "empty"                     -> "none"

(* getLogName: the attribute, empty or not, before the default.            *)
HasLogName(r, defaultLogName) == r.logName # "absent" \/ defaultLogName # ""

(* The labels of one set, filled in from another.                          *)
Over(labels, others) ==
    [k \in DOMAIN labels \cup DOMAIN others |-> IF k \in DOMAIN labels THEN labels[k] ELSE others[k]]

(* mergeLogLabels: the labels of the resource over those of the scope.     *)
NonEmpty(labels) == [k \in {x \in DOMAIN labels : labels[x] # ""} |-> labels[k]]
mergeLogLabels(scope, resource) == Over(resource, NonEmpty(scope))

(* The attributes, but for those that start with gcp., fill in what the    *)
(* copied labels lack, and the event name is set last.                     *)
GcpKeys == {"gcp.log_name", "gcp.other"}
OwnLabels(attrs) == [k \in DOMAIN attrs \ GcpKeys |-> attrs[k]]
EventLabel(eventName) == [k \in IF eventName = "" THEN {} ELSE {"event.name"} |-> eventName]

EntryLabels_AttrsFirst(labels, attrs, eventName) ==
    Over(EventLabel(eventName), Over(OwnLabels(attrs), labels))
EntryLabels(labels, attrs, eventName) ==
    Over(EventLabel(eventName), Over(labels, OwnLabels(attrs)))

EntryTime(r, processTime) ==
    IF r.time # 0 THEN r.time ELSE IF r.observed # 0 THEN r.observed ELSE processTime

(* The text counts only beside SeverityNumber 0.                           *)
SeverityOf(r) ==
    IF r.severity = 0 /\ r.text \in DOMAIN otelSeverityForText
    THEN otelSeverityForText[r.text] ELSE r.severity

IsReported_Fatal(severity, errorReportingType) == errorReportingType /\ severity >= 21
IsReported(severity, errorReportingType) == errorReportingType /\ severity >= 17

(* logToSplitEntries up to the splitting.  No log name, a source location  *)
(* that does not parse and an unknown severity are errors; an HTTP request *)
(* or operation that does not parse is left out.                           *)
Refused(r, cfg) ==
    \/ ~HasLogName(r, cfg.defaultLogName)
    \/ r.sourceLocation = "bad" \/ r.severity \notin 0..24

Parsed(attribute) == attribute = "good"

(* The body of the record once it has been mapped.                         *)
BodyAfter(r, cfg) ==
    IF ~Refused(r, cfg) /\ IsReported(SeverityOf(r), cfg.errorReportingType)
    THEN Reported(r.body) ELSE r.body

Entry(r, cfg, labels, processTime) ==
    [time           |-> EntryTime(r, processTime),
     labels         |-> EntryLabels(labels, r.attributes, r.eventName),
     sourceLocation |-> Parsed(r.sourceLocation),
     httpRequest    |-> Parsed(r.httpRequest),
     operation      |-> Parsed(r.operation),
     traceSampled   |-> r.sampledFlag \/ r.traceSampled = "true",
     severity       |-> severityMapping[SeverityOf(r)],
     payload        |-> PayloadOf(BodyAfter(r, cfg))]

(* unmarshalJSONToIntByBitSize, and the conversion of its result to the    *)
(* field: a JSON number is read in wide bits whatever the field is, a      *)
(* quoted one in the bits of the field.  A width of b bits is given as     *)
(* 2^(b - 1), half of the values it tells apart.                           *)
InBits(n, half) == n \in (-half)..(half - 1)
Wrapped(n, half) ==
    LET u == n % (2 * half) IN IF u >= half THEN u - 2 * half ELSE u
ParseBits_Wide(form, half, wide) == wide
ParseBits(form, half, wide) == IF form = "string" THEN half ELSE wide
ParsesAsInt(form, n, half, wide) ==
    form \in {"number", "string"} /\ InBits(n, ParseBits(form, half, wide))
ParsedInt(n, half) == Wrapped(n, half)
-----------------------------------------------------------------------------
(* A record that is mapped again, by a retry of its payload, gives the     *)
(* same entry, though the first mapping rewrote its body for Error         *)
(* Reporting; only the time of a record that has none moves.               *)
MappedAgainIsSame(r, cfg, labels, now, later) ==
    ~Refused(r, cfg) =>
        LET again == [r EXCEPT !.body = BodyAfter(r, cfg)]
            first == Entry(r, cfg, labels, now)
        IN  /\ ~Refused(again, cfg)
            /\ [Entry(again, cfg, labels, later) EXCEPT !.time = first.time] = first
            /\ r.time + r.observed > 0 => Entry(again, cfg, labels, later).time = first.time

(* Error Reporting gets exactly the entries whose severity in Cloud        *)
(* Logging is ERROR or above, whether the number or the text said so, and  *)
(* a higher number never gives a lower severity.                           *)
ReportedAreErrors(r, cfg) ==
    ~Refused(r, cfg) =>
        /\ IsReported(SeverityOf(r), TRUE) <=> severityMapping[SeverityOf(r)] >= ERROR
        /\ \A n \in 0..SeverityOf(r) : severityMapping[n] <= severityMapping[SeverityOf(r)]

(* No attribute of a record hides a label of its resource or scope, and    *)
(* none is lost that hides nothing; the event name hides both.             *)
LabelsNotHidden(r, labels) ==
    LET all == EntryLabels(labels, r.attributes, r.eventName)
        HiddenByEvent(k) == k = "event.name" /\ r.eventName # ""
    IN  /\ \A k \in DOMAIN labels : HiddenByEvent(k) \/ all[k] = labels[k]
        /\ \A k \in DOMAIN r.attributes \ DOMAIN labels :
              \/ k \in GcpKeys /\ k \notin DOMAIN all
              \/ k \notin GcpKeys /\ (HiddenByEvent(k) \/ all[k] = r.attributes[k])

(* A quoted number is refused or kept as it is written, and a JSON number  *)
(* that fits its field gives what the quoted one gives.                    *)
QuotedIntsAreKept(n, half, wide) ==
    /\ ParsesAsInt("string", n, half, wide) => ParsedInt(n, half) = n
    /\ InBits(n, half) => ParsesAsInt("number", n, half, wide) /\ ParsesAsInt("string", n, half, wide)
=============================================================================
