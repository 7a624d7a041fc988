------------------------------ MODULE TraceSpans ------------------------------
(***************************************************************************)
(* How the trace exporter makes a Cloud Trace span of a span of the SDK    *)
(* (exporter/trace/trace_proto.go), and the collector a span of the SDK of *)
(* one of its own (exporter/collector/spandata.go).                        *)
(*                                                                         *)
(* Attributes are a sequence of [key, value]; the value "list" stands for  *)
(* the types that Cloud Trace does not have, "" for an empty string.  A    *)
(* span is [self, parent, remote, status, kind, attrs, resource, scope,    *)
(* events, links], where scope is [name, version]; events and links are    *)
(* sequences of attributes.  An identifier 0 is invalid.                   *)
(***************************************************************************)
EXTENDS Integers, Sequences, SequencesExt, FiniteSetsExt, TLC, MonitoredResources, Sums

KeysOf(kvs) == {kvs[n].key : n \in DOMAIN kvs}
Kv(key, value) == [key |-> key, value |-> value]
FirstValue(kvs, key, orElse) ==
    LET at == SelectInSeq(kvs, LAMBDA kv : kv.key = key)
    IN  IF at = 0 THEN orElse ELSE kvs[at].value

(* The attributes of the span, those of the resource that it has not, the  *)
(* scope, and the labels of the monitored resource.  Without attributes of *)
(* the resource there is nothing but those of the span.                    *)
FromResource_All(span) == span.resource
FromResource(span) == SelectSeq(span.resource, LAMBDA kv : kv.key \notin KeysOf(span.attrs))
ScopeLabels(span, taken) ==
    (IF "otel.scope.name" \in taken THEN <<>> ELSE <<Kv("otel.scope.name", span.scope.name)>>)
    \o (IF "otel.scope.version" \in taken \/ span.scope.version = "" THEN <<>>
        ELSE <<Kv("otel.scope.version", span.scope.version)>>)
ResourceLabels(resource) ==
    LET attrs == [k \in KeysOf(resource) |-> FirstValue(resource, k, "")]
        gceResource == ForMonitoring(attrs)
    IN  SetToSeq({Kv("g.co/r/" \o gceResource.type \o "/" \o l, gceResource.labels[l]) :
                     l \in DOMAIN gceResource.labels})
attributeWithLabelsFromResources(span) ==
    IF span.resource = <<>> THEN span.attrs
    ELSE LET given == span.attrs \o FromResource(span)
         IN  given \o ScopeLabels(span, KeysOf(given)) \o ResourceLabels(span.resource)

defaultAttributeMapping(k) ==
    CASE k = "http.path" -> "/http/path"            [] k = "http.host" -> "/http/host"
      [] k = "http.method" -> "/http/method"        [] k = "http.user_agent" -> "/http/user_agent"
      [] k = "http.status_code" -> "/http/status_code"
      [] OTHER -> k

(* A type Cloud Trace does not have is left out, a key that is too long is *)
(* left out and counted, and of two values of a key the last is kept.      *)
TooLong(key) == key = "long"
HasValue(kv) == kv.value # "list"
Copied(kvs) == SelectSeq(kvs, LAMBDA kv : HasValue(kv) /\ ~TooLong(defaultAttributeMapping(kv.key)))
AttributeMap(kvs) ==
    FoldLeft(LAMBDA map, kv : defaultAttributeMapping(kv.key) :> kv.value @@ map, << >>, Copied(kvs))
DroppedAttributesCount(kvs) ==
    Len(SelectSeq(kvs, LAMBDA kv : HasValue(kv) /\ TooLong(defaultAttributeMapping(kv.key))))
copyAttributes(kvs) == [map |-> AttributeMap(kvs), dropped |-> DroppedAttributesCount(kvs)]

(* The first so many, and how many were dropped.                           *)
Limited(s, limit) ==
    [kept |-> SubSeq(s, 1, Min({limit, Len(s)})), dropped |-> Max({0, Len(s) - limit})]
CopyEach(s, limit) ==
    [kept    |-> [n \in DOMAIN Limited(s, limit).kept |-> copyAttributes(s[n])],
     dropped |-> Limited(s, limit).dropped]

(* Truncated in bytes, then back to the end of a character; a text is the  *)
(* sequence of the widths of its characters.                               *)
ByteLen(text) == Total(text)
Boundaries(text) == {ByteLen(SubSeq(text, 1, n)) : n \in 0..Len(text)}
trunc_Bytes(text, limit) ==
    IF ByteLen(text) > limit THEN [value |-> limit, truncated |-> ByteLen(text) - limit]
    ELSE [value |-> ByteLen(text), truncated |-> 0]
trunc(text, limit) ==
    IF ByteLen(text) > limit
    THEN LET whole == Max({b \in Boundaries(text) : b <= limit})
         IN  [value |-> whole, truncated |-> ByteLen(text) - whole]
    ELSE [value |-> ByteLen(text), truncated |-> 0]

convertSpanKind(kind) ==
    IF kind \in {"server", "client", "producer", "consumer"} THEN kind ELSE "internal"
StatusOf(status) ==
    CASE status = "Ok" -> "OK" [] status = "Unset" -> "none" [] OTHER -> "UNKNOWN"

AgentLabel(map) == map @@ "g.co/agent" :> "userAgent"
protoFromReadOnlySpan(span, exporterProject, maxEvents, maxLinks) ==
    LET copied == copyAttributes(attributeWithLabelsFromResources(span))
    IN  [project    |-> FirstValue(span.resource, "gcp.project.id", exporterProject),
         span       |-> span.self,
         parent     |-> IF span.parent # span.self THEN span.parent ELSE 0,
         sameProcess |-> ~span.remote,
         status     |-> StatusOf(span.status),
         kind       |-> convertSpanKind(span.kind),
         attributes |-> [copied EXCEPT !.map = AgentLabel(@)],
         timeEvents |-> CopyEach(span.events, maxEvents),
         links      |-> CopyEach(span.links, maxLinks)]
-----------------------------------------------------------------------------
(* The collector.  Service attributes that are empty are left out, and the *)
(* attributes of the resource go before those of the span.                 *)
ServiceKeys == {"service.name", "service.namespace", "service.instance.id"}
Otel(kvs) ==
    LET NotEmpty(kv) == ~(kv.key \in ServiceKeys /\ kv.value = "")
        AsString(kv) == IF kv.value = "list" THEN [kv EXCEPT !.value = "text"] ELSE kv
        kept == SelectSeq(kvs, NotEmpty)
    IN  [n \in DOMAIN kept |-> AsString(kept[n])]
pdataAttributesToOTAttributes(kvs, resource) == Otel(resource) \o Otel(kvs)
pdataSpanToOTSpanData(span) ==
    LET OfEach(s) == [n \in DOMAIN s |-> pdataAttributesToOTAttributes(s[n], <<>>)]
    IN  [self |-> span.self, parent |-> span.parent, remote |-> FALSE,
         status |-> span.status, kind |-> convertSpanKind(span.kind),
         attrs |-> pdataAttributesToOTAttributes(span.attrs, span.resource),
         resource |-> pdataAttributesToOTAttributes(<<>>, span.resource), scope |-> span.scope,
         events |-> OfEach(span.events), links |-> OfEach(span.links)]
-----------------------------------------------------------------------------
(* Every attribute of a span that Cloud Trace has a type for is in what is *)
(* sent, under the key it is mapped to, or is counted as dropped; one of   *)
(* the resource is, unless the span has its key; and the collector sends   *)
(* what the SDK would.  Two keys that are mapped to one are excepted.      *)
AttributesArrive(span, maxEvents, maxLinks) ==
    LET sent == protoFromReadOnlySpan(span, "exporter", maxEvents, maxLinks)
        map  == sent.attributes.map
        collected == protoFromReadOnlySpan(pdataSpanToOTSpanData(span), "exporter", maxEvents, maxLinks)
        keys == KeysOf(span.attrs) \cup KeysOf(span.resource)
        Alone(k) == \A other \in keys \ {k} :
                        defaultAttributeMapping(other) # defaultAttributeMapping(k)
        Arrives(kv) ==
            \/ ~HasValue(kv) \/ ~Alone(kv.key)
            \/ TooLong(kv.key) /\ sent.attributes.dropped > 0
            \/ map[defaultAttributeMapping(kv.key)] = kv.value
    IN  /\ \A n \in DOMAIN span.attrs : Arrives(span.attrs[n])
        /\ \A n \in DOMAIN span.resource :
              span.resource[n].key \in KeysOf(span.attrs) \/ Arrives(span.resource[n])
        /\ "g.co/agent" \in DOMAIN map
        /\ sent.project = collected.project /\ sent.parent = collected.parent
        /\ Otel(span.resource) # <<>> =>
              \A k \in DOMAIN map :
                 \/ k \in DOMAIN collected.attributes.map /\ collected.attributes.map[k] = map[k]
                 \/ k \in ServiceKeys /\ map[k] = ""
                 \/ \E o \in keys : ~Alone(o) /\ defaultAttributeMapping(o) = k

(* Events and links are kept or counted, the first ones being kept.        *)
ListsAddUp(s, limit) ==
    LET l == CopyEach(s, limit) IN
    /\ Len(l.kept) + l.dropped = Len(s) /\ Len(l.kept) <= limit
    /\ l.dropped > 0 => Len(l.kept) = limit
    /\ \A n \in DOMAIN l.kept : l.kept[n] = copyAttributes(s[n])

(* A text that is cut has whole characters, all of those that fit, and     *)
(* says how many bytes are missing.                                        *)
TextCutAtCharacters(text, limit) ==
    LET t == trunc(text, limit) IN
    /\ t.value <= limit /\ t.value \in Boundaries(text)
    /\ t.value + t.truncated = ByteLen(text)
    /\ t.truncated > 0 => \A b \in Boundaries(text) : b <= limit => b <= t.value
=============================================================================
