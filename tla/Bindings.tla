------------------------------ MODULE Bindings ------------------------------
(***************************************************************************)
(* HTTP and Kafka behind one interface: encode and decode for a binding b, *)
(* a content mode m and a choice s between the strict encoders and the     *)
(* ones that report; and what a crossing changes in an event.              *)
(***************************************************************************)
EXTENDS KafkaBinding

\* EncodeHTTP and EncodeKafka are their WithReport form followed by
\* rejectConversionLoss.
strictly(results) ==
  UNION {IF r.err # Nil THEN {r} ELSE Returns(rejectConversionLoss(r.value.report), r.value)
         : r \in results}

encode(b, m, s, events) ==
  LET results == IF b = "http" THEN EncodeHTTPWithReport(events, m)
                 ELSE EncodeKafkaWithReport(events[1], m, KafkaPartitionKey(events[1]))
  IN  IF s THEN strictly(results) ELSE results

\* Kafka reports carry no index: one event, index 1.
indexedReport(b, fields) == IF b = "http" THEN fields ELSE {<<1, f>> : f \in fields}

decode(b, message, limits) ==
  IF b = "http" THEN DecodeHTTP(message, limits)
  ELSE {[r EXCEPT !.value = IF r.err # Nil THEN Nil ELSE <<@.event>>]
        : r \in DecodeKafka(message, limits)}

\* HTTPMessage.Mode and KafkaMessage.Mode: the mode a message is read in.  Binary
\* data that is declared application/cloudevents+json is read as an event.
readMode(b, message) ==
  IF b = "http" THEN httpMode(contentTypeOf(message)) ELSE kafkaMode(recordType(message))

\* One event sent and received; an error of either side is the crossing's.
cross(b, m, s, event, limits) ==
  UNION {IF r.err # Nil THEN {r}
         ELSE {[d EXCEPT !.value = IF d.err # Nil THEN Nil ELSE @[1]]
               : d \in decode(b, r.value.message, limits)}
         : r \in encode(b, m, s, <<event>>)}

-----------------------------------------------------------------------------
\* Texts of an event are strings, its time is canonical, and its maps and records
\* have nothing else in them.
EventOfStrings(e) ==
  /\ e.id \in Strings /\ e.source \in Strings /\ e.type \in Strings
  /\ e.dataContentType \in Strings /\ e.dataSchema \in Strings /\ e.subject \in Strings
  /\ e.time \in Strings
  /\ e.time # "" => ValidUTF8(e.time) /\ ParseTime(e.time) \in {Nil, e.time}
  /\ e.data = [kind |-> e.data.kind, bytes |-> e.data.bytes] /\ e.data.bytes \in Strings
  /\ e.data.kind = "absent" => e.data.bytes = ""
  /\ e.extensions = [n \in DOMAIN e.extensions |->
                       Attribute(e.extensions[n].kind, e.extensions[n].text)]
  /\ \A n \in DOMAIN e.extensions : n \in Strings /\ e.extensions[n].text \in Strings
  /\ IsFiniteSet(DOMAIN e.extensions)

\* The attribute an event has under the name of an extension, or nothing.
extensionOf(event, n) ==
  {Attribute(event.extensions[m].kind, event.extensions[m].text) : m \in DOMAIN event.extensions \cap {n}}

\* The fields in which two events differ, as a report would name them.
changed(e, f) ==
  When(e.id # f.id, Core("id")) \cup When(e.source # f.source, Core("source"))
  \cup When(e.type # f.type, Core("type"))
  \cup When(e.dataContentType # f.dataContentType, Core("datacontenttype"))
  \cup When(e.dataSchema # f.dataSchema, Core("dataschema"))
  \cup When(e.subject # f.subject, Core("subject"))
  \cup When(e.time # f.time, Core("time"))
  \cup When(e.data # f.data, Core("data"))
  \cup {Ext(n) : n \in {m \in DOMAIN e.extensions \cup DOMAIN f.extensions :
                          extensionOf(e, m) # extensionOf(f, m)}}

\* Events whose crossing changes something no report names, or fails: by their
\* content type in one mode, by their time or schema in every mode.
TextJSON(e)     == e.data.kind = "text" /\ MediaClass(e.dataContentType) \in {"text/json", "text+json"}
DatalessType(e) == ~present(e.data) /\ e.dataContentType # ""
Shadowed(e)     == MediaClass(e.dataContentType) \in {"ce+json", "ce-batch+json", "ce-other", "ce-other+json"}
UnparsedTime(e) == e.time # "" /\ ParseTime(e.time) = Nil
NonUTF8Schema(e) == ~ValidUTF8(e.dataSchema)
NonUTF8Type(e)   == ~ValidUTF8(e.dataContentType)

Unreported(e, b, m) ==
  \/ m = "binary" /\ (TextJSON(e) \/ (b = "http" /\ DatalessType(e)) \/ Shadowed(e))
  \/ NonUTF8Type(e) /\ ~(b = "http" /\ m = "binary")
  \/ UnparsedTime(e)
  \/ NonUTF8Schema(e)
=============================================================================
