------------------------------- MODULE Bridge -------------------------------
(***************************************************************************)
(* Events crossing the bindings.  An application builds events with        *)
(* NewEvent, encodes them for HTTP or Kafka, strictly or with a report; a  *)
(* relay on the way may add or repeat metadata; the receiver decodes under *)
(* its own Limits and holds what it decoded, which it may send on through  *)
(* another binding.  When an encode or a decode fails the sender still     *)
(* holds its events.                                                       *)
(***************************************************************************)
EXTENDS Bindings

CONSTANT
  Workloads  \* by name, what an application, its receiver and a relay may do:
             \*   inputs    [attributes, kind, bytes] an event is built from
             \*   limits    Limits a receiver may be configured with
             \*   headers   <<spelling, name, value>> a relay may add
             \*   members   <<name, raw value>> a relay may write into a document
             \*   MaxEvents bound: events an application holds
             \*   MaxHops   bound: encodings in one behaviour

ASSUME BoundAssumption ==
  \A w \in DOMAIN Workloads : Workloads[w].MaxEvents \in Nat /\ Workloads[w].MaxHops \in Nat

\* Every limit is an integer, positive or not.
ASSUME LimitAssumption ==
  \A w \in DOMAIN Workloads : \A l \in Workloads[w].limits :
    {l.MaxEventBytes, l.MaxDataBytes, l.MaxAttributes, l.MaxAttributeNameBytes,
     l.MaxAttributeValueBytes, l.MaxBatchEvents, l.MaxKafkaHeaderValueBytes} \subseteq Int

\* What is built, added and written is made of the strings of the model; a time is
\* canonical text, which need not parse; a relay writes JSON.
ASSUME TextAssumption ==
  \A w \in DOMAIN Workloads :
    /\ \A i \in Workloads[w].inputs :
         LET a == i.attributes
             ext == a.extensions
         IN  /\ {a.id, a.source, a.type, a.dataContentType, a.dataSchema, a.subject, a.time,
                 i.bytes} \subseteq Strings
             /\ a.time # "" => ValidUTF8(a.time) /\ ParseTime(a.time) \in {Nil, a.time}
             /\ ext = [n \in DOMAIN ext |-> Attribute(ext[n].kind, ext[n].text)]
             /\ \A n \in DOMAIN ext : n \in Strings /\ ext[n].text \in Strings
             /\ IsFiniteSet(DOMAIN ext)
    /\ \A h \in Workloads[w].headers :
         h[2] \in Strings \cup reservedAttributeNames /\ h[3] \in Strings
    /\ \A x \in Workloads[w].members :
         /\ x[1] \in Strings \cup reservedAttributeNames
         /\ x[2] \in Strings /\ ValidJSON(x[2])

VARIABLES
  workload, \* the name of the workload
  held,     \* the events the application holds
  limits,   \* the receiver's limits
  sent,     \* the events last given to an encoder
  route,    \* <<binding, mode, strict>> of the last encoding
  message,  \* the message of the last encoding, as it now is
  report,   \* the losses the last encoding reported, <<index, field>>
  relayed,  \* whether a relay changed the message
  status,   \* "building", "refused", "inflight", "delivered" or "failed"
  err,      \* the error of the last call, or Nil
  hops      \* encodings so far

vars == <<workload, held, limits, sent, route, message, report, relayed, status, err, hops>>

binding == route[1]
mode    == route[2]
strict  == route[3]

work == Workloads[workload]

Init ==
  /\ workload \in DOMAIN Workloads
  /\ held = <<>>
  /\ limits \in work.limits
  /\ sent = <<>>
  /\ route = <<"http", "binary", FALSE>>
  /\ message = Nil
  /\ report = {}
  /\ relayed = FALSE
  /\ status = "building"
  /\ err = Nil
  /\ hops = 0

-----------------------------------------------------------------------------
newData(kind, bytes) ==
  CASE kind = "json"   -> NewJSONData(bytes)
    [] kind = "text"   -> NewTextData(bytes)
    [] kind = "binary" -> Returns({}, NewBinaryData(bytes))
    [] OTHER           -> Returns({}, NoData)

\* The application constructs data and an event; a failed call leaves nothing.
Produce(attributes, kind, bytes) ==
  /\ status = "building"
  /\ Len(held) < work.MaxEvents
  /\ \E d \in newData(kind, bytes) :
       \E e \in (IF d.err # Nil THEN {d} ELSE NewEvent(attributes, d.value)) :
         /\ err' = e.err
         /\ held' = IF e.err # Nil THEN held ELSE Append(held, e.value)
  /\ UNCHANGED <<workload, limits, sent, route, message, report, relayed, status, hops>>

Encode(b, m, s) ==
  /\ status # "inflight"
  /\ hops < work.MaxHops
  /\ held # <<>> \/ m = "batch"
  /\ b = "kafka" => Len(held) = 1
  /\ hops' = hops + 1
  /\ route' = <<b, m, s>>
  /\ sent' = held
  /\ relayed' = FALSE
  /\ \E r \in encode(b, m, s, held) :
       /\ err' = r.err
       /\ status' = IF r.err # Nil THEN "refused" ELSE "inflight"
       /\ message' = IF r.err # Nil THEN Nil ELSE r.value.message
       /\ report' = IF r.err # Nil THEN {} ELSE indexedReport(b, r.value.report)
  /\ UNCHANGED <<workload, held, limits>>

-----------------------------------------------------------------------------
(* The relay: one change to a message in flight.                            *)

RelayHeader(spelling, name, value) ==
  /\ status = "inflight" /\ ~relayed
  /\ message' =
       IF binding = "kafka"
       THEN [message EXCEPT !.headers = Append(@, Header("ce", name, value))]
       ELSE LET key == <<spelling, name>>
                old == IF key \in DOMAIN message.header THEN message.header[key] ELSE <<>>
            IN  [message EXCEPT !.header = Single(key, Append(old, Escape(value))) ++ @]
  /\ relayed' = TRUE
  /\ UNCHANGED <<workload, held, limits, sent, route, report, status, err, hops>>

withMember(doc, name, raw, again) ==
  Doc(Single(name, raw) ++ doc.members, doc.duplicate \/ (again /\ name \in DOMAIN doc.members))

\* A member written over the old one, or after it (a duplicate member).
RelayMember(name, raw, again) ==
  /\ status = "inflight" /\ ~relayed
  /\ mode # "binary"
  /\ message' =
       IF binding = "kafka"
       THEN [message EXCEPT !.value = withMember(@, name, raw, again)]
       ELSE IF mode = "structured"
       THEN [message EXCEPT !.body = withMember(@, name, raw, again)]
       ELSE IF message.body.docs = <<>> THEN message
       ELSE [message EXCEPT !.body.docs[1] = withMember(@, name, raw, again)]
  /\ relayed' = TRUE
  /\ UNCHANGED <<workload, held, limits, sent, route, report, status, err, hops>>

-----------------------------------------------------------------------------
Deliver ==
  /\ status = "inflight"
  /\ \E r \in decode(binding, message, limits) :
       /\ err' = r.err
       /\ status' = IF r.err # Nil THEN "failed" ELSE "delivered"
       /\ held' = IF r.err # Nil THEN held ELSE r.value
  /\ UNCHANGED <<workload, limits, sent, route, message, report, relayed, hops>>

Next ==
  \/ \E i \in work.inputs : Produce(i.attributes, i.kind, i.bytes)
  \/ \E m \in Modes, s \in BOOLEAN : Encode("http", m, s)
  \/ \E m \in Modes, s \in BOOLEAN : Encode("kafka", m, s)
  \/ \E h \in work.headers : RelayHeader(h[1], h[2], h[3])
  \/ \E w \in work.members, again \in BOOLEAN : RelayMember(w[1], w[2], again)
  \/ Deliver

Spec == Init /\ [][Next]_vars

-----------------------------------------------------------------------------
(* What a crossing may change.                                              *)

changes ==
  UNION {{<<i, field>> : field \in changed(sent[i], held[i])} : i \in DOMAIN sent}

Clean == ~relayed /\ \A i \in DOMAIN sent : ~Unreported(sent[i], binding, mode)

\* An event within the limits of what it contains.
FitsWithin(e, l) ==
  LET context == contextAttributes(e) IN
  /\ Size(e.data.bytes) <= l.MaxDataBytes
  /\ Cardinality(DOMAIN context) + 1 <= l.MaxAttributes
  /\ \A n \in DOMAIN context : /\ Size(n) <= l.MaxAttributeNameBytes
                             /\ Size(context[n]) <= l.MaxAttributeValueBytes
  /\ Size(e.dataContentType) <= l.MaxAttributeValueBytes
  /\ e.data.kind = "json" => JSONDepth(e.data.bytes) < l.MaxDepth

\* The message in flight and the events in it are within the receiver's limits,
\* none of which is zero, or so large that one more would overflow.
Fits ==
  /\ \A name \in DOMAIN limits : limits[name] > 0
  /\ {limits.MaxEventBytes, limits.MaxDataBytes, limits.MaxDepth} \subseteq 0 .. MaxInt - 1
  /\ Len(sent) <= limits.MaxBatchEvents
  /\ \A i \in DOMAIN sent : FitsWithin(sent[i], limits)
  /\ IF binding = "http"
     THEN /\ mode # "binary" => BodySize(message.body) <= limits.MaxEventBytes
          /\ Size(contentTypeOf(message)) <= limits.MaxAttributeValueBytes
     ELSE /\ mode # "binary" => BodySize(message.value) <= limits.MaxEventBytes
          /\ message.key # Nil => Size(message.key) <= limits.MaxKafkaKeyBytes
          /\ Len(message.headers) <= limits.MaxKafkaHeaders
          /\ \A i \in DOMAIN message.headers :
               headerFailure(message.headers[i], limits) = {}

-----------------------------------------------------------------------------
(* Properties.                                                              *)

\* Every event an application holds, built or decoded, passes Validate, so an
\* encoder never meets an event it has to refuse as invalid (event.go
\* Validate, called first by every encoder).
HeldEventsAreValid ==
  /\ \A i \in DOMAIN held : Validate(held[i]) = {}
  /\ status = "refused" => err \in {ErrConversionLoss, ErrUnsupportedMode}

\* A strict encoding that was accepted arrives as the very same events, in
\* order, unless the receiver's limits turn it away (EncodeHTTP, EncodeKafka:
\* "maps events without implicit representation loss"); the events of
\* Unreported, and no others, never do.
StrictIsExact ==
  (strict /\ ~relayed) =>
    /\ status = "delivered" => (held = sent <=> Clean)
    /\ status = "failed" => err = ErrLimitExceeded \/ ~Clean

\* The same of every event, with no exception: what the documentation says.
StrictLosesNothing ==
  (strict /\ ~relayed) =>
    /\ status = "delivered" => held = sent
    /\ status = "failed" => err = ErrLimitExceeded

\* What a report names is exactly what the crossing changes, event by event,
\* and a message the receiver cannot decode had its data reported
\* (Encode*WithReport: "reporting every representation change").
ReportIsExact ==
  Clean =>
    /\ status = "delivered" => Len(held) = Len(sent) /\ changes = report
    /\ status = "failed" =>
         \/ err = ErrLimitExceeded
         \/ \E i \in DOMAIN sent : <<i, Core("data")>> \in report

\* What a receiver's limits admit it is given: a limit is on what is encoded, and
\* never turns away an event for the length of its encoding, unless that is the
\* body, a header or the number of them (limits.go; json.go: "six source bytes can
\* encode one JSON string unit"; http.go exceedsHTTPEncodedAttributeLimit).
FittingIsDelivered ==
  status = "failed" => ~(strict /\ Clean /\ Fits)

\* Whatever a crossing changed, and whatever a relay wrote on the way, nothing is
\* left to change the second time: what was delivered is accepted by the strict
\* encoder of the binding it came by, in the mode the decoder read it in
\* (HTTPMessage.Mode, KafkaMessage.Mode).  That is the mode it was written in,
\* except of binary data that declares application/cloudevents+json: the decoders
\* read it as an event, which may have what binary mode would lose.
SecondCrossingIsStrict ==
  status = "delivered" =>
    \A r \in encode(binding, readMode(binding, message), TRUE, held) : r.err = Nil

\* A receiver never holds more than its limits admit, whatever a relay wrote
\* (limits.go; the content type of a Kafka record read in binary mode is bounded by
\* the header limit instead).  Of a time the text on the wire is bounded, which may be
\* shorter than the canonical text: time.Parse takes an hour of one digit.
AdmittedWithinLimits ==
  status = "delivered" =>
    /\ mode = "batch" => Len(held) <= limits.MaxBatchEvents
    /\ \A i \in DOMAIN held :
         LET e == held[i]
             context == contextAttributes(e)
             read  == readMode(binding, message)
             types == IF read = "binary" \/ e.dataContentType = "" THEN 0 ELSE 1
         IN  /\ present(e.data) => Size(e.data.bytes) <= limits.MaxDataBytes
             /\ Cardinality(DOMAIN context) + types <= limits.MaxAttributes
             /\ \A n \in DOMAIN context \ {"time"} :
                  Size(context[n]) <= limits.MaxAttributeValueBytes
             /\ \A n \in DOMAIN e.extensions : Size(n) <= limits.MaxAttributeNameBytes
             /\ Size(e.dataContentType) <= IF binding = "kafka" /\ read = "binary"
                                           THEN limits.MaxKafkaHeaderValueBytes
                                           ELSE limits.MaxAttributeValueBytes

\* The context headers of a message as <<name, value>>, one per occurrence.
Occurrences ==
  IF binding = "kafka"
  THEN {<<i, message.headers[i].name, message.headers[i].value>>
        : i \in {j \in DOMAIN message.headers : message.headers[j].owner = "ce"}}
  ELSE UNION {{<<<<k, i>>, k[2], Unescape(message.header[k][i])>> : i \in DOMAIN message.header[k]}
              : k \in DOMAIN message.header}

\* The JSON objects a receiver reads a message as.
Documents ==
  LET body == asDocument(IF binding = "http" THEN message.body ELSE message.value)
  IN  CASE readMode(binding, message) = "structured" -> {body}
        [] readMode(binding, message) = "batch"      -> {body.docs[i] : i \in DOMAIN body.docs}
        [] OTHER                                     -> {}

\* A delivered event and the metadata beside it never disagree: every context
\* header occurs once and says what the event says, whether the message was read
\* in binary or structured mode, a batch has none, and no document states a member
\* twice, of which the last would win.  Headers named data and data_base64 are the
\* ones binary mode passes over (validateStructured*Metadata, inspectJSON,
\* decodeHTTPBinary, decodeKafkaBinary; decision 008).
MetadataAgrees ==
  status = "delivered" =>
    /\ \A o, p \in Occurrences : o[2] = p[2] => o = p
    /\ mode = "batch" => Occurrences = {}
    /\ \A o \in Occurrences :
         LET expected == expectedMetadata(held[1])
             binary   == readMode(binding, message) = "binary"
         IN
         \/ binary /\ o[2] \in {"data", "data_base64"}
         \/ binary /\ o[3] = "" /\ o[2] \in reservedAttributeNames
         \/ binary /\ o[2] = "time" /\ ParseTime(o[3]) = expected["time"]
         \/ o[2] \in DOMAIN expected /\ expected[o[2]] = o[3]
    /\ \A doc \in Documents : ~doc.duplicate
=============================================================================
