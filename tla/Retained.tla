------------------------------ MODULE Retained ------------------------------
(***************************************************************************)
(* Envelopes of other libraries travelling as events.  A service converts  *)
(* an envelope, keeps the state that came back and lets the event go; the  *)
(* event crosses bindings, is enriched by the metadata adapters or edited  *)
(* by an application, and comes back to be combined with the state.  With  *)
(* several conversions under way a service may pick the wrong state, or    *)
(* one of which it kept only what the event does not carry.                *)
(***************************************************************************)
EXTENDS EnvelopeAdapters

CONSTANTS
  RouteLimits,  \* the limits of every receiver
  Workloads     \* by name, what services and applications may do:
                \*   conversions  [adapter, envelope, options] a service may convert
                \*   enrichments  strings other adapters may add as extensions
                \*   edits        <<part, name, value>> an application may change
                \*   routes       <<binding, mode, strict>> of a crossing
                \*   MaxSlots     bound: conversions
                \*   MaxChanges   bound: changes to an event on its way

ASSUME BoundAssumption ==
  \A w \in DOMAIN Workloads : Workloads[w].MaxSlots \in Nat /\ Workloads[w].MaxChanges \in Nat

-----------------------------------------------------------------------------
(* The envelopes are ones their own libraries hand out, which check more    *)
(* than the adapters do on the way to an event.                             *)

HasFields(e, names) == e = [n \in names |-> e[n]]

IsSlice(s) == s = NilSlice \/ s = Slice(s.bytes)

OutboxEnvelope(e) ==
  /\ HasFields(e, {"id", "topic", "version", "payload", "rest"})
  /\ IsSlice(e.payload) /\ e.topic # "" /\ e.version # 0

QueueEnvelope(e) ==
  /\ HasFields(e, {"body", "metadata", "rest"})
  /\ IsSlice(e.body)
  /\ e.metadata # Nil =>
       /\ HasFields(e.metadata, {"originalID", "jobType", "contentType", "context", "rest"})
       /\ HasFields(e.metadata.context, Range(queueNames))

\* A recorded message; a number is not written as "", a parsed tenant parses to
\* itself.
StreamEnvelope(e) ==
  /\ HasFields(e, {"id", "stream", "eventVersion", "name", "contentType", "payload", "context",
                   "streamVersion", "recordedAt", "rest"})
  /\ HasFields(e.context, Range(streamNames))
  /\ e.stream # <<"", "">> /\ e.streamVersion # 0 /\ e.eventVersion # 0 /\ e.recordedAt # ""
  /\ FormatUint(e.eventVersion) # ""
  /\ e.contentType # "" /\ ValidEncodedEvent(e.payload) /\ ValidMessageID(e.id)
  /\ LET tenant == tenantValue(e.context["tenantid"]) IN
     tenant \notin {Nil, ""} => ParseTenantID(tenant) = tenant

WorkflowEnvelope(e) ==
  /\ HasFields(e, {"sequence", "kind", "instance", "occurredAt", "data", "rest"})
  /\ IsSlice(e.data) /\ e.instance # "" /\ e.occurredAt # "" /\ ValidHistory(e)
  /\ e.kind # Nil /\ parseEventType(eventType(e.kind)) = e.kind

ASSUME EnvelopeAssumption ==
  \A w \in DOMAIN Workloads : \A c \in Workloads[w].conversions :
    \/ c.adapter = "outbox" /\ OutboxEnvelope(c.envelope)
    \/ c.adapter = "queue" /\ QueueEnvelope(c.envelope)
    \/ c.adapter = "stream" /\ StreamEnvelope(c.envelope)
    \/ c.adapter = "workflow" /\ WorkflowEnvelope(c.envelope)

\* The alphabet of unpadded base64url has no dot, so that the parts of a stream
\* can be told from a subject.
ASSUME SubjectAssumption ==
  \A w \in DOMAIN Workloads :
    LET streams == {c.envelope.stream : c \in {d \in Workloads[w].conversions : d.adapter = "stream"}}
    IN  \A s, t \in streams :
          RawURL(s[1]) \o "." \o RawURL(s[2]) = RawURL(t[1]) \o "." \o RawURL(t[2]) => s = t

\* An application edits one field; data comes from a constructor.
ASSUME EditAssumption ==
  \A w \in DOMAIN Workloads : \A x \in Workloads[w].edits :
    \/ x[1] = "core" /\ x[2] \in {"id", "source", "type", "dataContentType", "dataSchema",
                                  "subject", "time"}
    \/ x[1] = "data" /\ validData(x[3])
    \/ x[1] = "ext"

-----------------------------------------------------------------------------

VARIABLES
  workload, \* the name of the workload
  slots,    \* the conversions made, with the event as it now is
  result    \* the last attempt to convert back, or Nil

vars == <<workload, slots, result>>

work == Workloads[workload]

Init == workload \in DOMAIN Workloads /\ slots = <<>> /\ result = Nil

to(c) ==
  CASE c.adapter = "outbox"   -> OutboxTo(c.envelope, c.options)
    [] c.adapter = "queue"    -> QueueTo(c.envelope, c.options)
    [] c.adapter = "stream"   -> StreamTo(c.envelope, c.options)
    [] c.adapter = "workflow" -> WorkflowTo(c.envelope, c.options)

from(adapter, event, state) ==
  CASE adapter = "outbox"   -> OutboxFrom(event, state)
    [] adapter = "queue"    -> QueueFrom(event, state)
    [] adapter = "stream"   -> StreamFrom(event, state)
    [] adapter = "workflow" -> WorkflowFrom(event, state)

Convert(c) ==
  /\ Len(slots) < work.MaxSlots
  /\ \E r \in to(c) :
       slots' = IF r.err # Nil THEN slots
                ELSE Append(slots, [conversion |-> c, sent |-> r.value.event,
                                    event |-> r.value.event, state |-> r.value.state,
                                    intact |-> TRUE, changes |-> 0])
  /\ result' = Nil /\ UNCHANGED workload

-----------------------------------------------------------------------------
(* On the way: a call that fails leaves the event as it was.                *)

change(i, results) ==
  /\ slots[i].changes < work.MaxChanges
  /\ \E r \in results :
       /\ r.err = Nil
       /\ slots' = [slots EXCEPT ![i].event = r.value, ![i].changes = @ + 1]
  /\ result' = Nil /\ UNCHANGED workload

edited(event, part, name, value) ==
  LET e == CASE part = "core"  -> [event EXCEPT ![name] = value]
             [] part = "data"  -> [event EXCEPT !.data = value]
             [] OTHER          -> [event EXCEPT !.extensions =
                                     [n \in DOMAIN @ \ {name} |-> @[n]]
                                     ++ (IF value = Nil THEN <<>> ELSE Single(name, value))]
  IN  NewEvent(e, e.data)

Enrich(i, additions) == change(i, AddStringExtensions(slots[i].event, additions))
Cross(i, b, m, s)    == change(i, cross(b, m, s, slots[i].event, RouteLimits))
Edit(i, part, name, value) == change(i, edited(slots[i].event, part, name, value))

\* The service keeps only what it owns itself, and says whether it trusts the
\* event for the rest.
owned(adapter, state, trust) ==
  CASE adapter = "outbox" -> [state EXCEPT !.id = ""]
    [] adapter = "queue"  -> [state EXCEPT !.metadata = Nil]
    [] adapter = "stream" -> [state EXCEPT !.context = [n \in DOMAIN @ |-> ""], !.trust = trust]
    [] OTHER              -> state

Forget(i, trust) ==
  /\ slots[i].intact
  /\ slots' = [slots EXCEPT ![i].state = owned(slots[i].conversion.adapter, @, trust),
                            ![i].intact = FALSE]
  /\ result' = Nil /\ UNCHANGED workload

\* The event of one conversion with the state of one, perhaps another.
Restore(i, j) ==
  /\ slots[i].conversion.adapter = slots[j].conversion.adapter
  /\ \E r \in from(slots[j].conversion.adapter, slots[i].event, slots[j].state) :
       result' = [event |-> i, state |-> j, value |-> r.value, err |-> r.err]
  /\ UNCHANGED <<workload, slots>>

Next ==
  \/ \E c \in work.conversions : Convert(c)
  \/ \E i \in DOMAIN slots :
       \/ \E a \in work.enrichments : Enrich(i, a)
       \/ \E r \in work.routes : Cross(i, r[1], r[2], r[3])
       \/ \E x \in work.edits : Edit(i, x[1], x[2], x[3])
       \/ \E trust \in BOOLEAN : Forget(i, trust)
       \/ \E j \in DOMAIN slots : Restore(i, j)

Spec == Init /\ [][Next]_vars

-----------------------------------------------------------------------------
(* What a restored envelope should be.                                      *)

\* The fields in which events differ, data by its bytes and by its kind.
differs(e, f) ==
  (changed(e, f) \ {Core("data")})
  \cup When(e.data.bytes # f.data.bytes \/ present(e.data) # present(f.data), Core("data"))
  \cup When(e.data.kind # f.data.kind, DataKindField)

\* The fields an adapter maps to the envelope.
represented(adapter) ==
  CASE adapter = "outbox"   -> {Core("id"), Core("data")}
    [] adapter = "queue"    -> {Core("id"), Core("type"), Core("datacontenttype"), Core("data")}
                               \cup {Ext(n) : n \in Range(queueNames)}
    [] adapter = "stream"   -> {Core("id"), Core("type"), Core("datacontenttype"), Core("subject"),
                                Core("data"), Ext("eventschema")}
                               \cup {Ext(n) : n \in Range(streamNames)}
    [] adapter = "workflow" -> {Core("id"), Core("type"), Core("subject"), Core("time"), Core("data")}

\* Two spellings of one tenant, of which an envelope has the canonical one.
respelledTenant(e, f) ==
  LET tenant(event) == tenantValue(StringExtension(event, "tenantid").value)
  IN  When(tenant(e) = tenant(f) /\ tenant(e) # Nil, Ext("tenantid"))

\* The envelope that was converted, with the gaps the conversion filled: the
\* identity given in the options and the canonical spelling of the tenant.
completed(slot) ==
  LET c == slot.conversion
      m == queueMetadata(c.envelope)
  IN  CASE c.adapter = "queue" ->
             [c.envelope EXCEPT !.metadata =
                [m EXCEPT !.originalID = orElse(m.originalID, slot.sent.id),
                           !.jobType = orElse(m.jobType, slot.sent.type)]]
        [] c.adapter = "stream" ->
             [c.envelope EXCEPT !.context["tenantid"] = tenantValue(@)]
        [] OTHER -> c.envelope

\* Conversions whose options overrode an identity the queue message retains.
Overridden(slot) ==
  LET c == slot.conversion
      m == queueMetadata(c.envelope)
  IN  /\ c.adapter = "queue"
      /\ \/ m.originalID \notin {"", slot.sent.id}
         \/ m.jobType \notin {"", slot.sent.type}

-----------------------------------------------------------------------------
(* Properties.                                                              *)

\* Two events of one envelope to which the same state is applied.
own == result # Nil /\ result.event = result.state /\ slots[result.state].intact

unharmed(slot) ==
  differs(slot.sent, slot.event) \cap represented(slot.conversion.adapter) = {}

\* However far the event travelled, as long as nothing the envelope represents
\* was changed on the way, the kept state gives back the envelope that was
\* converted, nil payload and empty payload told apart (outbox, queue,
\* event-sourcing, workflow: ToCloudEvent and FromCloudEvent).
RestoresEnvelope ==
  own => LET slot == slots[result.state] IN
         (unharmed(slot) /\ ~Overridden(slot)) =>
           result.err = Nil /\ result.value.envelope = completed(slot)

\* The same of the queue adapter with any options: "ToCloudEvent ... returns a
\* deep copy of the queue-owned state needed for reversal".
KeptStateReverses ==
  own => LET slot == slots[result.state] IN unharmed(slot) => result.err = Nil

\* A report names everything that is gone: two events that give the same
\* envelope under the same state differ only in fields one of their reports
\* names, or in how they spell one tenant (FromCloudEvent: "reports every portable
\* field the outbox model cannot represent", and alike).
LossesAreComplete ==
  (result # Nil /\ result.err = Nil) =>
    LET adapter == slots[result.state].conversion.adapter
        event   == slots[result.event].event
    IN  \A x \in work.edits :
          \A e \in edited(event, x[1], x[2], x[3]) :
            e.err = Nil =>
              \A r \in from(adapter, e.value, slots[result.state].state) :
                (r.err = Nil /\ r.value.envelope = result.value.envelope) =>
                  differs(event, e.value) \subseteq
                    result.value.report \cup r.value.report \cup respelledTenant(event, e.value)

\* What of the state is compared with the event that was made of an envelope.
meets(conversion, sent, state) ==
  LET carried(n) == StringExtension(sent, n).value
      kept == queueMetadata(state)
  IN  CASE conversion.adapter = "outbox" -> state.id \in {"", sent.id}
        [] conversion.adapter = "queue"  ->
             /\ kept.originalID \in {"", sent.id} /\ kept.jobType \in {"", sent.type}
             /\ kept.contentType \in {"", sent.dataContentType}
             /\ \A n \in Range(queueNames) : kept.context[n] = carried(n)
        [] conversion.adapter = "workflow" -> state.stableID = sent.id
        [] conversion.adapter = "stream" ->
             /\ state.stream = conversion.envelope.stream
             /\ FormatUint(state.eventVersion) = FormatUint(conversion.envelope.eventVersion)
             /\ \A n \in Range(streamNames) : state.context[n] \in {"", carried(n)}

\* State is merged into the event of another envelope only if it retains nothing
\* that tells the two apart; the event is one of which nothing the envelope
\* represents was changed on the way.  Outbox state retains the identity, or not;
\* queue state the identity, the type and the content type, or not, and always its
\* context; workflow state the stable identity.  Event-sourcing state retains
\* stream, schema version and context, but not the identity of the message, nor is
\* its stream version compared with anything: it also meets the event of another
\* message of the same stream and schema version (FromCloudEvent: "fails instead of
\* merging histories"; encodeStreamSubject: "must not create ambiguous subject
\* identity").
MispairedIsRefused ==
  (result # Nil /\ result.err = Nil) =>
    LET state == slots[result.state].state
        came  == slots[result.event]
    IN  unharmed(came) => meets(came.conversion, came.sent, state)

\* Context of a restored envelope comes from the retained state, except where the
\* state has none and the service trusts the event (State.TrustMetadata).
NothingAdoptedUntrusted ==
  (result # Nil /\ result.err = Nil) =>
    LET slot     == slots[result.state]
        envelope == result.value.envelope
    IN  slot.conversion.adapter = "stream" =>
          \A n \in Range(streamNames) :
            envelope.context[n] # slot.state.context[n] =>
              slot.state.context[n] = "" /\ slot.state.trust
=============================================================================
