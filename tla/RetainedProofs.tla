--------------------------- MODULE RetainedProofs ---------------------------
(***************************************************************************)
(* Proofs about envelopes that travel as events: what the kept state gives *)
(* back, which states are refused, and what is never adopted from an event.*)
(***************************************************************************)
EXTENDS Retained, CrossingLemmas

-----------------------------------------------------------------------------
(* From an envelope to an event.                                            *)

\* The data of a payload has its bytes.
LEMMA PayloadData ==
  ASSUME NEW ct, NEW bytes, NEW d \in DataFromPayload(ct, bytes), d.err = Nil
  PROVE  validData(d.value) /\ present(d.value) /\ d.value.bytes = bytes
<1>1. d \in Returns({ErrInvalidAdapterInput}, Nil) => FALSE
  BY ErrorsAreNotNil, ReturnsEither
<1>2. d \in NewJSONData(bytes) \/ d \in NewTextData(bytes) \/ d \in Returns({}, NewBinaryData(bytes))
  BY <1>1 DEF DataFromPayload
<1>3. validData(d.value)
  <2>1. \A r \in Returns({}, NewBinaryData(bytes)) : DataResult(r)
    BY NewDataResult, ReturnsData
  <2> QED BY <1>2, <2>1, NewDataResult DEF DataResult
<1>4. \E k \in {"json", "text", "binary"} : d.value = [kind |-> k, bytes |-> bytes]
  <2>1. \A c : Nil \notin When(c, ErrInvalidData)
    BY ErrorsAreNotNil DEF When, Errors
  <2>2. d \in NewJSONData(bytes) => d.value = [kind |-> "json", bytes |-> bytes]
    BY <2>1, ReturnsEither DEF NewJSONData
  <2>3. d \in NewTextData(bytes) => d.value = [kind |-> "text", bytes |-> bytes]
    BY <2>1, ReturnsEither DEF NewTextData
  <2>4. d \in Returns({}, NewBinaryData(bytes)) => d.value = [kind |-> "binary", bytes |-> bytes]
    BY ReturnsEither DEF NewBinaryData
  <2> QED BY <1>2, <2>2, <2>3, <2>4
<1> QED BY <1>3, <1>4 DEF present

\* A conversion that succeeds met no failure and has the event of its attributes.
LEMMA ConvertedResult ==
  ASSUME NEW failures, Nil \notin failures, NEW data, NEW a, NEW kept,
         NEW r \in converted(failures, data, a, kept), r.err = Nil
  PROVE  /\ failures = {}
         /\ \E d \in data : /\ d.err = Nil
                            /\ validateAttributes(a) = {}
                            /\ r.value = [event |-> withData(a, d.value), state |-> kept]
<1>1. failures = {}
  <2> SUFFICES ASSUME failures # {} PROVE FALSE
    OBVIOUS
  <2> QED BY ReturnsEither DEF converted
<1>2. PICK d \in data :
        r \in (IF d.err # Nil THEN {d}
               ELSE {[q EXCEPT !.value = IF q.err # Nil THEN Nil ELSE [event |-> @, state |-> kept]]
                     : q \in NewEvent(a, d.value)})
  BY <1>1 DEF converted
<1>3. d.err = Nil
  BY <1>2
<1>4. PICK q \in NewEvent(a, d.value) :
        r = [q EXCEPT !.value = IF q.err # Nil THEN Nil ELSE [event |-> @, state |-> kept]]
  BY <1>2, <1>3
<1>5. q = [value |-> q.value, err |-> q.err]
  BY NewEventResult
<1>6. q.err = Nil /\ r.value = [event |-> q.value, state |-> kept]
  BY <1>4, <1>5
<1> QED BY <1>1, <1>3, <1>6, NewEventResult

\* A step between two others that fails on its own.
LEMMA AndThenResult ==
  ASSUME NEW results, NEW failures, Nil \notin failures,
         NEW d \in andThen(results, failures), d.err = Nil
  PROVE  failures = {} /\ \E r \in results : r.err = Nil /\ d.value = r.value
<1>1. PICK r \in results : d \in (IF r.err # Nil THEN {r} ELSE Returns(failures, r.value))
  BY DEF andThen
<1> QED BY <1>1, ReturnsEither

\* What each adapter made of its envelope: an event of the attributes it chose,
\* with the payload's bytes, and the state it keeps.
OutboxAttributes(e, o) ==
  Attributes(e.id, o.source, o.type, o.contentType, o.schema, o.subject, o.time, <<>>)

LEMMA OutboxToResult ==
  ASSUME NEW e, NEW o, NEW r \in OutboxTo(e, o), r.err = Nil
  PROVE  \E d : /\ validData(d) /\ present(d) /\ d.bytes = e.payload.bytes
                /\ validateAttributes(OutboxAttributes(e, o)) = {}
                /\ r.value = [event |-> withData(OutboxAttributes(e, o), d), state |-> e]
<1> DEFINE F == When("" \in {e.id, o.source, o.type}, ErrInvalidAdapterInput)
<1>1. r \in converted(F, DataFromPayload(o.contentType, e.payload.bytes), OutboxAttributes(e, o), e)
  BY DEF OutboxTo, OutboxAttributes
<1>2. Nil \notin F
  BY ErrorsAreNotNil DEF When
<1> HIDE DEF F
<1>3. PICK d \in DataFromPayload(o.contentType, e.payload.bytes) :
        /\ d.err = Nil
        /\ validateAttributes(OutboxAttributes(e, o)) = {}
        /\ r.value = [event |-> withData(OutboxAttributes(e, o), d.value), state |-> e]
  BY <1>1, <1>2, ConvertedResult
<1> QED BY <1>3, PayloadData

QueueID(e, o)   == orElse(o.stableID, queueMetadata(e).originalID)
QueueType(e, o) == orElse(o.type, queueMetadata(e).jobType)
QueueAttributes(e, o) ==
  Attributes(QueueID(e, o), o.source, QueueType(e, o), queueMetadata(e).contentType, "", "",
             o.time, queueExtensions(queueMetadata(e)))

LEMMA QueueToResult ==
  ASSUME NEW e, NEW o, NEW r \in QueueTo(e, o), r.err = Nil
  PROVE  /\ validatedTenant(queueMetadata(e).context["tenantid"]) = {}
         /\ \E d : /\ validData(d) /\ present(d) /\ d.bytes = e.body.bytes
                   /\ validateAttributes(QueueAttributes(e, o)) = {}
                   /\ r.value = [event |-> withData(QueueAttributes(e, o), d), state |-> e]
<1> DEFINE m == queueMetadata(e)
           ext == queueExtensions(m)
           tenant == validatedTenant(m.context["tenantid"])
           job == When(~ValidJob(e) \/ o.source = "", ErrInvalidAdapterInput)
           identity == When("" \in {QueueID(e, o), QueueType(e, o)}, ErrInvalidAdapterInput)
           F == tenant ?? job ?? identity
           G == When(\E n \in DOMAIN ext : ~validAttribute(ext[n]), ErrInvalidAdapterInput)
           data == DataFromPayload(m.contentType, e.body.bytes)
<1>1. r \in converted(F, andThen(data, G), QueueAttributes(e, o), e)
  BY DEF QueueTo, QueueAttributes, QueueID, QueueType
<1>2. Nil \notin F /\ Nil \notin G
  BY ErrorsAreNotNil DEF When, ??, validatedTenant
<1>3. F = {} => tenant = {}
  BY DEF ??
<1> HIDE DEF F, G, data, tenant
<1>4. /\ F = {}
      /\ \E d \in andThen(data, G) :
           /\ d.err = Nil
           /\ validateAttributes(QueueAttributes(e, o)) = {}
           /\ r.value = [event |-> withData(QueueAttributes(e, o), d.value), state |-> e]
  BY <1>1, <1>2, ConvertedResult
<1>5. PICK d \in andThen(data, G) :
        /\ d.err = Nil
        /\ validateAttributes(QueueAttributes(e, o)) = {}
        /\ r.value = [event |-> withData(QueueAttributes(e, o), d.value), state |-> e]
  BY <1>4
<1>6. PICK q \in data : q.err = Nil /\ d.value = q.value
  BY <1>2, <1>5, AndThenResult
<1>7. validData(q.value) /\ present(q.value) /\ q.value.bytes = e.body.bytes
  BY <1>6, PayloadData DEF data
<1> QED BY <1>3, <1>4, <1>5, <1>6, <1>7 DEF tenant

StreamContext(e) == [e.context EXCEPT !["tenantid"] = tenantValue(@)]
StreamAttributes(e, o) ==
  Attributes(e.id, o.source, e.name, e.contentType, o.schema, encodeStreamSubject(e.stream), o.time,
             stringAttributes(Single("eventschema", FormatUint(e.eventVersion))
                              ++ nonEmpty(StreamContext(e))))
StreamState(e) ==
  [stream |-> e.stream, streamVersion |-> e.streamVersion, eventVersion |-> e.eventVersion,
   recordedAt |-> e.recordedAt, context |-> StreamContext(e), rest |-> e.rest, trust |-> TRUE]

LEMMA StreamToResult ==
  ASSUME NEW e, NEW o, NEW r \in StreamTo(e, o), r.err = Nil
  PROVE  /\ validatedTenant(e.context["tenantid"]) = {}
         /\ \E d : /\ validData(d) /\ present(d) /\ d.bytes = e.payload
                   /\ validateAttributes(StreamAttributes(e, o)) = {}
                   /\ r.value = [event |-> withData(StreamAttributes(e, o), d),
                                 state |-> StreamState(e)]
<1> DEFINE F == When(o.source = "" \/ e.id = "", ErrInvalidAdapterInput)
           G == validatedTenant(e.context["tenantid"])
           data == DataFromPayload(e.contentType, e.payload)
<1>1. r \in converted(F, andThen(data, G), StreamAttributes(e, o), StreamState(e))
  BY DEF StreamTo, StreamAttributes, StreamState, StreamContext
<1>2. Nil \notin F /\ Nil \notin G
  BY ErrorsAreNotNil DEF When, validatedTenant
<1> HIDE DEF F, G, data
<1>3. PICK d \in andThen(data, G) :
        /\ d.err = Nil
        /\ validateAttributes(StreamAttributes(e, o)) = {}
        /\ r.value = [event |-> withData(StreamAttributes(e, o), d.value), state |-> StreamState(e)]
  BY <1>1, <1>2, ConvertedResult
<1>4. G = {} /\ \E q \in data : q.err = Nil /\ d.value = q.value
  BY <1>2, <1>3, AndThenResult
<1>5. PICK q \in data : q.err = Nil /\ d.value = q.value
  BY <1>4
<1>6. validData(q.value) /\ present(q.value) /\ q.value.bytes = e.payload
  BY <1>5, PayloadData DEF data
<1> QED BY <1>3, <1>4, <1>5, <1>6 DEF G

WorkflowAttributes(e, o) ==
  Attributes(o.stableID, o.source, eventType(e.kind), "", "", e.instance, e.occurredAt, <<>>)
WorkflowState(e, o) ==
  [stableID |-> o.stableID, sequence |-> e.sequence, rest |-> e.rest, dataWasNil |-> e.data.nil]

LEMMA WorkflowToResult ==
  ASSUME NEW e, NEW o, NEW r \in WorkflowTo(e, o), r.err = Nil
  PROVE  /\ e.sequence # 0 /\ o.stableID # ""
         /\ validateAttributes(WorkflowAttributes(e, o)) = {}
         /\ r.value = [event |-> withData(WorkflowAttributes(e, o), NewBinaryData(e.data.bytes)),
                       state |-> WorkflowState(e, o)]
<1> DEFINE F == When(o.stableID = "" \/ o.source = "" \/ e.sequence = 0, ErrInvalidAdapterInput)
           data == Returns({}, NewBinaryData(e.data.bytes))
<1>1. r \in converted(F, data, WorkflowAttributes(e, o), WorkflowState(e, o))
  BY DEF WorkflowTo, WorkflowAttributes, WorkflowState
<1>2. F = {} => e.sequence # 0 /\ o.stableID # ""
  BY DEF When
<1>3. Nil \notin F
  BY ErrorsAreNotNil DEF When
<1>4. \A d \in data : d.value = NewBinaryData(e.data.bytes)
  BY DEF Returns
<1> HIDE DEF F, data
<1>5. /\ F = {}
      /\ \E d \in data :
           /\ d.err = Nil
           /\ validateAttributes(WorkflowAttributes(e, o)) = {}
           /\ r.value = [event |-> withData(WorkflowAttributes(e, o), d.value),
                         state |-> WorkflowState(e, o)]
  BY <1>1, <1>3, ConvertedResult
<1> QED BY <1>2, <1>4, <1>5

-----------------------------------------------------------------------------
(* What every slot satisfies.                                               *)

\* The slot holds what its conversion returned; a service that forgot keeps what
\* it owns of the state.
Kept(slot) ==
  \E r \in to(slot.conversion) :
    /\ r.err = Nil
    /\ slot.sent = r.value.event
    /\ slot.intact => slot.state = r.value.state
    /\ ~slot.intact => \E trust \in BOOLEAN :
                         slot.state = owned(slot.conversion.adapter, r.value.state, trust)

SlotFields == {"conversion", "sent", "event", "state", "intact", "changes"}

\* A conversion of the workload, the event of it that is under way, valid
\* whatever happened to it, and the state.
SlotInvariant(slot) ==
  /\ DOMAIN slot = SlotFields
  /\ slot.conversion \in work.conversions
  /\ slot.intact \in BOOLEAN
  /\ Kept(slot)
  /\ ValidEvent(slot.event)

\* A result that is still there is what the adapter returned for the slots as
\* they are now.
ResultInvariant ==
  result # Nil =>
    /\ result.event \in DOMAIN slots /\ result.state \in DOMAIN slots
    /\ slots[result.event].conversion.adapter = slots[result.state].conversion.adapter
    /\ \E r \in from(slots[result.state].conversion.adapter, slots[result.event].event,
                     slots[result.state].state) :
         result.value = r.value /\ result.err = r.err

RetainedInvariant ==
  /\ workload \in DOMAIN Workloads
  /\ IsSequence(slots)
  /\ \A i \in DOMAIN slots : SlotInvariant(slots[i])
  /\ ResultInvariant

\* Every conversion is of one of the four adapters.
LEMMA Conversions ==
  ASSUME workload \in DOMAIN Workloads, NEW c \in work.conversions
  PROVE  \/ c.adapter = "outbox" /\ OutboxEnvelope(c.envelope)
         \/ c.adapter = "queue" /\ QueueEnvelope(c.envelope)
         \/ c.adapter = "stream" /\ StreamEnvelope(c.envelope)
         \/ c.adapter = "workflow" /\ WorkflowEnvelope(c.envelope)
  BY EnvelopeAssumption DEF work

\* An event of validated attributes and valid data is valid.
LEMMA AttributesAndData ==
  ASSUME NEW a, validateAttributes(a) = {}, NEW d, validData(d)
  PROVE  ValidEvent(withData(a, d))
<1>1. withData(a, d) = withData(withData(a, d), withData(a, d).data)
  BY DEF withData
<1> QED BY <1>1, WithDataValid DEF ValidEvent

\* The event of a conversion is valid.
LEMMA ConvertedIsValid ==
  ASSUME workload \in DOMAIN Workloads, NEW c \in work.conversions, NEW r \in to(c), r.err = Nil
  PROVE  ValidEvent(r.value.event)
<1>1. CASE c.adapter = "outbox"
  <2>1. r \in OutboxTo(c.envelope, c.options) BY <1>1 DEF to
  <2>2. PICK d : /\ validData(d) /\ present(d) /\ d.bytes = c.envelope.payload.bytes
                 /\ validateAttributes(OutboxAttributes(c.envelope, c.options)) = {}
                 /\ r.value = [event |-> withData(OutboxAttributes(c.envelope, c.options), d),
                               state |-> c.envelope]
    BY <2>1, OutboxToResult
  <2> QED BY <2>2, AttributesAndData
<1>2. CASE c.adapter = "queue"
  <2>1. r \in QueueTo(c.envelope, c.options) BY <1>2 DEF to
  <2>2. PICK d : /\ validData(d) /\ present(d) /\ d.bytes = c.envelope.body.bytes
                 /\ validateAttributes(QueueAttributes(c.envelope, c.options)) = {}
                 /\ r.value = [event |-> withData(QueueAttributes(c.envelope, c.options), d),
                               state |-> c.envelope]
    BY <2>1, QueueToResult
  <2> QED BY <2>2, AttributesAndData
<1>3. CASE c.adapter = "stream"
  <2>1. r \in StreamTo(c.envelope, c.options) BY <1>3 DEF to
  <2>2. PICK d : /\ validData(d) /\ present(d) /\ d.bytes = c.envelope.payload
                 /\ validateAttributes(StreamAttributes(c.envelope, c.options)) = {}
                 /\ r.value = [event |-> withData(StreamAttributes(c.envelope, c.options), d),
                               state |-> StreamState(c.envelope)]
    BY <2>1, StreamToResult
  <2> QED BY <2>2, AttributesAndData
<1>4. CASE c.adapter = "workflow"
  <2>1. r \in WorkflowTo(c.envelope, c.options) BY <1>4 DEF to
  <2>2. validData(NewBinaryData(c.envelope.data.bytes)) BY NewDataResult
  <2>3. /\ validateAttributes(WorkflowAttributes(c.envelope, c.options)) = {}
        /\ r.value = [event |-> withData(WorkflowAttributes(c.envelope, c.options),
                                         NewBinaryData(c.envelope.data.bytes)),
                      state |-> WorkflowState(c.envelope, c.options)]
    BY <2>1, WorkflowToResult
  <2> QED BY <2>2, <2>3, AttributesAndData
<1> QED BY <1>1, <1>2, <1>3, <1>4, Conversions

\* An edited event is valid.
LEMMA EditedIsValid ==
  ASSUME workload \in DOMAIN Workloads, NEW x \in work.edits, NEW e, ValidEvent(e),
         NEW r \in edited(e, x[1], x[2], x[3]), r.err = Nil
  PROVE  ValidEvent(r.value)
<1> DEFINE others == [n \in DOMAIN e.extensions \ {x[2]} |-> e.extensions[n]]
                     ++ (IF x[3] = Nil THEN <<>> ELSE Single(x[2], x[3]))
           f == CASE x[1] = "core" -> [e EXCEPT ![x[2]] = x[3]]
                  [] x[1] = "data" -> [e EXCEPT !.data = x[3]]
                  [] OTHER -> [e EXCEPT !.extensions = others]
<1>1. r \in NewEvent(f, f.data)
  BY DEF edited
<1>2. /\ "data" \in DOMAIN e /\ "extensions" \in DOMAIN e
      /\ validData(e.data)
  BY ValidateRules DEF ValidEvent, withData
<1>3. validData(f.data)
  <2>1. CASE x[1] = "core"
    BY <1>2, <2>1, EditAssumption DEF work
  <2>2. CASE x[1] = "data"
    BY <1>2, <2>2, EditAssumption DEF work
  <2>3. CASE x[1] \notin {"core", "data"}
    BY <1>2, <2>3
  <2> QED BY <2>1, <2>2, <2>3
<1> HIDE DEF f
<1> QED BY <1>1, <1>3, NewEventValid

\* An enriched event is valid.
LEMMA EnrichedIsValid ==
  ASSUME NEW e, ValidEvent(e), NEW x, NEW r \in AddStringExtensions(e, x), r.err = Nil
  PROVE  ValidEvent(r.value)
<1>1. r.value = Enriched(e, x) /\ ExtensionsValid(e.extensions ++ stringAttributes(x))
  BY AddStringExtensionsResult
<1>2. Validate(Enriched(e, x)) = {}
  BY <1>1, EnrichedValid DEF ValidEvent
<1>3. Enriched(e, x) = withData(Enriched(e, x), Enriched(e, x).data)
  BY DEF Enriched, withData
<1> QED BY <1>1, <1>2, <1>3 DEF ValidEvent

LEMMA InitRetained == Init => RetainedInvariant
<1> SUFFICES ASSUME Init PROVE RetainedInvariant
  OBVIOUS
<1>1. <<>> \in Seq({}) /\ DOMAIN <<>> = {}
  OBVIOUS
<1>2. IsSequence(<<>>)
  BY <1>1, SequenceOfMembers
<1> QED BY <1>1, <1>2 DEF Init, RetainedInvariant, ResultInvariant

\* A step that writes one slot, and leaves it as it should be.
LEMMA OneSlot ==
  ASSUME RetainedInvariant, NEW i \in DOMAIN slots,
         slots' = [j \in DOMAIN slots |-> slots'[j]],
         \A j \in DOMAIN slots : j # i => slots'[j] = slots[j],
         SlotInvariant(slots'[i]), result' = Nil, workload' = workload
  PROVE  RetainedInvariant'
<1>1. DOMAIN slots' = DOMAIN slots
  OBVIOUS
<1>2. \A j \in DOMAIN slots' : SlotInvariant(slots'[j])
  BY <1>1 DEF RetainedInvariant
<1>3. IsSequence(slots')
  BY SameIndices DEF RetainedInvariant
<1> QED BY <1>2, <1>3 DEF RetainedInvariant, ResultInvariant, SlotInvariant, work

\* A change on the way leaves everything in a slot but its event.
LEMMA ChangedSlot ==
  ASSUME RetainedInvariant, NEW i \in DOMAIN slots, NEW results, change(i, results),
         \A r \in results : r.err = Nil => ValidEvent(r.value)
  PROVE  RetainedInvariant'
<1>1. PICK r \in results :
        r.err = Nil /\ slots' = [slots EXCEPT ![i].event = r.value, ![i].changes = @ + 1]
  BY DEF change
<1>2. SlotInvariant(slots[i])
  BY DEF RetainedInvariant
<1>3. DOMAIN slots[i] = SlotFields
  BY <1>2 DEF SlotInvariant
<1> DEFINE old == slots[i]
           new == slots'[i]
<1>4. /\ DOMAIN new = SlotFields
      /\ new.conversion = old.conversion /\ new.sent = old.sent /\ new.event = r.value
      /\ new.state = old.state /\ new.intact = old.intact
  BY <1>1, <1>3 DEF SlotFields
<1>5. /\ slots' = [j \in DOMAIN slots |-> slots'[j]]
      /\ \A j \in DOMAIN slots : j # i => slots'[j] = slots[j]
  BY <1>1
<1>6. SlotInvariant(new)
  <2>1. Kept(old) BY <1>2 DEF SlotInvariant
  <2> HIDE DEF old, new
  <2>2. Kept(new)
    BY <1>4, <2>1 DEF Kept
  <2> QED BY <1>1, <1>2, <1>4, <2>2 DEF SlotInvariant, old
<1> QED BY <1>5, <1>6, OneSlot DEF change

\* A service that forgets leaves everything in a slot but its state.
LEMMA ForgetsOnce ==
  ASSUME RetainedInvariant, NEW i \in DOMAIN slots, NEW trust \in BOOLEAN, Forget(i, trust)
  PROVE  RetainedInvariant'
<1>1. /\ slots[i].intact
      /\ slots' = [slots EXCEPT ![i].state = owned(slots[i].conversion.adapter, @, trust),
                                ![i].intact = FALSE]
  BY DEF Forget
<1>2. SlotInvariant(slots[i])
  BY DEF RetainedInvariant
<1>3. DOMAIN slots[i] = SlotFields
  BY <1>2 DEF SlotInvariant
<1> DEFINE old == slots[i]
           new == slots'[i]
<1>4. /\ DOMAIN new = SlotFields
      /\ new.conversion = old.conversion /\ new.sent = old.sent /\ new.event = old.event
      /\ new.intact = FALSE /\ new.state = owned(old.conversion.adapter, old.state, trust)
  BY <1>1, <1>3 DEF SlotFields
<1>5. /\ slots' = [j \in DOMAIN slots |-> slots'[j]]
      /\ \A j \in DOMAIN slots : j # i => slots'[j] = slots[j]
  BY <1>1
<1>6. SlotInvariant(new)
  <2>1. Kept(old) /\ old.intact BY <1>1, <1>2 DEF SlotInvariant
  <2> HIDE DEF old, new
  <2>2. Kept(new)
    BY <1>4, <2>1 DEF Kept
  <2> QED BY <1>2, <1>4, <2>2 DEF SlotInvariant, old
<1> QED BY <1>5, <1>6, OneSlot DEF Forget

\* A conversion appends a slot.
LEMMA ConvertedSlot ==
  ASSUME RetainedInvariant, NEW c \in work.conversions, Convert(c)
  PROVE  RetainedInvariant'
<1>1. PICK r \in to(c) :
        slots' = IF r.err # Nil THEN slots
                 ELSE Append(slots, [conversion |-> c, sent |-> r.value.event,
                                     event |-> r.value.event, state |-> r.value.state,
                                     intact |-> TRUE, changes |-> 0])
  BY DEF Convert
<1>2. result' = Nil /\ workload' = workload
  BY DEF Convert
<1>3. CASE r.err # Nil
  BY <1>1, <1>2, <1>3 DEF RetainedInvariant, ResultInvariant, SlotInvariant, work
<1>4. CASE r.err = Nil
  <2> DEFINE new == [conversion |-> c, sent |-> r.value.event, event |-> r.value.event,
                     state |-> r.value.state, intact |-> TRUE, changes |-> 0]
  <2>1. slots' = Append(slots, new)
    BY <1>1, <1>4
  <2>2. SlotInvariant(new)
    <3>1. ValidEvent(r.value.event)
      BY <1>4, ConvertedIsValid DEF RetainedInvariant
    <3>2. Kept(new)
      BY <1>4 DEF Kept
    <3>3. DOMAIN new = SlotFields
      BY DEF SlotFields
    <3> QED BY <3>1, <3>2, <3>3 DEF SlotInvariant
  <2> HIDE DEF new
  <2>3. PICK S : slots \in Seq(S)
    BY DEF RetainedInvariant, IsSequence
  <2>4. slots \in Seq(S \cup {new}) /\ new \in S \cup {new}
    BY <2>3
  <2>5. /\ slots' \in Seq(S \cup {new})
        /\ DOMAIN slots' = 1..(Len(slots) + 1) /\ DOMAIN slots = 1..Len(slots) /\ Len(slots) \in Nat
        /\ \A j \in DOMAIN slots : slots'[j] = slots[j]
        /\ slots'[Len(slots) + 1] = new
    BY <2>1, <2>4
  <2>6. \A j \in DOMAIN slots' : SlotInvariant(slots'[j])
    BY <2>2, <2>5 DEF RetainedInvariant
  <2>7. IsSequence(slots')
    BY <2>5, SequenceOfMembers
  <2> QED BY <1>2, <2>6, <2>7 DEF RetainedInvariant, ResultInvariant, SlotInvariant, work
<1> QED BY <1>3, <1>4

LEMMA NextRetained ==
  ASSUME RetainedInvariant, [Next]_vars
  PROVE  RetainedInvariant'
<1>1. ASSUME NEW c \in work.conversions, Convert(c) PROVE RetainedInvariant'
  BY <1>1, ConvertedSlot
<1>2. ASSUME NEW i \in DOMAIN slots, NEW a \in work.enrichments, Enrich(i, a)
      PROVE  RetainedInvariant'
  <2>1. ValidEvent(slots[i].event)
    BY DEF RetainedInvariant, SlotInvariant
  <2>2. \A r \in AddStringExtensions(slots[i].event, a) : r.err = Nil => ValidEvent(r.value)
    BY <2>1, EnrichedIsValid
  <2>3. change(i, AddStringExtensions(slots[i].event, a))
    BY <1>2 DEF Enrich
  <2> QED BY <2>2, <2>3, ChangedSlot
<1>3. ASSUME NEW i \in DOMAIN slots, NEW r \in work.routes, Cross(i, r[1], r[2], r[3])
      PROVE  RetainedInvariant'
  <2>1. ValidEvent(slots[i].event)
    BY DEF RetainedInvariant, SlotInvariant
  <2>2. \A q \in cross(r[1], r[2], r[3], slots[i].event, RouteLimits) :
          q.err = Nil => ValidEvent(q.value)
    BY <2>1, CrossResult
  <2>3. change(i, cross(r[1], r[2], r[3], slots[i].event, RouteLimits))
    BY <1>3 DEF Cross
  <2> QED BY <2>2, <2>3, ChangedSlot
<1>4. ASSUME NEW i \in DOMAIN slots, NEW x \in work.edits, Edit(i, x[1], x[2], x[3])
      PROVE  RetainedInvariant'
  <2>1. ValidEvent(slots[i].event) /\ workload \in DOMAIN Workloads
    BY DEF RetainedInvariant, SlotInvariant
  <2>2. \A r \in edited(slots[i].event, x[1], x[2], x[3]) : r.err = Nil => ValidEvent(r.value)
    BY <2>1, EditedIsValid
  <2>3. change(i, edited(slots[i].event, x[1], x[2], x[3]))
    BY <1>4 DEF Edit
  <2> QED BY <2>2, <2>3, ChangedSlot
<1>5. ASSUME NEW i \in DOMAIN slots, NEW trust \in BOOLEAN, Forget(i, trust)
      PROVE  RetainedInvariant'
  BY <1>5, ForgetsOnce
<1>6. ASSUME NEW i \in DOMAIN slots, NEW j \in DOMAIN slots, Restore(i, j)
      PROVE  RetainedInvariant'
  <2>1. PICK r \in from(slots[j].conversion.adapter, slots[i].event, slots[j].state) :
          result' = [event |-> i, state |-> j, value |-> r.value, err |-> r.err]
    BY <1>6 DEF Restore
  <2>2. slots' = slots /\ workload' = workload
        /\ slots[i].conversion.adapter = slots[j].conversion.adapter
    BY <1>6 DEF Restore
  <2>3. ResultInvariant'
    BY <2>1, <2>2 DEF ResultInvariant
  <2> QED BY <2>2, <2>3 DEF RetainedInvariant, SlotInvariant, work
<1>7. CASE UNCHANGED vars
  BY <1>7 DEF RetainedInvariant, ResultInvariant, SlotInvariant, work, vars
<1>8. CASE Next
  BY <1>1, <1>2, <1>3, <1>4, <1>5, <1>6, <1>8 DEF Next
<1> QED BY <1>7, <1>8

\* Everything in a slot is what a conversion gave or a valid event on its way,
\* and a result is of the slots as they are.
THEOREM RetainedCorrect == Spec => []RetainedInvariant
<1>1. Init => RetainedInvariant
  BY InitRetained
<1>2. RetainedInvariant /\ [Next]_vars => RetainedInvariant'
  BY NextRetained
<1> QED BY <1>1, <1>2, PTL DEF Spec

-----------------------------------------------------------------------------
(* From an event and state back to an envelope.                             *)

\* No step fails when the first failure is none.
LEMMA FirstFailure ==
  ASSUME NEW s, DOMAIN s \subseteq Nat, \A i \in DOMAIN s : Nil \notin s[i]
  PROVE  /\ Nil \notin firstFailure(s)
         /\ firstFailure(s) = {} <=> \A i \in DOMAIN s : s[i] = {}
<1> DEFINE failing == {i \in DOMAIN s : s[i] # {}}
<1>1. CASE failing = {}
  BY <1>1 DEF firstFailure
<1>2. CASE failing # {}
  <2>1. Min(failing) \in failing
    BY <1>2, MinOfNaturals
  <2>2. firstFailure(s) = s[Min(failing)]
    BY <1>2 DEF firstFailure
  <2> HIDE DEF failing
  <2>3. Min(failing) \in DOMAIN s /\ s[Min(failing)] # {}
    BY <2>1 DEF failing
  <2> QED BY <2>2, <2>3
<1> QED BY <1>1, <1>2

\* Nothing went wrong in stages only if nothing did in each.
LEMMA NoStageFailed ==
  ASSUME NEW A, NEW B PROVE A ?? B = {} <=> A = {} /\ B = {}
  BY DEF ??

LEMMA RestoredResult ==
  ASSUME NEW F, Nil \notin F, NEW envelope, NEW report, NEW r \in restored(F, envelope, report)
  PROVE  /\ r.err = Nil <=> F = {}
         /\ r.err = Nil => r.value.envelope = envelope /\ r.value.report = report
  BY ReturnsEither DEF restored

\* Reading an extension fails with ErrInvalidAdapterInput only.
LEMMA ExtensionRead ==
  ASSUME NEW e, NEW n
  PROVE  StringExtension(e, n).err \in {Nil, ErrInvalidAdapterInput}
  BY DEF StringExtension

LEMMA Names ==
  /\ DOMAIN streamNames = 1..4 /\ DOMAIN queueNames = 1..6
  /\ Range(streamNames) = {"correlationid", "causationid", "tenantid", "partitionkey"}
  /\ Range(queueNames) = {"correlationid", "requestid", "causationid", "traceparent", "tracestate",
                          "tenantid"}
  BY DEF streamNames, queueNames, Range

\* What FromCloudEvent of the event-sourcing adapter accepts, and what it returns.
StreamMapped(event, state, n) == MappedString(event, n, state.context[n], state.trust)

StreamEnvelopeOf(event, state) ==
  [id |-> event.id, stream |-> state.stream, eventVersion |-> state.eventVersion,
   name |-> event.type, contentType |-> event.dataContentType, payload |-> event.data.bytes,
   context |-> [[n \in Range(streamNames) |-> StreamMapped(event, state, n).value]
                  EXCEPT !["tenantid"] = tenantValue(@)],
   streamVersion |-> state.streamVersion, recordedAt |-> state.recordedAt, rest |-> state.rest]

StreamAccepts(event, state) ==
  /\ Validate(event) = {} /\ state.stream # <<"", "">> /\ state.streamVersion # 0
  /\ state.eventVersion # 0 /\ state.recordedAt # ""
  /\ event.subject = encodeStreamSubject(state.stream)
  /\ StringExtension(event, "eventschema").value = FormatUint(state.eventVersion)
  /\ \A n \in Range(streamNames) : StreamMapped(event, state, n).err = Nil
  /\ validatedTenant(StreamMapped(event, state, "tenantid").value) = {}
  /\ event.dataContentType # "" /\ present(event.data)
  /\ ValidEncodedEvent(event.data.bytes) /\ ValidMessageID(event.id)

StreamReport(event) ==
  {Core("source")}
  \cup AppendDataKindLoss(event, TRUE)
  \cup When(event.dataSchema # "", Core("dataschema"))
  \cup When(event.time # "", Core("time"))
  \cup AppendExtensionLosses(event, {"eventschema"} \cup Range(streamNames))

LEMMA StreamFromResult ==
  ASSUME NEW event, NEW state, NEW r \in StreamFrom(event, state)
  PROVE  /\ r.err = Nil <=> StreamAccepts(event, state)
         /\ r.err = Nil => /\ r.value.envelope = StreamEnvelopeOf(event, state)
                           /\ r.value.report = StreamReport(event)
<1> DEFINE mapped(n) == MappedString(event, n, state.context[n], state.trust)
           context == [[n \in Range(streamNames) |-> mapped(n).value]
                         EXCEPT !["tenantid"] = tenantValue(@)]
           failure(n) ==    When(mapped(n).err # Nil, mapped(n).err)
                         ?? (IF n = "tenantid" THEN validatedTenant(mapped(n).value) ELSE {})
           steps == [i \in DOMAIN streamNames |-> failure(streamNames[i])]
           A == When(Validate(event) # {} \/ state.stream = <<"", "">> \/ state.streamVersion = 0
                       \/ state.eventVersion = 0 \/ state.recordedAt = "", ErrInvalidAdapterInput)
           B == When(\/ event.subject # encodeStreamSubject(state.stream)
                     \/ StringExtension(event, "eventschema").value # FormatUint(state.eventVersion),
                     ErrMetadataCollision)
           C == firstFailure(steps)
           D == When(event.dataContentType = "" \/ ~present(event.data), ErrInvalidAdapterInput)
           E == When(~ValidEncodedEvent(event.data.bytes) \/ ~ValidMessageID(event.id), ErrTarget)
           report == StreamReport(event)
<1>1. r \in restored(A ?? B ?? C ?? D ?? E, StreamEnvelopeOf(event, state), report)
  BY DEF StreamFrom, StreamReport, StreamEnvelopeOf, StreamMapped
<1>2. \A n : /\ Nil \notin failure(n)
             /\ failure(n) = {} <=> /\ mapped(n).err = Nil
                                    /\ n = "tenantid" => validatedTenant(mapped(n).value) = {}
  <2> TAKE n
  <2>1. Nil \notin validatedTenant(mapped(n).value)
    BY ErrorsAreNotNil DEF validatedTenant, When
  <2>2. Nil \notin When(mapped(n).err # Nil, mapped(n).err)
    BY DEF When
  <2>3. When(mapped(n).err # Nil, mapped(n).err) = {} <=> mapped(n).err = Nil
    BY DEF When
  <2> HIDE DEF mapped
  <2> QED BY <2>1, <2>2, <2>3 DEF ??
<1> HIDE DEF failure
<1>3. /\ Nil \notin C
      /\ C = {} <=> \A i \in DOMAIN streamNames : failure(streamNames[i]) = {}
  <2>1. DOMAIN steps \subseteq Nat /\ \A i \in DOMAIN steps : Nil \notin steps[i]
    BY <1>2, Names
  <2>2. DOMAIN steps = DOMAIN streamNames
    OBVIOUS
  <2>3. \A i \in DOMAIN streamNames : steps[i] = failure(streamNames[i])
    OBVIOUS
  <2> HIDE DEF steps
  <2> QED BY <2>1, <2>2, <2>3, FirstFailure
<1>4. C = {} <=> \A n \in Range(streamNames) : failure(n) = {}
  BY <1>3 DEF Range
<1>5. /\ Nil \notin A /\ Nil \notin B /\ Nil \notin D /\ Nil \notin E
  BY ErrorsAreNotNil, TargetErrorAssumption DEF When
<1>6. /\ A = {} <=> ~(Validate(event) # {} \/ state.stream = <<"", "">> \/ state.streamVersion = 0
                       \/ state.eventVersion = 0 \/ state.recordedAt = "")
      /\ B = {} <=> ~(\/ event.subject # encodeStreamSubject(state.stream)
                      \/ StringExtension(event, "eventschema").value # FormatUint(state.eventVersion))
      /\ D = {} <=> ~(event.dataContentType = "" \/ ~present(event.data))
      /\ E = {} <=> ~(~ValidEncodedEvent(event.data.bytes) \/ ~ValidMessageID(event.id))
  BY DEF When
<1> HIDE DEF A, B, C, D, E
<1>7. /\ Nil \notin A ?? B ?? C ?? D ?? E
      /\ A ?? B ?? C ?? D ?? E = {} <=> A = {} /\ B = {} /\ C = {} /\ D = {} /\ E = {}
  BY <1>3, <1>5 DEF ??
<1>8. C = {} <=> /\ \A n \in Range(streamNames) : StreamMapped(event, state, n).err = Nil
                 /\ validatedTenant(StreamMapped(event, state, "tenantid").value) = {}
  <2>1. "tenantid" \in Range(streamNames) BY Names
  <2> QED BY <1>2, <1>4, <2>1 DEF StreamMapped
<1>9. r.err = Nil <=> A ?? B ?? C ?? D ?? E = {}
  BY <1>1, <1>7, RestoredResult
<1>10. r.err = Nil => /\ r.value.envelope = StreamEnvelopeOf(event, state)
                      /\ r.value.report = StreamReport(event)
  BY <1>1, <1>7, RestoredResult
<1>11. A ?? B ?? C ?? D ?? E = {} <=> StreamAccepts(event, state)
  BY <1>6, <1>7, <1>8 DEF StreamAccepts
<1> QED BY <1>9, <1>10, <1>11

\* The same of the outbox adapter,
OutboxEnvelopeOf(event, state) ==
  [state EXCEPT !.id = event.id, !.payload = RestoreRetainedNil(event.data, state.payload.nil)]

OutboxAccepts(event, state) ==
  /\ Validate(event) = {} /\ state.topic # "" /\ state.version # 0
  /\ state.id \in {"", event.id} /\ present(event.data)

OutboxReport(event) ==
  {Core("source"), Core("type")}
  \cup When(event.dataContentType # "", Core("datacontenttype"))
  \cup AppendDataKindLoss(event, FALSE)
  \cup AppendOptionalContextLosses(event)
  \cup AppendExtensionLosses(event, {})

LEMMA OutboxFromResult ==
  ASSUME NEW event, NEW state, NEW r \in OutboxFrom(event, state)
  PROVE  /\ r.err = Nil <=> OutboxAccepts(event, state)
         /\ r.err = Nil => /\ r.value.envelope = OutboxEnvelopeOf(event, state)
                           /\ r.value.report = OutboxReport(event)
<1> DEFINE A == When(Validate(event) # {} \/ state.topic = "" \/ state.version = 0,
                     ErrInvalidAdapterInput)
           B == When(state.id \notin {"", event.id}, ErrMetadataCollision)
           C == When(~present(event.data), ErrInvalidAdapterInput)
           report == OutboxReport(event)
<1>1. r \in restored(A ?? B ?? C, OutboxEnvelopeOf(event, state), report)
  BY DEF OutboxFrom, OutboxReport, OutboxEnvelopeOf
<1>2. Nil \notin A /\ Nil \notin B /\ Nil \notin C
  BY ErrorsAreNotNil DEF When
<1>3. /\ A = {} <=> ~(Validate(event) # {} \/ state.topic = "" \/ state.version = 0)
      /\ B = {} <=> state.id \in {"", event.id}
      /\ C = {} <=> present(event.data)
  BY DEF When
<1> HIDE DEF A, B, C
<1>4. /\ Nil \notin A ?? B ?? C
      /\ A ?? B ?? C = {} <=> A = {} /\ B = {} /\ C = {}
  BY <1>2 DEF ??
<1>5. /\ r.err = Nil <=> A ?? B ?? C = {}
      /\ r.err = Nil => /\ r.value.envelope = OutboxEnvelopeOf(event, state)
                        /\ r.value.report = OutboxReport(event)
  BY <1>1, <1>4, RestoredResult
<1>6. A ?? B ?? C = {} <=> OutboxAccepts(event, state)
  BY <1>3, <1>4 DEF OutboxAccepts
<1> QED BY <1>5, <1>6

\* of the queue adapter
QueueEnvelopeOf(event, state) ==
  [state EXCEPT !.body = RestoreRetainedNil(event.data, state.body.nil),
                !.metadata = [queueMetadata(state) EXCEPT !.originalID = event.id,
                                                          !.jobType = event.type,
                                                          !.contentType = event.dataContentType]]

Verified(event, metadata) ==
  /\ validatedTenant(metadata.context["tenantid"]) = {}
  /\ \A n \in Range(queueNames) : /\ StringExtension(event, n).err = Nil
                                  /\ StringExtension(event, n).value = metadata.context[n]
  /\ validatedTenant(StringExtension(event, "tenantid").value) = {}

QueueAccepts(event, state) ==
  LET metadata == queueMetadata(state) IN
  /\ Validate(event) = {} /\ present(event.data)
  /\ metadata.originalID \in {"", event.id}
  /\ metadata.jobType \in {"", event.type}
  /\ metadata.contentType \in {"", event.dataContentType}
  /\ Verified(event, metadata)

LEMMA VerifyExtensions ==
  ASSUME NEW event, NEW metadata
  PROVE  /\ Nil \notin verifyExtensions(event, metadata)
         /\ verifyExtensions(event, metadata) = {} <=> Verified(event, metadata)
<1> DEFINE failure(n) ==
             LET read == StringExtension(event, n) IN
                When(read.err # Nil, read.err)
             ?? (IF n = "tenantid" THEN validatedTenant(read.value) ELSE {})
             ?? When(read.value # metadata.context[n], ErrMetadataCollision)
           steps == [i \in DOMAIN queueNames |-> failure(queueNames[i])]
           A == validatedTenant(metadata.context["tenantid"])
           B == firstFailure(steps)
<1>1. verifyExtensions(event, metadata) = A ?? B
  BY DEF verifyExtensions
<1>2. \A n : /\ Nil \notin failure(n)
             /\ failure(n) = {} <=>
                  /\ StringExtension(event, n).err = Nil
                  /\ n = "tenantid" => validatedTenant(StringExtension(event, n).value) = {}
                  /\ StringExtension(event, n).value = metadata.context[n]
  <2> TAKE n
  <2> DEFINE read == StringExtension(event, n)
             P == When(read.err # Nil, read.err)
             Q == IF n = "tenantid" THEN validatedTenant(read.value) ELSE {}
             R == When(read.value # metadata.context[n], ErrMetadataCollision)
  <2>1. failure(n) = P ?? Q ?? R
    OBVIOUS
  <2>2. Nil \notin P /\ Nil \notin Q /\ Nil \notin R
    BY ErrorsAreNotNil DEF When, validatedTenant
  <2>3. /\ P = {} <=> read.err = Nil
        /\ R = {} <=> read.value = metadata.context[n]
        /\ Q = {} <=> (n = "tenantid" => validatedTenant(read.value) = {})
    BY DEF When
  <2> HIDE DEF failure, read, P, Q, R
  <2>4. /\ Nil \notin P ?? Q ?? R
        /\ P ?? Q ?? R = {} <=> P = {} /\ Q = {} /\ R = {}
    BY <2>2 DEF ??
  <2> QED BY <2>1, <2>3, <2>4 DEF read
<1> HIDE DEF failure
<1>3. /\ Nil \notin B
      /\ B = {} <=> \A i \in DOMAIN queueNames : failure(queueNames[i]) = {}
  <2>1. DOMAIN steps \subseteq Nat /\ \A i \in DOMAIN steps : Nil \notin steps[i]
    BY <1>2, Names
  <2>2. DOMAIN steps = DOMAIN queueNames
    OBVIOUS
  <2>3. \A i \in DOMAIN queueNames : steps[i] = failure(queueNames[i])
    OBVIOUS
  <2> HIDE DEF steps
  <2> QED BY <2>1, <2>2, <2>3, FirstFailure
<1>4. B = {} <=> \A n \in Range(queueNames) : failure(n) = {}
  BY <1>3 DEF Range
<1>5. B = {} <=> /\ \A n \in Range(queueNames) :
                      /\ StringExtension(event, n).err = Nil
                      /\ StringExtension(event, n).value = metadata.context[n]
                 /\ validatedTenant(StringExtension(event, "tenantid").value) = {}
  <2>1. "tenantid" \in Range(queueNames) BY Names
  <2> QED BY <1>2, <1>4, <2>1
<1>6. Nil \notin A
  BY ErrorsAreNotNil DEF When, validatedTenant
<1>7. A ?? B = {} <=> Verified(event, metadata)
  <2> HIDE DEF B
  <2> QED BY <1>5, NoStageFailed DEF Verified
<1> HIDE DEF A, B
<1> QED BY <1>1, <1>3, <1>6, <1>7, StagesFailWithErrors

QueueReport(event) ==
  {Core("source")}
  \cup AppendDataKindLoss(event, TRUE)
  \cup AppendOptionalContextLosses(event)
  \cup AppendExtensionLosses(event, Range(queueNames))

LEMMA QueueFromResult ==
  ASSUME NEW event, NEW state, NEW r \in QueueFrom(event, state)
  PROVE  /\ r.err = Nil <=> QueueAccepts(event, state)
         /\ r.err = Nil => /\ r.value.envelope = QueueEnvelopeOf(event, state)
                           /\ r.value.report = QueueReport(event)
<1> DEFINE metadata == queueMetadata(state)
           A == When(Validate(event) # {} \/ ~present(event.data), ErrInvalidAdapterInput)
           B == When(metadata.originalID \notin {"", event.id}, ErrMetadataCollision)
           C == When(metadata.jobType \notin {"", event.type}, ErrMetadataCollision)
           D == When(metadata.contentType \notin {"", event.dataContentType}, ErrMetadataCollision)
           E == verifyExtensions(event, metadata)
           report == QueueReport(event)
<1>1. r \in restored(A ?? B ?? C ?? D ?? E, QueueEnvelopeOf(event, state), report)
  BY DEF QueueFrom, QueueReport, QueueEnvelopeOf
<1>2. Nil \notin A /\ Nil \notin B /\ Nil \notin C /\ Nil \notin D
  BY ErrorsAreNotNil DEF When
<1>3. /\ A = {} <=> ~(Validate(event) # {} \/ ~present(event.data))
      /\ B = {} <=> metadata.originalID \in {"", event.id}
      /\ C = {} <=> metadata.jobType \in {"", event.type}
      /\ D = {} <=> metadata.contentType \in {"", event.dataContentType}
  BY DEF When
<1>4. Nil \notin E /\ (E = {} <=> Verified(event, metadata))
  BY VerifyExtensions
<1> HIDE DEF A, B, C, D, E
<1>5. /\ Nil \notin A ?? B ?? C ?? D ?? E
      /\ A ?? B ?? C ?? D ?? E = {} <=> A = {} /\ B = {} /\ C = {} /\ D = {} /\ E = {}
  BY <1>2, <1>4 DEF ??
<1>6. /\ r.err = Nil <=> A ?? B ?? C ?? D ?? E = {}
      /\ r.err = Nil => /\ r.value.envelope = QueueEnvelopeOf(event, state)
                        /\ r.value.report = QueueReport(event)
  BY <1>1, <1>5, RestoredResult
<1>7. A ?? B ?? C ?? D ?? E = {} <=> QueueAccepts(event, state)
  BY <1>3, <1>4, <1>5 DEF QueueAccepts
<1> QED BY <1>6, <1>7

\* and of the workflow adapter.
WorkflowEnvelopeOf(event, state) ==
  [sequence |-> state.sequence, kind |-> parseEventType(event.type), instance |-> event.subject,
   occurredAt |-> event.time, data |-> RestoreRetainedNil(event.data, state.dataWasNil),
   rest |-> state.rest]

WorkflowAccepts(event, state) ==
  /\ state.sequence # 0 /\ state.stableID # "" /\ event.id = state.stableID
  /\ parseEventType(event.type) # Nil
  /\ event.subject # "" /\ event.time # "" /\ present(event.data)
  /\ ValidHistory(WorkflowEnvelopeOf(event, state))

WorkflowReport(event) ==
  {Core("source")}
  \cup When(event.dataContentType # "", Core("datacontenttype"))
  \cup When(event.dataSchema # "", Core("dataschema"))
  \cup AppendDataKindLoss(event, FALSE)
  \cup AppendExtensionLosses(event, {})

LEMMA WorkflowFromResult ==
  ASSUME NEW event, NEW state, NEW r \in WorkflowFrom(event, state)
  PROVE  /\ r.err = Nil <=> WorkflowAccepts(event, state)
         /\ r.err = Nil => /\ r.value.envelope = WorkflowEnvelopeOf(event, state)
                           /\ r.value.report = WorkflowReport(event)
<1> DEFINE A == When(state.sequence = 0 \/ state.stableID = "" \/ event.id # state.stableID,
                     ErrInvalidAdapterInput)
           B == When(parseEventType(event.type) = Nil, ErrInvalidAdapterInput)
           C == When(event.subject = "" \/ event.time = "" \/ ~present(event.data),
                     ErrInvalidAdapterInput)
           D == When(~ValidHistory(WorkflowEnvelopeOf(event, state)), ErrTarget)
           report == WorkflowReport(event)
<1>1. r \in restored(A ?? B ?? C ?? D, WorkflowEnvelopeOf(event, state), report)
  BY DEF WorkflowFrom, WorkflowReport, WorkflowEnvelopeOf
<1>2. Nil \notin A /\ Nil \notin B /\ Nil \notin C /\ Nil \notin D
  BY ErrorsAreNotNil, TargetErrorAssumption DEF When
<1>3. /\ A = {} <=> ~(state.sequence = 0 \/ state.stableID = "" \/ event.id # state.stableID)
      /\ B = {} <=> parseEventType(event.type) # Nil
      /\ C = {} <=> ~(event.subject = "" \/ event.time = "" \/ ~present(event.data))
      /\ D = {} <=> ValidHistory(WorkflowEnvelopeOf(event, state))
  BY DEF When
<1> HIDE DEF A, B, C, D
<1>4. /\ Nil \notin A ?? B ?? C ?? D
      /\ A ?? B ?? C ?? D = {} <=> A = {} /\ B = {} /\ C = {} /\ D = {}
  BY <1>2 DEF ??
<1>5. /\ r.err = Nil <=> A ?? B ?? C ?? D = {}
      /\ r.err = Nil => /\ r.value.envelope = WorkflowEnvelopeOf(event, state)
                        /\ r.value.report = WorkflowReport(event)
  BY <1>1, <1>4, RestoredResult
<1>6. A ?? B ?? C ?? D = {} <=> WorkflowAccepts(event, state)
  BY <1>3, <1>4 DEF WorkflowAccepts
<1> QED BY <1>5, <1>6

-----------------------------------------------------------------------------
(* The slots of each adapter.                                               *)

\* The event a slot sent and the state it keeps come from its envelope.
LEMMA StreamSlot ==
  ASSUME RetainedInvariant, NEW i \in DOMAIN slots, slots[i].conversion.adapter = "stream"
  PROVE  LET slot == slots[i]
             e    == slot.conversion.envelope
             o    == slot.conversion.options
         IN  /\ StreamEnvelope(e)
             /\ validatedTenant(e.context["tenantid"]) = {}
             /\ \E d : /\ validData(d) /\ present(d) /\ d.bytes = e.payload
                       /\ slot.sent = withData(StreamAttributes(e, o), d)
             /\ slot.intact => slot.state = StreamState(e)
             /\ ~slot.intact =>
                  \E trust \in BOOLEAN :
                    slot.state = [StreamState(e) EXCEPT !.context = [n \in DOMAIN @ |-> ""],
                                                        !.trust = trust]
<1> DEFINE slot == slots[i]
           c == slot.conversion
<1>1. SlotInvariant(slot) /\ workload \in DOMAIN Workloads
  BY DEF RetainedInvariant
<1>2. StreamEnvelope(c.envelope)
  BY <1>1, Conversions DEF SlotInvariant
<1>3. PICK r \in to(c) :
        /\ r.err = Nil /\ slot.sent = r.value.event
        /\ slot.intact => slot.state = r.value.state
        /\ ~slot.intact => \E trust \in BOOLEAN :
                             slot.state = owned(c.adapter, r.value.state, trust)
  BY <1>1 DEF SlotInvariant, Kept
<1>4. r \in StreamTo(c.envelope, c.options)
  BY DEF to
<1> DEFINE a == StreamAttributes(c.envelope, c.options)
           k == StreamState(c.envelope)
<1>5. /\ validatedTenant(c.envelope.context["tenantid"]) = {}
      /\ \E d : /\ validData(d) /\ present(d) /\ d.bytes = c.envelope.payload
                /\ validateAttributes(a) = {}
                /\ r.value = [event |-> withData(a, d), state |-> k]
  <2> DEFINE e == c.envelope
             o == c.options
  <2>1. r.err = Nil BY <1>3
  <2>2. r \in StreamTo(e, o) BY <1>4
  <2> HIDE DEF e, o
  <2>3. /\ validatedTenant(e.context["tenantid"]) = {}
        /\ \E d : /\ validData(d) /\ present(d) /\ d.bytes = e.payload
                  /\ validateAttributes(StreamAttributes(e, o)) = {}
                  /\ r.value = [event |-> withData(StreamAttributes(e, o), d), state |-> StreamState(e)]
    BY <2>1, <2>2, StreamToResult
  <2> QED BY <2>3 DEF e, o
<1>6. PICK d : /\ validData(d) /\ present(d) /\ d.bytes = c.envelope.payload
               /\ r.value = [event |-> withData(a, d), state |-> k]
  BY <1>5
<1>7. r.value.event = withData(a, d) /\ r.value.state = k
  BY <1>6
<1>8. \A trust : owned(c.adapter, k, trust) = [k EXCEPT !.context = [n \in DOMAIN @ |-> ""],
                                                        !.trust = trust]
  BY DEF owned
<1> HIDE DEF a, k
<1>9. \E q : /\ validData(q) /\ present(q) /\ q.bytes = c.envelope.payload
             /\ slot.sent = withData(a, q)
  BY <1>3, <1>6, <1>7
<1>10. slot.intact => slot.state = k
  BY <1>3, <1>7
<1>11. ~slot.intact => \E trust \in BOOLEAN :
                         slot.state = [k EXCEPT !.context = [n \in DOMAIN @ |-> ""], !.trust = trust]
  BY <1>3, <1>7, <1>8
<1> QED BY <1>2, <1>5, <1>9, <1>10, <1>11 DEF a, k

\* What of it does not depend on whether the service forgot.
LEMMA StreamKept ==
  ASSUME RetainedInvariant, NEW i \in DOMAIN slots, slots[i].conversion.adapter = "stream"
  PROVE  /\ slots[i].state.stream = slots[i].conversion.envelope.stream
         /\ LET tenant == slots[i].state.context["tenantid"] IN tenantValue(tenant) = tenant
<1> DEFINE slot == slots[i]
           e == slot.conversion.envelope
           tenant == tenantValue(e.context["tenantid"])
<1>1. /\ StreamEnvelope(e)
      /\ validatedTenant(e.context["tenantid"]) = {}
      /\ slot.intact => slot.state = StreamState(e)
      /\ ~slot.intact =>
           \E trust \in BOOLEAN :
             slot.state = [StreamState(e) EXCEPT !.context = [n \in DOMAIN @ |-> ""],
                                                 !.trust = trust]
  BY StreamSlot
<1>2. DOMAIN e.context = Range(streamNames) /\ "tenantid" \in Range(streamNames)
  BY <1>1, Names DEF StreamEnvelope, HasFields
<1>3. /\ StreamState(e).stream = e.stream
      /\ StreamState(e).context = StreamContext(e)
      /\ StreamContext(e)["tenantid"] = tenant /\ DOMAIN StreamContext(e) = DOMAIN e.context
  BY <1>2 DEF StreamState, StreamContext
<1>4. tenantValue(tenant) = tenant
  <2>1. tenant = "" \/ tenant # Nil
    BY <1>1 DEF validatedTenant, tenantValue, When
  <2>2. tenant \notin {Nil, ""} => ParseTenantID(tenant) = tenant
    BY <1>1 DEF StreamEnvelope
  <2> HIDE DEF tenant
  <2> QED BY <2>1, <2>2 DEF tenantValue
<1>5. CASE slot.intact
  BY <1>1, <1>3, <1>4, <1>5
<1>6. CASE ~slot.intact
  <2>1. PICK trust \in BOOLEAN :
          slot.state = [StreamState(e) EXCEPT !.context = [n \in DOMAIN @ |-> ""], !.trust = trust]
    BY <1>1, <1>6
  <2>2. /\ slot.state.stream = StreamState(e).stream
        /\ slot.state.context = [n \in DOMAIN StreamState(e).context |-> ""]
    BY <2>1 DEF StreamState
  <2>3. slot.state.context["tenantid"] = ""
    BY <1>2, <1>3, <2>2
  <2> QED BY <1>3, <2>2, <2>3 DEF tenantValue
<1> QED BY <1>5, <1>6

\* A successful result is one of its adapter's.
LEMMA StreamResult ==
  ASSUME RetainedInvariant, result # Nil, slots[result.state].conversion.adapter = "stream"
  PROVE  LET event == slots[result.event].event
             state == slots[result.state].state
         IN  /\ result.err = Nil <=> StreamAccepts(event, state)
             /\ result.err = Nil => result.value.envelope = StreamEnvelopeOf(event, state)
<1> DEFINE event == slots[result.event].event
           state == slots[result.state].state
<1>1. PICK r \in from("stream", event, state) : result.value = r.value /\ result.err = r.err
  BY DEF RetainedInvariant, ResultInvariant
<1>2. r \in StreamFrom(event, state)
  BY DEF from
<1> HIDE DEF event, state
<1>3. /\ r.err = Nil <=> StreamAccepts(event, state)
      /\ r.err = Nil => r.value.envelope = StreamEnvelopeOf(event, state)
  BY <1>2, StreamFromResult
<1> QED BY <1>1, <1>3 DEF event, state

\* FromCloudEvent of the event-sourcing adapter takes context from the event only
\* where the state has none and is trusted, for every workload.
THEOREM NothingUntrusted == Spec => []NothingAdoptedUntrusted
<1>1. RetainedInvariant => NothingAdoptedUntrusted
  <2> SUFFICES ASSUME RetainedInvariant, result # Nil, result.err = Nil,
                      slots[result.state].conversion.adapter = "stream",
                      NEW n \in Range(streamNames),
                      result.value.envelope.context[n] # slots[result.state].state.context[n]
               PROVE  /\ slots[result.state].state.context[n] = ""
                      /\ slots[result.state].state.trust
    BY DEF NothingAdoptedUntrusted
  <2> DEFINE event == slots[result.event].event
             state == slots[result.state].state
             mapped == StreamMapped(event, state, n)
  <2>1. StreamAccepts(event, state) /\ result.value.envelope = StreamEnvelopeOf(event, state)
    BY StreamResult
  <2>2. tenantValue(state.context["tenantid"]) = state.context["tenantid"]
    BY StreamKept DEF RetainedInvariant, ResultInvariant
  <2> HIDE DEF event, state
  <2>3. mapped.err = Nil
    BY <2>1 DEF StreamAccepts
  <2>4. mapped.value = state.context[n] \/ (state.context[n] = "" /\ state.trust)
    BY <2>3, ExtensionRead, ErrorsAreNotNil DEF StreamMapped, MappedString
  <2>5. result.value.envelope.context[n]
          = (IF n = "tenantid" THEN tenantValue(mapped.value) ELSE mapped.value)
    BY <2>1, Names DEF StreamEnvelopeOf
  <2> HIDE DEF mapped
  <2> QED BY <2>2, <2>4, <2>5 DEF state
<1> QED BY <1>1, RetainedCorrect, PTL

-----------------------------------------------------------------------------
(* Events to which nothing an adapter maps was done.                        *)

\* Outside the fields in which they differ, events agree.
LEMMA Agreement ==
  ASSUME NEW e, NEW f, NEW S, differs(e, f) \cap S = {}
  PROVE  /\ Core("id") \in S => e.id = f.id
         /\ Core("type") \in S => e.type = f.type
         /\ Core("datacontenttype") \in S => e.dataContentType = f.dataContentType
         /\ Core("subject") \in S => e.subject = f.subject
         /\ Core("time") \in S => e.time = f.time
         /\ Core("data") \in S => e.data.bytes = f.data.bytes /\ (present(e.data) <=> present(f.data))
         /\ \A n : Ext(n) \in S => StringExtension(e, n) = StringExtension(f, n)
<1>1. Core("id") \in S => e.id = f.id
  BY DEF differs, changed, When, Core
<1>2. Core("type") \in S => e.type = f.type
  BY DEF differs, changed, When, Core
<1>3. Core("datacontenttype") \in S => e.dataContentType = f.dataContentType
  BY DEF differs, changed, When, Core
<1>4. Core("subject") \in S => e.subject = f.subject
  BY DEF differs, changed, When, Core
<1>5. Core("time") \in S => e.time = f.time
  BY DEF differs, changed, When, Core
<1>6. Core("data") \in S => e.data.bytes = f.data.bytes /\ (present(e.data) <=> present(f.data))
  BY DEF differs, When
<1>7. ASSUME NEW n, Ext(n) \in S PROVE StringExtension(e, n) = StringExtension(f, n)
  <2>1. extensionOf(e, n) = extensionOf(f, n)
    <3> SUFFICES ASSUME extensionOf(e, n) # extensionOf(f, n) PROVE FALSE
      OBVIOUS
    <3>1. n \in DOMAIN e.extensions \cup DOMAIN f.extensions
      BY DEF extensionOf
    <3>2. Ext(n) \in changed(e, f)
      BY <3>1 DEF changed
    <3>3. Ext(n) # Core("data")
      BY DEF Ext, Core
    <3> QED BY <1>7, <3>2, <3>3 DEF differs
  <2>2. n \in DOMAIN e.extensions <=> n \in DOMAIN f.extensions
    BY <2>1 DEF extensionOf
  <2>3. n \in DOMAIN e.extensions => /\ e.extensions[n].kind = f.extensions[n].kind
                                     /\ e.extensions[n].text = f.extensions[n].text
    <3> SUFFICES ASSUME n \in DOMAIN e.extensions
                 PROVE  /\ e.extensions[n].kind = f.extensions[n].kind
                        /\ e.extensions[n].text = f.extensions[n].text
      OBVIOUS
    <3> DEFINE x == e.extensions[n]
               y == f.extensions[n]
    <3>1. extensionOf(e, n) = {Attribute(x.kind, x.text)} /\ extensionOf(f, n) = {Attribute(y.kind, y.text)}
      BY <2>2 DEF extensionOf
    <3> HIDE DEF x, y
    <3>2. Attribute(x.kind, x.text) = Attribute(y.kind, y.text)
      BY <2>1, <3>1
    <3>3. x.kind = y.kind /\ x.text = y.text
      BY <3>2 DEF Attribute
    <3> QED BY <3>3 DEF x, y
  <2> QED BY <2>2, <2>3 DEF StringExtension
<1> QED BY <1>1, <1>2, <1>3, <1>4, <1>5, <1>6, <1>7

\* The fields of the event of a slot to which no represented field was changed.
LEMMA UnharmedFields ==
  ASSUME NEW slot, unharmed(slot)
  PROVE  LET adapter == slot.conversion.adapter
             e == slot.sent
             f == slot.event
             data == e.data.bytes = f.data.bytes /\ (present(e.data) <=> present(f.data))
         IN  /\ adapter = "outbox" => e.id = f.id /\ data
             /\ adapter = "queue" =>
                  /\ e.id = f.id /\ e.type = f.type /\ e.dataContentType = f.dataContentType /\ data
                  /\ \A n \in Range(queueNames) : StringExtension(e, n) = StringExtension(f, n)
             /\ adapter = "stream" =>
                  /\ e.id = f.id /\ e.type = f.type /\ e.dataContentType = f.dataContentType /\ data
                  /\ e.subject = f.subject
                  /\ \A n \in {"eventschema"} \cup Range(streamNames) :
                       StringExtension(e, n) = StringExtension(f, n)
             /\ adapter = "workflow" =>
                  e.id = f.id /\ e.type = f.type /\ e.subject = f.subject /\ e.time = f.time /\ data
<1> DEFINE adapter == slot.conversion.adapter
           e == slot.sent
           f == slot.event
           S == represented(adapter)
<1>1. differs(e, f) \cap S = {}
  BY DEF unharmed
<1> HIDE DEF e, f, S, adapter
<1>2. /\ Core("id") \in S => e.id = f.id
      /\ Core("type") \in S => e.type = f.type
      /\ Core("datacontenttype") \in S => e.dataContentType = f.dataContentType
      /\ Core("subject") \in S => e.subject = f.subject
      /\ Core("time") \in S => e.time = f.time
      /\ Core("data") \in S => e.data.bytes = f.data.bytes /\ (present(e.data) <=> present(f.data))
      /\ \A n : Ext(n) \in S => StringExtension(e, n) = StringExtension(f, n)
  BY <1>1, Agreement
<1>3. adapter = "outbox" => {Core("id"), Core("data")} \subseteq S
  BY DEF represented, S
<1>4. adapter = "queue" =>
        /\ {Core("id"), Core("type"), Core("datacontenttype"), Core("data")} \subseteq S
        /\ \A n \in Range(queueNames) : Ext(n) \in S
  BY DEF represented, S
<1>5. adapter = "stream" =>
        /\ {Core("id"), Core("type"), Core("datacontenttype"), Core("subject"), Core("data")}
             \subseteq S
        /\ \A n \in {"eventschema"} \cup Range(streamNames) : Ext(n) \in S
  BY DEF represented, S
<1>6. adapter = "workflow" =>
        {Core("id"), Core("type"), Core("subject"), Core("time"), Core("data")} \subseteq S
  BY DEF represented, S
<1>7. adapter = "queue" =>
        \A n \in Range(queueNames) : StringExtension(e, n) = StringExtension(f, n)
  BY <1>2, <1>4
<1>8. adapter = "stream" =>
        \A n \in {"eventschema"} \cup Range(streamNames) : StringExtension(e, n) = StringExtension(f, n)
  BY <1>2, <1>5
<1> QED BY <1>2, <1>3, <1>4, <1>5, <1>6, <1>7, <1>8 DEF adapter, e, f

-----------------------------------------------------------------------------
(* Which states an event meets.                                             *)

\* What a result came from.
LEMMA ResultSlots ==
  ASSUME RetainedInvariant, result # Nil
  PROVE  LET adapter == slots[result.state].conversion.adapter
             event   == slots[result.event].event
             state   == slots[result.state].state
         IN  /\ result.event \in DOMAIN slots /\ result.state \in DOMAIN slots
             /\ slots[result.event].conversion.adapter = adapter
             /\ adapter \in {"outbox", "queue", "stream", "workflow"}
             /\ adapter = "outbox" => /\ result.err = Nil <=> OutboxAccepts(event, state)
                                      /\ result.err = Nil =>
                                           result.value.envelope = OutboxEnvelopeOf(event, state)
             /\ adapter = "queue" => /\ result.err = Nil <=> QueueAccepts(event, state)
                                     /\ result.err = Nil =>
                                          result.value.envelope = QueueEnvelopeOf(event, state)
             /\ adapter = "workflow" => /\ result.err = Nil <=> WorkflowAccepts(event, state)
                                        /\ result.err = Nil =>
                                             result.value.envelope = WorkflowEnvelopeOf(event, state)
<1> DEFINE adapter == slots[result.state].conversion.adapter
           event == slots[result.event].event
           state == slots[result.state].state
<1>1. /\ result.event \in DOMAIN slots /\ result.state \in DOMAIN slots
      /\ slots[result.event].conversion.adapter = adapter
      /\ \E r \in from(adapter, event, state) : result.value = r.value /\ result.err = r.err
  BY DEF RetainedInvariant, ResultInvariant
<1>2. PICK r \in from(adapter, event, state) : result.value = r.value /\ result.err = r.err
  BY <1>1
<1>3. adapter \in {"outbox", "queue", "stream", "workflow"}
  BY <1>1, Conversions DEF RetainedInvariant, SlotInvariant
<1> HIDE DEF adapter, event, state
<1>4. adapter = "outbox" => r \in OutboxFrom(event, state)
  BY <1>2 DEF from
<1>5. adapter = "queue" => r \in QueueFrom(event, state)
  BY <1>2 DEF from
<1>6. adapter = "workflow" => r \in WorkflowFrom(event, state)
  BY <1>2 DEF from
<1>7. adapter = "outbox" => /\ result.err = Nil <=> OutboxAccepts(event, state)
                            /\ result.err = Nil =>
                                 result.value.envelope = OutboxEnvelopeOf(event, state)
  BY <1>2, <1>4, OutboxFromResult
<1>8. adapter = "queue" => /\ result.err = Nil <=> QueueAccepts(event, state)
                           /\ result.err = Nil =>
                                result.value.envelope = QueueEnvelopeOf(event, state)
  BY <1>2, <1>5, QueueFromResult
<1>9. adapter = "workflow" => /\ result.err = Nil <=> WorkflowAccepts(event, state)
                              /\ result.err = Nil =>
                                   result.value.envelope = WorkflowEnvelopeOf(event, state)
  BY <1>2, <1>6, WorkflowFromResult
<1> QED BY <1>1, <1>3, <1>7, <1>8, <1>9 DEF adapter, event, state

-----------------------------------------------------------------------------
(* The way there and back.                                                  *)

\* A slice comes back as the one whose bytes the event carried.
LEMMA RestoredSlice ==
  ASSUME NEW s, IsSlice(s), NEW data, data.bytes = s.bytes
  PROVE  RestoreRetainedNil(data, s.nil) = s
<1>1. CASE s = NilSlice
  <2>1. s.nil = TRUE /\ data.bytes = "" BY <1>1 DEF NilSlice
  <2> QED BY <1>1, <2>1 DEF RestoreRetainedNil
<1>2. CASE s = Slice(s.bytes)
  <2>1. s.nil = FALSE BY <1>2 DEF Slice
  <2> QED BY <1>2, <2>1 DEF RestoreRetainedNil
<1> QED BY <1>1, <1>2 DEF IsSlice

\* Strings that were added as extensions are read back, absent ones as "".
LEMMA AddedStrings ==
  ASSUME NEW f, NEW x, f.extensions = stringAttributes(x), NEW n
  PROVE  LET read == StringExtension(f, n) IN
         IF n \in DOMAIN x THEN read.value = x[n] /\ (x[n] # "" => read.err = Nil)
         ELSE read.value = "" /\ read.err = Nil
<1>1. /\ DOMAIN f.extensions = DOMAIN x
      /\ \A m \in DOMAIN x : f.extensions[m] = [kind |-> "string", text |-> x[m]]
  BY DEF stringAttributes, Attribute
<1>2. CASE n \notin DOMAIN x
  BY <1>1, <1>2 DEF StringExtension
<1>3. CASE n \in DOMAIN x
  <2>1. /\ n \in DOMAIN f.extensions
        /\ f.extensions[n].kind = "string" /\ f.extensions[n].text = x[n]
    BY <1>1, <1>3
  <2>2. CASE x[n] = ""
    BY <1>3, <2>1, <2>2 DEF StringExtension
  <2>3. CASE x[n] # ""
    BY <1>3, <2>1, <2>3 DEF StringExtension
  <2> QED BY <1>3, <2>2, <2>3
<1> QED BY <1>2, <1>3

\* Those of a map of strings, all of them or the ones that are not empty.
LEMMA NonEmptyRead ==
  ASSUME NEW f, NEW c, NEW x, DOMAIN c \cap DOMAIN x = {},
         f.extensions = stringAttributes(x ++ nonEmpty(c)), NEW n \in DOMAIN c
  PROVE  StringExtension(f, n).err = Nil /\ StringExtension(f, n).value = c[n]
<1> DEFINE y == x ++ nonEmpty(c)
<1>1. /\ n \in DOMAIN y <=> c[n] # ""
      /\ n \in DOMAIN y => y[n] = c[n]
  BY DEF nonEmpty, ++
<1> HIDE DEF y
<1>2. LET read == StringExtension(f, n) IN
      IF n \in DOMAIN y THEN read.value = y[n] /\ (y[n] # "" => read.err = Nil)
      ELSE read.value = "" /\ read.err = Nil
  BY AddedStrings DEF y
<1> QED BY <1>1, <1>2

\* A retained value is the one the event carries, or there is none.
LEMMA MappedAgrees ==
  ASSUME NEW e, NEW n, NEW kept, NEW trusted, MappedString(e, n, kept, trusted).err = Nil
  PROVE  kept \in {"", StringExtension(e, n).value}
  BY ErrorsAreNotNil, AdapterErrorAssumption DEF MappedString

\* The schema version an event of a stream carries is its message's.
LEMMA SentSchema ==
  ASSUME RetainedInvariant, NEW i \in DOMAIN slots, slots[i].conversion.adapter = "stream"
  PROVE  /\ slots[i].sent.subject = encodeStreamSubject(slots[i].conversion.envelope.stream)
         /\ StringExtension(slots[i].sent, "eventschema").value
              = FormatUint(slots[i].conversion.envelope.eventVersion)
<1> DEFINE e == slots[i].conversion.envelope
           sent == slots[i].sent
           x == Single("eventschema", FormatUint(e.eventVersion)) ++ nonEmpty(StreamContext(e))
<1>1. PICK d : sent = withData(StreamAttributes(e, slots[i].conversion.options), d)
  BY StreamSlot
<1>2. sent.subject = encodeStreamSubject(e.stream) /\ sent.extensions = stringAttributes(x)
  BY <1>1 DEF withData, StreamAttributes, Attributes
<1>3. "eventschema" \in DOMAIN x /\ x["eventschema"] = FormatUint(e.eventVersion)
  BY DEF Single, ++
<1> HIDE DEF sent, x, e
<1>4. StringExtension(sent, "eventschema").value = x["eventschema"]
  BY <1>2, <1>3, AddedStrings
<1> QED BY <1>2, <1>3, <1>4 DEF sent, e

\* Whatever conversions are under way and however a service confuses their
\* states, an event that arrived unharmed is never given state that retains another
\* identity, type or context, or another stream or schema version (FromCloudEvent of
\* the four adapters).
THEOREM WrongStateIsRefused == Spec => []MispairedIsRefused
<1>1. RetainedInvariant => MispairedIsRefused
  <2> SUFFICES ASSUME RetainedInvariant, result # Nil, result.err = Nil,
                      unharmed(slots[result.event])
               PROVE  meets(slots[result.event].conversion, slots[result.event].sent,
                            slots[result.state].state)
    BY DEF MispairedIsRefused
  <2> DEFINE i == result.event
             j == result.state
             came == slots[i]
             state == slots[j].state
             adapter == came.conversion.adapter
  <2>1. /\ i \in DOMAIN slots /\ j \in DOMAIN slots
        /\ slots[j].conversion.adapter = adapter
        /\ adapter \in {"outbox", "queue", "stream", "workflow"}
    BY ResultSlots
  <2>2. CASE adapter = "outbox"
    <3>1. OutboxAccepts(came.event, state) BY <2>1, <2>2, ResultSlots
    <3>2. came.sent.id = came.event.id BY <2>2, UnharmedFields
    <3> QED BY <2>2, <3>1, <3>2 DEF OutboxAccepts, meets
  <2>3. CASE adapter = "queue"
    <3>1. QueueAccepts(came.event, state) BY <2>1, <2>3, ResultSlots
    <3>2. /\ came.sent.id = came.event.id /\ came.sent.type = came.event.type
          /\ came.sent.dataContentType = came.event.dataContentType
          /\ \A n \in Range(queueNames) :
               StringExtension(came.sent, n) = StringExtension(came.event, n)
      BY <2>3, UnharmedFields
    <3> HIDE DEF i, j
    <3>3. \A n \in Range(queueNames) :
            queueMetadata(state).context[n] = StringExtension(came.sent, n).value
      BY <3>1, <3>2 DEF QueueAccepts, Verified
    <3>4. /\ queueMetadata(state).originalID \in {"", came.sent.id}
          /\ queueMetadata(state).jobType \in {"", came.sent.type}
          /\ queueMetadata(state).contentType \in {"", came.sent.dataContentType}
          /\ came.conversion.adapter = "queue"
      BY <2>3, <3>1, <3>2 DEF QueueAccepts
    <3> HIDE DEF came, state
    <3>5. meets(came.conversion, came.sent, state)
      BY <3>3, <3>4 DEF meets
    <3> QED BY <3>5 DEF came, state, i, j
  <2>4. CASE adapter = "workflow"
    <3>1. WorkflowAccepts(came.event, state) BY <2>1, <2>4, ResultSlots
    <3>2. came.sent.id = came.event.id BY <2>4, UnharmedFields
    <3> QED BY <2>4, <3>1, <3>2 DEF WorkflowAccepts, meets
  <2>5. CASE adapter = "stream"
    <3> DEFINE s == slots[j].conversion.envelope.stream
               t == came.conversion.envelope.stream
    <3>1. StreamAccepts(came.event, state) BY <2>1, <2>5, StreamResult
    <3>2. /\ came.sent.subject = came.event.subject
          /\ \A n \in {"eventschema"} \cup Range(streamNames) :
               StringExtension(came.sent, n) = StringExtension(came.event, n)
      BY <2>5, UnharmedFields
    <3>3. state.stream = s BY <2>1, <2>5, StreamKept
    <3>4. /\ came.sent.subject = encodeStreamSubject(t)
          /\ StringExtension(came.sent, "eventschema").value
               = FormatUint(came.conversion.envelope.eventVersion)
      BY <2>1, <2>5, SentSchema
    <3>5. encodeStreamSubject(s) = encodeStreamSubject(t)
      BY <3>1, <3>2, <3>3, <3>4 DEF StreamAccepts
    <3>6. /\ slots[j].conversion \in work.conversions /\ slots[j].conversion.adapter = "stream"
          /\ came.conversion \in work.conversions /\ came.conversion.adapter = "stream"
          /\ workload \in DOMAIN Workloads
      BY <2>1, <2>5 DEF RetainedInvariant, SlotInvariant
    <3> DEFINE streams == {c.envelope.stream :
                             c \in {d \in Workloads[workload].conversions : d.adapter = "stream"}}
    <3>7. s \in streams /\ t \in streams
      BY <3>6 DEF work
    <3>8. \A u, v \in streams : RawURL(u[1]) \o "." \o RawURL(u[2]) = RawURL(v[1]) \o "." \o RawURL(v[2])
                                  => u = v
      BY <3>6, SubjectAssumption
    <3> HIDE DEF streams, s, t
    <3>9. s = t
      BY <3>5, <3>7, <3>8 DEF encodeStreamSubject
    <3>10. FormatUint(state.eventVersion) = FormatUint(came.conversion.envelope.eventVersion)
      BY <3>1, <3>2, <3>4 DEF StreamAccepts
    <3>11. \A n \in Range(streamNames) :
             state.context[n] \in {"", StringExtension(came.sent, n).value}
      <4> HIDE DEF came, state
      <4>1. \A n \in Range(streamNames) : StreamMapped(came.event, state, n).err = Nil
        BY <3>1 DEF StreamAccepts
      <4> SUFFICES ASSUME NEW n \in Range(streamNames)
                   PROVE  state.context[n] \in {"", StringExtension(came.event, n).value}
        BY <3>2
      <4>2. MappedString(came.event, n, state.context[n], state.trust).err = Nil
        BY <4>1 DEF StreamMapped
      <4> QED BY <4>2, MappedAgrees
    <3> QED BY <2>5, <3>3, <3>9, <3>10, <3>11 DEF s, t, meets
  <2> QED BY <2>1, <2>2, <2>3, <2>4, <2>5
<1> QED BY <1>1, RetainedCorrect, PTL

\* Without the forgetful service, what a slot of the other adapters holds.
LEMMA IntactSlot ==
  ASSUME RetainedInvariant, NEW i \in DOMAIN slots, slots[i].intact
  PROVE  LET slot == slots[i]
             c    == slot.conversion
         IN  /\ ValidEvent(slot.event)
             /\ c \in work.conversions /\ workload \in DOMAIN Workloads
             /\ \E r \in to(c) : r.err = Nil /\ slot.sent = r.value.event
                                 /\ slot.state = r.value.state
  BY DEF RetainedInvariant, SlotInvariant, Kept

LEMMA OutboxRestores ==
  ASSUME RetainedInvariant, NEW i \in DOMAIN slots, slots[i].intact, unharmed(slots[i]),
         slots[i].conversion.adapter = "outbox"
  PROVE  LET slot == slots[i] IN
         /\ OutboxAccepts(slot.event, slot.state)
         /\ OutboxEnvelopeOf(slot.event, slot.state) = completed(slot)
<1> DEFINE slot == slots[i]
           c == slot.conversion
           e == c.envelope
           a == OutboxAttributes(e, c.options)
<1>1. /\ ValidEvent(slot.event) /\ c \in work.conversions /\ workload \in DOMAIN Workloads
      /\ \E r \in to(c) : r.err = Nil /\ slot.sent = r.value.event /\ slot.state = r.value.state
  BY IntactSlot
<1>2. PICK r \in to(c) : r.err = Nil /\ slot.sent = r.value.event /\ slot.state = r.value.state
  BY <1>1
<1>3. r \in OutboxTo(e, c.options)
  BY DEF to
<1>4. PICK d : /\ validData(d) /\ present(d) /\ d.bytes = e.payload.bytes
               /\ validateAttributes(a) = {}
               /\ r.value = [event |-> withData(a, d), state |-> e]
  <2>1. r.err = Nil BY <1>2
  <2> HIDE DEF e
  <2> QED BY <1>3, <2>1, OutboxToResult
<1>5. slot.state = e /\ slot.sent.id = e.id /\ slot.sent.data = d
  BY <1>2, <1>4 DEF withData, OutboxAttributes, Attributes
<1>6. OutboxEnvelope(e)
  BY <1>1, Conversions
<1>7. /\ slot.event.id = e.id /\ present(slot.event.data)
      /\ slot.event.data.bytes = e.payload.bytes
  BY <1>4, <1>5, UnharmedFields
<1>8. OutboxAccepts(slot.event, slot.state)
  BY <1>1, <1>5, <1>6, <1>7 DEF OutboxAccepts, OutboxEnvelope, ValidEvent
<1>9. RestoreRetainedNil(slot.event.data, e.payload.nil) = e.payload
  BY <1>6, <1>7, RestoredSlice DEF OutboxEnvelope
<1>10. completed(slot) = e
  BY DEF completed
<1>11. OutboxEnvelopeOf(slot.event, slot.state) = e
  <2> DEFINE p == RestoreRetainedNil(slot.event.data, e.payload.nil)
             x == slot.event.id
             u == e
  <2>1. OutboxEnvelopeOf(slot.event, slot.state) = [u EXCEPT !.id = x, !.payload = p]
    BY <1>5 DEF OutboxEnvelopeOf
  <2>2. u = [n \in {"id", "topic", "version", "payload", "rest"} |-> u[n]]
        /\ x = u.id /\ p = u.payload
    BY <1>6, <1>7, <1>9 DEF OutboxEnvelope, HasFields
  <2> HIDE DEF p, x, u
  <2>3. [u EXCEPT !.id = x, !.payload = p] = u
    BY <2>2
  <2> QED BY <2>1, <2>3 DEF u
<1> QED BY <1>8, <1>10, <1>11

LEMMA WorkflowRestores ==
  ASSUME RetainedInvariant, NEW i \in DOMAIN slots, slots[i].intact, unharmed(slots[i]),
         slots[i].conversion.adapter = "workflow"
  PROVE  LET slot == slots[i] IN
         /\ WorkflowAccepts(slot.event, slot.state)
         /\ WorkflowEnvelopeOf(slot.event, slot.state) = completed(slot)
<1> DEFINE slot == slots[i]
           c == slot.conversion
           e == c.envelope
           o == c.options
           a == WorkflowAttributes(e, o)
           d == NewBinaryData(e.data.bytes)
<1>1. /\ c \in work.conversions /\ workload \in DOMAIN Workloads
      /\ \E r \in to(c) : r.err = Nil /\ slot.sent = r.value.event /\ slot.state = r.value.state
  BY IntactSlot
<1>2. PICK r \in to(c) : r.err = Nil /\ slot.sent = r.value.event /\ slot.state = r.value.state
  BY <1>1
<1>3. r \in WorkflowTo(e, o)
  BY DEF to
<1>4. /\ e.sequence # 0 /\ o.stableID # ""
      /\ r.value = [event |-> withData(a, d), state |-> WorkflowState(e, o)]
  <2>1. r.err = Nil BY <1>2
  <2> HIDE DEF e, o
  <2> QED BY <1>3, <2>1, WorkflowToResult
<1>5. /\ slot.state = WorkflowState(e, o)
      /\ slot.sent.id = o.stableID /\ slot.sent.type = eventType(e.kind)
      /\ slot.sent.subject = e.instance /\ slot.sent.time = e.occurredAt /\ slot.sent.data = d
  <2> HIDE DEF slot, e, o, a, d
  <2> DEFINE pair == [event |-> withData(a, d), state |-> WorkflowState(e, o)]
  <2>1. r.value.event = withData(a, d) /\ r.value.state = WorkflowState(e, o)
    <3>1. r.value = pair BY <1>4
    <3>2. pair.event = withData(a, d) /\ pair.state = WorkflowState(e, o) OBVIOUS
    <3> HIDE DEF pair
    <3> QED BY <3>1, <3>2
  <2>2. slot.sent = withData(a, d)
    BY <1>2, <2>1
  <2>3. slot.state = WorkflowState(e, o)
    BY <1>2, <2>1
  <2>4. /\ a.id = o.stableID /\ a.type = eventType(e.kind)
        /\ a.subject = e.instance /\ a.time = e.occurredAt
    BY DEF a, WorkflowAttributes, Attributes
  <2> QED BY <2>2, <2>3, <2>4 DEF withData
<1>6. WorkflowEnvelope(e)
  BY <1>1, Conversions
<1>7. present(d) /\ d.bytes = e.data.bytes
  BY DEF NewBinaryData, present
<1> HIDE DEF d
<1>8. /\ slot.event.id = o.stableID /\ slot.event.type = eventType(e.kind)
      /\ slot.event.subject = e.instance /\ slot.event.time = e.occurredAt
      /\ present(slot.event.data) /\ slot.event.data.bytes = e.data.bytes
  BY <1>5, <1>7, UnharmedFields
<1>9. RestoreRetainedNil(slot.event.data, e.data.nil) = e.data
  BY <1>6, <1>8, RestoredSlice DEF WorkflowEnvelope
<1>10. parseEventType(slot.event.type) = e.kind
  BY <1>6, <1>8 DEF WorkflowEnvelope
<1>11. WorkflowEnvelopeOf(slot.event, slot.state)
         = [sequence |-> e.sequence, kind |-> e.kind, instance |-> e.instance,
            occurredAt |-> e.occurredAt, data |-> e.data, rest |-> e.rest]
  BY <1>5, <1>8, <1>9, <1>10 DEF WorkflowEnvelopeOf, WorkflowState
<1>12. e = [sequence |-> e.sequence, kind |-> e.kind, instance |-> e.instance,
            occurredAt |-> e.occurredAt, data |-> e.data, rest |-> e.rest]
  <2> DEFINE u == e
  <2>1. u = [n \in {"sequence", "kind", "instance", "occurredAt", "data", "rest"} |-> u[n]]
    BY <1>6 DEF WorkflowEnvelope, HasFields
  <2> HIDE DEF u
  <2>2. u = [sequence |-> u.sequence, kind |-> u.kind, instance |-> u.instance,
             occurredAt |-> u.occurredAt, data |-> u.data, rest |-> u.rest]
    BY <2>1
  <2> QED BY <2>2 DEF u
<1>13. completed(slot) = e
  BY DEF completed
<1>14. WorkflowEnvelopeOf(slot.event, slot.state) = e
  BY <1>11, <1>12
<1>15. /\ slot.state.sequence = e.sequence /\ slot.state.stableID = o.stableID
  BY <1>5 DEF WorkflowState
<1>16. e.instance # "" /\ e.occurredAt # "" /\ ValidHistory(e) /\ e.kind # Nil
  BY <1>6 DEF WorkflowEnvelope
<1> HIDE DEF slot, e, c
<1>17. WorkflowAccepts(slot.event, slot.state)
  BY <1>4, <1>8, <1>10, <1>14, <1>15, <1>16 DEF WorkflowAccepts
<1> QED BY <1>13, <1>14, <1>17 DEF slot

\* Metadata is a record whether the message has it or not.
LEMMA QueueMetadata ==
  ASSUME NEW e, QueueEnvelope(e)
  PROVE  LET m == queueMetadata(e) IN
         /\ HasFields(m, {"originalID", "jobType", "contentType", "context", "rest"})
         /\ DOMAIN m.context = Range(queueNames)
<1>1. CASE e.metadata = Nil
  BY <1>1 DEF queueMetadata, EmptyMetadata, HasFields
<1>2. CASE e.metadata # Nil
  <2>1. /\ HasFields(e.metadata, {"originalID", "jobType", "contentType", "context", "rest"})
        /\ HasFields(e.metadata.context, Range(queueNames))
    BY <1>2 DEF QueueEnvelope
  <2>2. DOMAIN e.metadata.context = Range(queueNames)
    BY <2>1 DEF HasFields
  <2>3. queueMetadata(e) = e.metadata
    BY <1>2 DEF queueMetadata
  <2> QED BY <2>1, <2>2, <2>3
<1> QED BY <1>1, <1>2

LEMMA QueueRestores ==
  ASSUME RetainedInvariant, NEW i \in DOMAIN slots, slots[i].intact, unharmed(slots[i]),
         slots[i].conversion.adapter = "queue", ~Overridden(slots[i])
  PROVE  LET slot == slots[i] IN
         /\ QueueAccepts(slot.event, slot.state)
         /\ QueueEnvelopeOf(slot.event, slot.state) = completed(slot)
<1> DEFINE slot == slots[i]
           c == slot.conversion
           e == c.envelope
           o == c.options
           m == queueMetadata(e)
           a == QueueAttributes(e, o)
<1>1. /\ ValidEvent(slot.event) /\ c \in work.conversions /\ workload \in DOMAIN Workloads
      /\ \E r \in to(c) : r.err = Nil /\ slot.sent = r.value.event /\ slot.state = r.value.state
  BY IntactSlot
<1>2. PICK r \in to(c) : r.err = Nil /\ slot.sent = r.value.event /\ slot.state = r.value.state
  BY <1>1
<1>3. r \in QueueTo(e, o)
  BY DEF to
<1>4. /\ validatedTenant(m.context["tenantid"]) = {}
      /\ \E d : /\ validData(d) /\ present(d) /\ d.bytes = e.body.bytes
                /\ validateAttributes(a) = {}
                /\ r.value = [event |-> withData(a, d), state |-> e]
  <2>1. r.err = Nil BY <1>2
  <2> HIDE DEF e, o
  <2> QED BY <1>3, <2>1, QueueToResult
<1>5. PICK d : /\ validData(d) /\ present(d) /\ d.bytes = e.body.bytes
               /\ validateAttributes(a) = {}
               /\ r.value = [event |-> withData(a, d), state |-> e]
  BY <1>4
<1>6. /\ slot.state = e /\ slot.sent.data = d
      /\ slot.sent.dataContentType = m.contentType
      /\ slot.sent.extensions = stringAttributes(nonEmpty(m.context))
  <2>1. slot.sent = withData(a, d) /\ slot.state = e
    BY <1>2, <1>5
  <2>2. /\ a.dataContentType = m.contentType
        /\ a.extensions = stringAttributes(nonEmpty(m.context))
    BY DEF QueueAttributes, Attributes, queueExtensions
  <2> HIDE DEF slot, a, m, e
  <2> QED BY <2>1, <2>2 DEF withData
<1>7. QueueEnvelope(e)
  BY <1>1, Conversions
<1>8. /\ HasFields(m, {"originalID", "jobType", "contentType", "context", "rest"})
      /\ DOMAIN m.context = Range(queueNames)
  BY <1>7, QueueMetadata
<1>9. /\ slot.event.id = slot.sent.id /\ slot.event.type = slot.sent.type
      /\ slot.event.dataContentType = m.contentType
      /\ present(slot.event.data) /\ slot.event.data.bytes = e.body.bytes
      /\ \A n \in Range(queueNames) : StringExtension(slot.event, n) = StringExtension(slot.sent, n)
  BY <1>5, <1>6, UnharmedFields
<1>10. /\ m.originalID \in {"", slot.event.id}
       /\ m.jobType \in {"", slot.event.type}
  BY <1>9 DEF Overridden
<1>11. ASSUME NEW n \in Range(queueNames)
       PROVE  /\ StringExtension(slot.event, n).err = Nil
              /\ StringExtension(slot.event, n).value = m.context[n]
  <2> DEFINE sent == slot.sent
             context == m.context
             none == [k \in {} |-> ""]
             added == nonEmpty(context)
  <2>1. none ++ added = added
    <3>1. DOMAIN none = {} /\ added = [k \in DOMAIN added |-> added[k]]
      BY DEF nonEmpty
    <3> HIDE DEF none, added
    <3> QED BY <3>1 DEF ++
  <2>2. sent.extensions = stringAttributes(none ++ nonEmpty(context)) /\ n \in DOMAIN context
    BY <1>6, <1>8, <2>1
  <2>3. DOMAIN context \cap DOMAIN none = {}
    OBVIOUS
  <2> HIDE DEF sent, context, none
  <2>4. StringExtension(sent, n).err = Nil /\ StringExtension(sent, n).value = context[n]
    BY <2>2, <2>3, NonEmptyRead
  <2> QED BY <1>9, <2>4 DEF sent, context
<1>12. Verified(slot.event, m)
  <2>1. "tenantid" \in Range(queueNames) BY Names
  <2>2. \A n \in Range(queueNames) : /\ StringExtension(slot.event, n).err = Nil
                                     /\ StringExtension(slot.event, n).value = m.context[n]
    BY <1>11
  <2>3. StringExtension(slot.event, "tenantid").value = m.context["tenantid"]
    BY <2>1, <2>2
  <2> HIDE DEF m, slot
  <2> QED BY <1>4, <2>2, <2>3 DEF Verified
<1>13. QueueAccepts(slot.event, slot.state)
  <2>1. queueMetadata(slot.state) = m BY <1>6
  <2>2. Validate(slot.event) = {} BY <1>1 DEF ValidEvent
  <2>3. m.contentType \in {"", slot.event.dataContentType} BY <1>9
  <2> HIDE DEF m, slot
  <2> QED BY <1>9, <1>10, <1>12, <2>1, <2>2, <2>3 DEF QueueAccepts
<1>14. RestoreRetainedNil(slot.event.data, e.body.nil) = e.body
  BY <1>7, <1>9, RestoredSlice DEF QueueEnvelope
<1> DEFINE id == slot.event.id
           type == slot.event.type
           meta == [m EXCEPT !.originalID = id, !.jobType = type]
<1>15. completed(slot) = [e EXCEPT !.metadata = meta]
  <2>1. orElse(m.originalID, slot.sent.id) = id /\ orElse(m.jobType, slot.sent.type) = type
    BY <1>9, <1>10 DEF orElse
  <2>2. completed(slot)
          = [e EXCEPT !.metadata = [m EXCEPT !.originalID = orElse(m.originalID, slot.sent.id),
                                             !.jobType = orElse(m.jobType, slot.sent.type)]]
    BY DEF completed
  <2> HIDE DEF m, e, id, type
  <2> QED BY <2>1, <2>2
<1>16. [m EXCEPT !.originalID = id, !.jobType = type, !.contentType = slot.event.dataContentType] = meta
  <2> DEFINE ct == slot.event.dataContentType
  <2>1. ct = m.contentType BY <1>9
  <2> HIDE DEF m, id, type, ct
  <2>2. m = [n \in {"originalID", "jobType", "contentType", "context", "rest"} |-> m[n]]
    BY <1>8 DEF HasFields
  <2>3. [m EXCEPT !.originalID = id, !.jobType = type, !.contentType = ct]
          = [m EXCEPT !.originalID = id, !.jobType = type]
    BY <2>1, <2>2
  <2> QED BY <2>3 DEF ct
<1>17. QueueEnvelopeOf(slot.event, slot.state) = [e EXCEPT !.metadata = meta]
  <2> DEFINE body == RestoreRetainedNil(slot.event.data, e.body.nil)
             long == [m EXCEPT !.originalID = id, !.jobType = type,
                               !.contentType = slot.event.dataContentType]
  <2>1. QueueEnvelopeOf(slot.event, slot.state) = [e EXCEPT !.body = body, !.metadata = long]
    BY <1>6 DEF QueueEnvelopeOf
  <2>2. e = [n \in {"body", "metadata", "rest"} |-> e[n]]
    BY <1>7 DEF QueueEnvelope, HasFields
  <2>3. body = e.body /\ long = meta
    BY <1>14, <1>16
  <2> HIDE DEF body, long, e, meta
  <2>4. [e EXCEPT !.body = body, !.metadata = meta] = [e EXCEPT !.metadata = meta]
    BY <2>2, <2>3
  <2> QED BY <2>1, <2>3, <2>4
<1> QED BY <1>13, <1>15, <1>17

LEMMA StreamRestores ==
  ASSUME RetainedInvariant, NEW i \in DOMAIN slots, slots[i].intact, unharmed(slots[i]),
         slots[i].conversion.adapter = "stream"
  PROVE  LET slot == slots[i] IN
         /\ StreamAccepts(slot.event, slot.state)
         /\ StreamEnvelopeOf(slot.event, slot.state) = completed(slot)
<1> DEFINE slot == slots[i]
           e == slot.conversion.envelope
           o == slot.conversion.options
           a == StreamAttributes(e, o)
           k == StreamState(e)
           context == StreamContext(e)
           version == FormatUint(e.eventVersion)
<1>1. /\ StreamEnvelope(e)
      /\ slot.state = k
      /\ \E d : /\ validData(d) /\ present(d) /\ d.bytes = e.payload
                /\ slot.sent = withData(a, d)
  BY StreamSlot
<1>2. PICK d : present(d) /\ d.bytes = e.payload /\ slot.sent = withData(a, d)
  BY <1>1
<1>3. /\ slot.sent.id = e.id /\ slot.sent.type = e.name /\ slot.sent.data = d
      /\ slot.sent.dataContentType = e.contentType /\ slot.sent.subject = encodeStreamSubject(e.stream)
      /\ slot.sent.extensions = stringAttributes(Single("eventschema", version) ++ nonEmpty(context))
  <2>1. /\ a.id = e.id /\ a.type = e.name /\ a.dataContentType = e.contentType
        /\ a.subject = encodeStreamSubject(e.stream)
        /\ a.extensions = stringAttributes(Single("eventschema", version) ++ nonEmpty(context))
    BY DEF StreamAttributes, Attributes
  <2> HIDE DEF slot, a, e, context, version
  <2> QED BY <1>2, <2>1 DEF withData
<1>4. /\ k.stream = e.stream /\ k.streamVersion = e.streamVersion /\ k.eventVersion = e.eventVersion
      /\ k.recordedAt = e.recordedAt /\ k.context = context /\ k.rest = e.rest /\ k.trust = TRUE
  BY DEF StreamState
<1>5. Validate(slot.event) = {}
  BY DEF RetainedInvariant, SlotInvariant, ValidEvent
<1>6. /\ slot.event.id = e.id /\ slot.event.type = e.name
      /\ slot.event.dataContentType = e.contentType
      /\ slot.event.subject = encodeStreamSubject(e.stream)
      /\ present(slot.event.data) /\ slot.event.data.bytes = e.payload
      /\ \A n \in {"eventschema"} \cup Range(streamNames) :
           StringExtension(slot.event, n) = StringExtension(slot.sent, n)
  BY <1>2, <1>3, UnharmedFields
<1>7. DOMAIN context = Range(streamNames)
  BY <1>1 DEF StreamEnvelope, HasFields, StreamContext
<1>8. \A n \in Range(streamNames) :
        StringExtension(slot.event, n).err = Nil /\ StringExtension(slot.event, n).value = context[n]
  <2> DEFINE sent == slot.sent
             x == Single("eventschema", version)
  <2>1. DOMAIN context \cap DOMAIN x = {}
    BY <1>7, Names DEF Single
  <2>2. sent.extensions = stringAttributes(x ++ nonEmpty(context))
    BY <1>3
  <2> HIDE DEF sent, x, context
  <2>3. \A n \in DOMAIN context :
          StringExtension(sent, n).err = Nil /\ StringExtension(sent, n).value = context[n]
    BY <2>1, <2>2, NonEmptyRead
  <2> QED BY <1>6, <1>7, <2>3 DEF sent
<1>9. StringExtension(slot.event, "eventschema").value = version
  <2> DEFINE sent == slot.sent
             y == Single("eventschema", version) ++ nonEmpty(context)
  <2>1. "eventschema" \in DOMAIN y /\ y["eventschema"] = version
    BY DEF Single, ++
  <2>2. sent.extensions = stringAttributes(y)
    BY <1>3
  <2> HIDE DEF sent, y
  <2>3. LET read == StringExtension(sent, "eventschema") IN
        IF "eventschema" \in DOMAIN y
        THEN read.value = y["eventschema"] /\ (y["eventschema"] # "" => read.err = Nil)
        ELSE read.value = "" /\ read.err = Nil
    BY <2>2, AddedStrings
  <2>4. StringExtension(sent, "eventschema").value = version
    BY <2>1, <2>3
  <2> QED BY <1>6, <2>4 DEF sent
<1>10. \A n \in Range(streamNames) :
         StreamMapped(slot.event, k, n).err = Nil /\ StreamMapped(slot.event, k, n).value = context[n]
  BY <1>4, <1>8 DEF StreamMapped, MappedString
<1>11. tenantValue(context["tenantid"]) = context["tenantid"]
  BY <1>1, <1>4, StreamKept
<1>12. validatedTenant(context["tenantid"]) = {}
  <2> DEFINE t == context["tenantid"]
  <2>1. t = tenantValue(e.context["tenantid"])
    BY <1>1, Names DEF StreamContext, StreamEnvelope, HasFields
  <2>2. validatedTenant(e.context["tenantid"]) = {}
    BY StreamSlot
  <2>3. t = "" \/ t # Nil
    BY <2>1, <2>2 DEF validatedTenant, tenantValue, When
  <2> HIDE DEF t
  <2>4. tenantValue(t) = t
    BY <1>11 DEF t
  <2>5. validatedTenant(t) = {}
    BY <2>3, <2>4 DEF validatedTenant, tenantValue, When
  <2> QED BY <2>5 DEF t
<1>13. "tenantid" \in Range(streamNames)
  BY Names
<1>14. StreamAccepts(slot.event, k)
  <2>1. /\ e.stream # <<"", "">> /\ e.streamVersion # 0 /\ e.eventVersion # 0 /\ e.recordedAt # ""
        /\ e.contentType # "" /\ ValidEncodedEvent(e.payload) /\ ValidMessageID(e.id)
    BY <1>1 DEF StreamEnvelope
  <2>2. /\ \A n \in Range(streamNames) : StreamMapped(slot.event, k, n).err = Nil
        /\ validatedTenant(StreamMapped(slot.event, k, "tenantid").value) = {}
    BY <1>10, <1>12, <1>13
  <2>3. StringExtension(slot.event, "eventschema").value = FormatUint(k.eventVersion)
    BY <1>4, <1>9
  <2> HIDE DEF slot, e, k
  <2> QED BY <1>4, <1>5, <1>6, <2>1, <2>2, <2>3 DEF StreamAccepts
<1>15. [[n \in Range(streamNames) |-> StreamMapped(slot.event, k, n).value]
          EXCEPT !["tenantid"] = tenantValue(@)] = context
  <2> DEFINE c == context
             g == [n \in Range(streamNames) |-> StreamMapped(slot.event, k, n).value]
  <2>1. c = [n \in Range(streamNames) |-> c[n]]
    BY <1>7 DEF StreamContext
  <2>2. g = [n \in Range(streamNames) |-> c[n]]
    BY <1>10
  <2>3. tenantValue(c["tenantid"]) = c["tenantid"]
    BY <1>11
  <2> HIDE DEF c, g
  <2>4. g = c
    BY <2>1, <2>2
  <2>5. [g EXCEPT !["tenantid"] = tenantValue(g["tenantid"])] = c
    BY <1>13, <2>1, <2>3, <2>4
  <2> QED BY <2>5 DEF c, g
<1>16. StreamEnvelopeOf(slot.event, k)
         = [id |-> e.id, stream |-> e.stream, eventVersion |-> e.eventVersion, name |-> e.name,
            contentType |-> e.contentType, payload |-> e.payload, context |-> context,
            streamVersion |-> e.streamVersion, recordedAt |-> e.recordedAt, rest |-> e.rest]
  <2> DEFINE g == [[n \in Range(streamNames) |-> StreamMapped(slot.event, k, n).value]
                     EXCEPT !["tenantid"] = tenantValue(@)]
  <2>1. StreamEnvelopeOf(slot.event, k)
          = [id |-> slot.event.id, stream |-> k.stream, eventVersion |-> k.eventVersion,
             name |-> slot.event.type, contentType |-> slot.event.dataContentType,
             payload |-> slot.event.data.bytes, context |-> g, streamVersion |-> k.streamVersion,
             recordedAt |-> k.recordedAt, rest |-> k.rest]
    BY DEF StreamEnvelopeOf
  <2>2. g = context BY <1>15
  <2> HIDE DEF g, context, k, slot, e
  <2> QED BY <1>4, <1>6, <2>1, <2>2
<1>17. completed(slot)
         = [id |-> e.id, stream |-> e.stream, eventVersion |-> e.eventVersion, name |-> e.name,
            contentType |-> e.contentType, payload |-> e.payload, context |-> context,
            streamVersion |-> e.streamVersion, recordedAt |-> e.recordedAt, rest |-> e.rest]
  <2> DEFINE u == e
             x == context
             F == {"id", "stream", "eventVersion", "name", "contentType", "payload", "context",
                   "streamVersion", "recordedAt", "rest"}
             h == [u EXCEPT !.context = x]
  <2>1. completed(slot) = [e EXCEPT !.context["tenantid"] = tenantValue(@)]
    BY DEF completed
  <2>2. [e EXCEPT !.context["tenantid"] = tenantValue(@)] = h
    BY DEF StreamContext
  <2>3. u = [n \in F |-> u[n]]
    BY <1>1 DEF StreamEnvelope, HasFields
  <2> HIDE DEF u, x, F
  <2>4. h = [n \in F |-> IF n = "context" THEN x ELSE u[n]]
    BY <2>3
  <2>5. [n \in F |-> IF n = "context" THEN x ELSE u[n]]
          = [id |-> u.id, stream |-> u.stream, eventVersion |-> u.eventVersion, name |-> u.name,
             contentType |-> u.contentType, payload |-> u.payload, context |-> x,
             streamVersion |-> u.streamVersion, recordedAt |-> u.recordedAt, rest |-> u.rest]
    BY DEF F
  <2> HIDE DEF h
  <2> QED BY <2>1, <2>2, <2>4, <2>5 DEF u, x
<1>18. StreamEnvelopeOf(slot.event, k) = completed(slot)
  BY <1>16, <1>17
<1> QED BY <1>1, <1>14, <1>18

\* An event to which nothing the envelope represents was done gives back, with
\* the kept state, exactly the envelope that was converted: for every workload,
\* whatever bindings the event crossed and however many conversions are under
\* way (ToCloudEvent and FromCloudEvent of the four adapters).
THEOREM ThereAndBack == Spec => []RestoresEnvelope
<1>1. RetainedInvariant => RestoresEnvelope
  <2> SUFFICES ASSUME RetainedInvariant, own, unharmed(slots[result.state]),
                      ~Overridden(slots[result.state])
               PROVE  result.err = Nil /\ result.value.envelope = completed(slots[result.state])
    BY DEF RestoresEnvelope
  <2> DEFINE i == result.state
             slot == slots[i]
             adapter == slot.conversion.adapter
  <2>1. result # Nil /\ result.event = i /\ slot.intact
    BY DEF own
  <2>2. i \in DOMAIN slots /\ adapter \in {"outbox", "queue", "stream", "workflow"}
    BY <2>1, ResultSlots
  <2>3. CASE adapter = "outbox"
    <3>1. /\ OutboxAccepts(slot.event, slot.state)
          /\ OutboxEnvelopeOf(slot.event, slot.state) = completed(slot)
      BY <2>1, <2>2, <2>3, OutboxRestores
    <3> QED BY <2>1, <2>3, <3>1, ResultSlots
  <2>4. CASE adapter = "queue"
    <3>1. /\ QueueAccepts(slot.event, slot.state)
          /\ QueueEnvelopeOf(slot.event, slot.state) = completed(slot)
      BY <2>1, <2>2, <2>4, QueueRestores
    <3> QED BY <2>1, <2>4, <3>1, ResultSlots
  <2>5. CASE adapter = "stream"
    <3>1. /\ StreamAccepts(slot.event, slot.state)
          /\ StreamEnvelopeOf(slot.event, slot.state) = completed(slot)
      BY <2>1, <2>2, <2>5, StreamRestores
    <3> QED BY <2>1, <2>5, <3>1, StreamResult
  <2>6. CASE adapter = "workflow"
    <3>1. /\ WorkflowAccepts(slot.event, slot.state)
          /\ WorkflowEnvelopeOf(slot.event, slot.state) = completed(slot)
      BY <2>1, <2>2, <2>6, WorkflowRestores
    <3> QED BY <2>1, <2>6, <3>1, ResultSlots
  <2> QED BY <2>2, <2>3, <2>4, <2>5, <2>6
<1> QED BY <1>1, RetainedCorrect, PTL

-----------------------------------------------------------------------------
(* What the reports name.                                                   *)

\* Events differ in no field outside a set that has the ones they differ in.
LEMMA DiffersWithin ==
  ASSUME NEW e, NEW f, NEW S,
         e.id # f.id => Core("id") \in S, e.source # f.source => Core("source") \in S,
         e.type # f.type => Core("type") \in S,
         e.dataContentType # f.dataContentType => Core("datacontenttype") \in S,
         e.dataSchema # f.dataSchema => Core("dataschema") \in S,
         e.subject # f.subject => Core("subject") \in S, e.time # f.time => Core("time") \in S,
         e.data.bytes = f.data.bytes, present(e.data), present(f.data),
         e.data.kind # f.data.kind => DataKindField \in S,
         \A n \in DOMAIN e.extensions \cup DOMAIN f.extensions :
           extensionOf(e, n) # extensionOf(f, n) => Ext(n) \in S
  PROVE  differs(e, f) \subseteq S
<1>1. changed(e, f) \ {Core("data")} \subseteq S
  <2> SUFFICES ASSUME NEW x \in changed(e, f), x # Core("data") PROVE x \in S
    OBVIOUS
  <2>1. CASE x \in {Ext(n) : n \in {m \in DOMAIN e.extensions \cup DOMAIN f.extensions :
                                       extensionOf(e, m) # extensionOf(f, m)}}
    BY <2>1
  <2>2. CASE x \notin {Ext(n) : n \in {m \in DOMAIN e.extensions \cup DOMAIN f.extensions :
                                          extensionOf(e, m) # extensionOf(f, m)}}
    BY <2>2 DEF changed, When
  <2> QED BY <2>1, <2>2
<1>2. When(e.data.bytes # f.data.bytes \/ present(e.data) # present(f.data), Core("data")) = {}
  BY DEF When
<1>3. When(e.data.kind # f.data.kind, DataKindField) \subseteq S
  BY DEF When
<1> QED BY <1>1, <1>2, <1>3 DEF differs

\* Extensions that are read without an error and alike are alike.
LEMMA SameRead ==
  ASSUME NEW e, NEW f, NEW n,
         StringExtension(e, n).err = Nil, StringExtension(f, n).err = Nil,
         StringExtension(e, n).value = StringExtension(f, n).value
  PROVE  extensionOf(e, n) = extensionOf(f, n)
<1>1. \A g : StringExtension(g, n).err = Nil =>
             IF n \in DOMAIN g.extensions
             THEN /\ extensionOf(g, n) = {Attribute("string", StringExtension(g, n).value)}
                  /\ StringExtension(g, n).value # ""
             ELSE extensionOf(g, n) = {} /\ StringExtension(g, n).value = ""
  <2> SUFFICES ASSUME NEW g, StringExtension(g, n).err = Nil
               PROVE  IF n \in DOMAIN g.extensions
                      THEN /\ extensionOf(g, n) = {Attribute("string", StringExtension(g, n).value)}
                           /\ StringExtension(g, n).value # ""
                      ELSE extensionOf(g, n) = {} /\ StringExtension(g, n).value = ""
    OBVIOUS
  <2>1. CASE n \in DOMAIN g.extensions
    <3> DEFINE x == g.extensions[n]
    <3>1. x.kind = "string" /\ x.text # "" /\ StringExtension(g, n).value = x.text
      BY <2>1, ErrorsAreNotNil DEF StringExtension
    <3>2. extensionOf(g, n) = {Attribute(x.kind, x.text)}
      BY <2>1 DEF extensionOf
    <3> QED BY <2>1, <3>1, <3>2
  <2>2. CASE n \notin DOMAIN g.extensions
    <3>1. extensionOf(g, n) = {}
      BY <2>2 DEF extensionOf
    <3>2. StringExtension(g, n).value = ""
      BY <2>2 DEF StringExtension
    <3> QED BY <2>2, <3>1, <3>2
  <2> QED BY <2>1, <2>2
<1>2. n \in DOMAIN e.extensions <=> n \in DOMAIN f.extensions
  BY <1>1
<1> QED BY <1>1, <1>2

\* Whether a slice is nil or not, its bytes are the event's.
LEMMA SliceBytes ==
  ASSUME NEW d, NEW b, NEW nil, RestoreRetainedNil(d, nil) = RestoreRetainedNil(b, nil)
  PROVE  d.bytes = b.bytes
  BY DEF RestoreRetainedNil, NilSlice, Slice

\* The kind of data that does not come back is reported.
LEMMA KindReported ==
  ASSUME NEW e, NEW f, NEW kept, present(e.data), present(f.data), e.data.kind # f.data.kind,
         kept => e.dataContentType = f.dataContentType, kept \in BOOLEAN
  PROVE  DataKindField \in AppendDataKindLoss(e, kept) \cup AppendDataKindLoss(f, kept)
<1>1. CASE kept = TRUE
  BY <1>1 DEF AppendDataKindLoss, When
<1>2. CASE kept = FALSE
  BY <1>2 DEF AppendDataKindLoss, When
<1> QED BY <1>1, <1>2

\* Two events that give one outbox envelope under one state.
LEMMA OutboxLosses ==
  ASSUME NEW e, NEW f, NEW state, {"id", "payload"} \subseteq DOMAIN state,
         OutboxAccepts(e, state), OutboxAccepts(f, state),
         OutboxEnvelopeOf(e, state) = OutboxEnvelopeOf(f, state)
  PROVE  differs(e, f) \subseteq OutboxReport(e) \cup OutboxReport(f)
<1> DEFINE S == OutboxReport(e) \cup OutboxReport(f)
<1>1. e.id = f.id /\ e.data.bytes = f.data.bytes
  <2>1. \A g : /\ OutboxEnvelopeOf(g, state).id = g.id
               /\ OutboxEnvelopeOf(g, state).payload = RestoreRetainedNil(g.data, state.payload.nil)
    BY DEF OutboxEnvelopeOf
  <2>2. RestoreRetainedNil(e.data, state.payload.nil) = RestoreRetainedNil(f.data, state.payload.nil)
    BY <2>1
  <2>3. e.data.bytes = f.data.bytes
    BY <2>2, SliceBytes
  <2> QED BY <2>1, <2>3
<1>2. present(e.data) /\ present(f.data)
  BY DEF OutboxAccepts
<1>3. Core("source") \in S /\ Core("type") \in S
  BY DEF OutboxReport
<1>4. /\ e.dataContentType # f.dataContentType => Core("datacontenttype") \in S
      /\ e.dataSchema # f.dataSchema => Core("dataschema") \in S
      /\ e.subject # f.subject => Core("subject") \in S
      /\ e.time # f.time => Core("time") \in S
  BY DEF OutboxReport, AppendOptionalContextLosses, When
<1>5. e.data.kind # f.data.kind => DataKindField \in S
  <2>1. e.data.kind # f.data.kind =>
          DataKindField \in AppendDataKindLoss(e, FALSE) \cup AppendDataKindLoss(f, FALSE)
    BY <1>2, KindReported
  <2> QED BY <2>1 DEF OutboxReport
<1>6. \A n \in DOMAIN e.extensions \cup DOMAIN f.extensions : Ext(n) \in S
  BY DEF OutboxReport, AppendExtensionLosses
<1> HIDE DEF S
<1>7. differs(e, f) \subseteq S
  BY <1>1, <1>2, <1>3, <1>4, <1>5, <1>6, DiffersWithin
<1> QED BY <1>7 DEF S

\* One workflow history event.
LEMMA WorkflowLosses ==
  ASSUME NEW e, NEW f, NEW state, WorkflowAccepts(e, state), WorkflowAccepts(f, state),
         WorkflowEnvelopeOf(e, state) = WorkflowEnvelopeOf(f, state)
  PROVE  differs(e, f) \subseteq WorkflowReport(e) \cup WorkflowReport(f)
<1> DEFINE S == WorkflowReport(e) \cup WorkflowReport(f)
<1>1. /\ e.id = f.id /\ e.subject = f.subject /\ e.time = f.time /\ e.data.bytes = f.data.bytes
      /\ parseEventType(e.type) = parseEventType(f.type)
  <2>1. \A g : /\ WorkflowEnvelopeOf(g, state).instance = g.subject
               /\ WorkflowEnvelopeOf(g, state).occurredAt = g.time
               /\ WorkflowEnvelopeOf(g, state).kind = parseEventType(g.type)
               /\ WorkflowEnvelopeOf(g, state).data = RestoreRetainedNil(g.data, state.dataWasNil)
    BY DEF WorkflowEnvelopeOf
  <2>2. RestoreRetainedNil(e.data, state.dataWasNil) = RestoreRetainedNil(f.data, state.dataWasNil)
    BY <2>1
  <2>3. e.id = f.id
    BY DEF WorkflowAccepts
  <2>4. e.data.bytes = f.data.bytes
    BY <2>2, SliceBytes
  <2> QED BY <2>1, <2>3, <2>4
<1>2. e.type = f.type
  <2>1. parseEventType(e.type) # Nil /\ parseEventType(f.type) # Nil
    BY DEF WorkflowAccepts
  <2>2. \A t : parseEventType(t) # Nil => t = eventType(parseEventType(t))
    BY DEF parseEventType
  <2> QED BY <1>1, <2>1, <2>2
<1>3. present(e.data) /\ present(f.data)
  BY DEF WorkflowAccepts
<1>4. /\ e.source # f.source => Core("source") \in S
      /\ e.dataContentType # f.dataContentType => Core("datacontenttype") \in S
      /\ e.dataSchema # f.dataSchema => Core("dataschema") \in S
  BY DEF WorkflowReport, When
<1>5. e.data.kind # f.data.kind => DataKindField \in S
  <2>1. e.data.kind # f.data.kind =>
          DataKindField \in AppendDataKindLoss(e, FALSE) \cup AppendDataKindLoss(f, FALSE)
    BY <1>3, KindReported
  <2> QED BY <2>1 DEF WorkflowReport
<1>6. \A n \in DOMAIN e.extensions \cup DOMAIN f.extensions : Ext(n) \in S
  BY DEF WorkflowReport, AppendExtensionLosses
<1> HIDE DEF S
<1>7. differs(e, f) \subseteq S
  BY <1>1, <1>2, <1>3, <1>4, <1>5, <1>6, DiffersWithin
<1> QED BY <1>7 DEF S

\* One queue message.
LEMMA QueueLosses ==
  ASSUME NEW e, NEW f, NEW state, {"body", "metadata"} \subseteq DOMAIN state,
         {"originalID", "jobType", "contentType"} \subseteq DOMAIN queueMetadata(state),
         QueueAccepts(e, state), QueueAccepts(f, state),
         QueueEnvelopeOf(e, state) = QueueEnvelopeOf(f, state)
  PROVE  differs(e, f) \subseteq QueueReport(e) \cup QueueReport(f)
<1> DEFINE S == QueueReport(e) \cup QueueReport(f)
           m == queueMetadata(state)
<1>1. /\ e.id = f.id /\ e.type = f.type /\ e.dataContentType = f.dataContentType
      /\ e.data.bytes = f.data.bytes
  <2> DEFINE meta(g) == [m EXCEPT !.originalID = g.id, !.jobType = g.type,
                                  !.contentType = g.dataContentType]
             body(g) == RestoreRetainedNil(g.data, state.body.nil)
  <2>1. \A g : /\ QueueEnvelopeOf(g, state).metadata = meta(g)
               /\ QueueEnvelopeOf(g, state).body = body(g)
    BY DEF QueueEnvelopeOf
  <2>2. \A g : meta(g).originalID = g.id /\ meta(g).jobType = g.type
               /\ meta(g).contentType = g.dataContentType
    <3> HIDE DEF m
    <3> QED BY DEF m
  <2> HIDE DEF meta
  <2>3. meta(e) = meta(f) /\ body(e) = body(f)
    BY <2>1
  <2>4. e.data.bytes = f.data.bytes
    BY <2>3, SliceBytes
  <2>5. e.id = f.id /\ e.type = f.type /\ e.dataContentType = f.dataContentType
    BY <2>2, <2>3
  <2> QED BY <2>4, <2>5
<1>2. present(e.data) /\ present(f.data) /\ Verified(e, m) /\ Verified(f, m)
  BY DEF QueueAccepts
<1>3. /\ e.source # f.source => Core("source") \in S
      /\ e.dataSchema # f.dataSchema => Core("dataschema") \in S
      /\ e.subject # f.subject => Core("subject") \in S
      /\ e.time # f.time => Core("time") \in S
  BY DEF QueueReport, AppendOptionalContextLosses, When
<1>4. e.data.kind # f.data.kind => DataKindField \in S
  <2>1. e.data.kind # f.data.kind =>
          DataKindField \in AppendDataKindLoss(e, TRUE) \cup AppendDataKindLoss(f, TRUE)
    BY <1>1, <1>2, KindReported
  <2> QED BY <2>1 DEF QueueReport
<1>5. \A n \in Range(queueNames) : extensionOf(e, n) = extensionOf(f, n)
  <2> HIDE DEF m
  <2> TAKE n \in Range(queueNames)
  <2>1. /\ StringExtension(e, n).err = Nil /\ StringExtension(f, n).err = Nil
        /\ StringExtension(e, n).value = StringExtension(f, n).value
    BY <1>2 DEF Verified
  <2> QED BY <2>1, SameRead
<1>6. \A n \in (DOMAIN e.extensions \cup DOMAIN f.extensions) \ Range(queueNames) : Ext(n) \in S
  BY DEF QueueReport, AppendExtensionLosses
<1>7. \A n \in DOMAIN e.extensions \cup DOMAIN f.extensions :
        extensionOf(e, n) # extensionOf(f, n) => Ext(n) \in S
  BY <1>5, <1>6
<1> HIDE DEF S
<1>8. differs(e, f) \subseteq S
  BY <1>1, <1>2, <1>3, <1>4, <1>7, DiffersWithin
<1> QED BY <1>8 DEF S

\* One event-sourcing message.
LEMMA StreamLosses ==
  ASSUME NEW e, NEW f, NEW state, FormatUint(state.eventVersion) # "",
         StreamAccepts(e, state), StreamAccepts(f, state),
         StreamEnvelopeOf(e, state) = StreamEnvelopeOf(f, state)
  PROVE  differs(e, f) \subseteq StreamReport(e) \cup StreamReport(f) \cup respelledTenant(e, f)
<1> DEFINE S == StreamReport(e) \cup StreamReport(f) \cup respelledTenant(e, f)
           context(g) == [[n \in Range(streamNames) |-> StreamMapped(g, state, n).value]
                            EXCEPT !["tenantid"] = tenantValue(@)]
           value(g, n) == StringExtension(g, n).value
<1>1. /\ e.id = f.id /\ e.type = f.type /\ e.dataContentType = f.dataContentType
      /\ e.data.bytes = f.data.bytes /\ e.subject = f.subject /\ context(e) = context(f)
  <2>1. \A g : /\ StreamEnvelopeOf(g, state).id = g.id
               /\ StreamEnvelopeOf(g, state).name = g.type
               /\ StreamEnvelopeOf(g, state).contentType = g.dataContentType
               /\ StreamEnvelopeOf(g, state).payload = g.data.bytes
               /\ StreamEnvelopeOf(g, state).context = context(g)
    BY DEF StreamEnvelopeOf
  <2>2. e.subject = f.subject
    BY DEF StreamAccepts
  <2> HIDE DEF context
  <2> QED BY <2>1, <2>2
<1>2. present(e.data) /\ present(f.data)
  BY DEF StreamAccepts
<1>3. /\ e.source # f.source => Core("source") \in S
      /\ e.dataSchema # f.dataSchema => Core("dataschema") \in S
      /\ e.time # f.time => Core("time") \in S
  BY DEF StreamReport, When
<1>4. e.data.kind # f.data.kind => DataKindField \in S
  <2>1. e.data.kind # f.data.kind =>
          DataKindField \in AppendDataKindLoss(e, TRUE) \cup AppendDataKindLoss(f, TRUE)
    BY <1>1, <1>2, KindReported
  <2> QED BY <2>1 DEF StreamReport
<1>5. \A g, n : StreamMapped(g, state, n).err = Nil =>
        StringExtension(g, n).err = Nil /\ StreamMapped(g, state, n).value = value(g, n)
  BY ErrorsAreNotNil DEF StreamMapped, MappedString
<1>6. \A n \in Range(streamNames) :
        StringExtension(e, n).err = Nil /\ StringExtension(f, n).err = Nil
  BY <1>5 DEF StreamAccepts
<1>7. ASSUME NEW g, StreamAccepts(g, state), NEW n \in Range(streamNames)
      PROVE  context(g)[n] = (IF n = "tenantid" THEN tenantValue(value(g, n)) ELSE value(g, n))
  <2>1. "tenantid" \in Range(streamNames)
    BY Names
  <2>2. \A k \in Range(streamNames) : StreamMapped(g, state, k).value = value(g, k)
    BY <1>5, <1>7 DEF StreamAccepts
  <2> QED BY <2>1, <2>2
<1>8. \A n \in Range(streamNames) \ {"tenantid"} : extensionOf(e, n) = extensionOf(f, n)
  <2> TAKE n \in Range(streamNames) \ {"tenantid"}
  <2>1. value(e, n) = value(f, n)
    <3> HIDE DEF context, value
    <3> QED BY <1>1, <1>7
  <2> QED BY <1>6, <2>1, SameRead
<1>9. extensionOf(e, "eventschema") = extensionOf(f, "eventschema")
  <2>1. value(e, "eventschema") = value(f, "eventschema") /\ value(e, "eventschema") # ""
    BY DEF StreamAccepts
  <2>2. \A g : value(g, "eventschema") # "" => StringExtension(g, "eventschema").err = Nil
    BY DEF StringExtension
  <2>3. /\ StringExtension(e, "eventschema").err = Nil
        /\ StringExtension(f, "eventschema").err = Nil
    <3> HIDE DEF value
    <3> QED BY <2>1, <2>2
  <2> QED BY <2>1, <2>3, SameRead
<1>10. extensionOf(e, "tenantid") # extensionOf(f, "tenantid") => Ext("tenantid") \in S
  <2> SUFFICES ASSUME extensionOf(e, "tenantid") # extensionOf(f, "tenantid")
               PROVE  Ext("tenantid") \in respelledTenant(e, f)
    OBVIOUS
  <2> DEFINE v == value(e, "tenantid")
             w == value(f, "tenantid")
  <2>1. "tenantid" \in Range(streamNames) BY Names
  <2>2. tenantValue(v) = tenantValue(w)
    <3> HIDE DEF context, value
    <3> QED BY <1>1, <1>7, <2>1
  <2>3. v # w
    BY <1>6, <2>1, SameRead
  <2>4. validatedTenant(v) = {} /\ validatedTenant(w) = {}
    BY <1>5, <2>1 DEF StreamAccepts
  <2> HIDE DEF v, w
  <2>5. (v = "" \/ ParseTenantID(v) # Nil) /\ (w = "" \/ ParseTenantID(w) # Nil)
    BY <2>4 DEF validatedTenant, When
  <2>6. tenantValue(v) # Nil
    BY <2>5, NilAssumption DEF tenantValue
  <2> QED BY <2>2, <2>6 DEF respelledTenant, When, v, w
<1>11. \A n \in (DOMAIN e.extensions \cup DOMAIN f.extensions)
                \ ({"eventschema"} \cup Range(streamNames)) : Ext(n) \in S
  BY DEF StreamReport, AppendExtensionLosses
<1>12. \A n \in DOMAIN e.extensions \cup DOMAIN f.extensions :
         extensionOf(e, n) # extensionOf(f, n) => Ext(n) \in S
  BY <1>8, <1>9, <1>10, <1>11
<1> HIDE DEF S
<1>13. differs(e, f) \subseteq S
  BY <1>1, <1>2, <1>3, <1>4, <1>12, DiffersWithin
<1> QED BY <1>13 DEF S

\* What every state of an adapter has, whether the service forgot or not.
LEMMA StateFields ==
  ASSUME RetainedInvariant, NEW i \in DOMAIN slots
  PROVE  LET adapter == slots[i].conversion.adapter
             state   == slots[i].state
         IN  /\ adapter = "outbox" => {"id", "payload"} \subseteq DOMAIN state
             /\ adapter = "queue" =>
                  /\ {"body", "metadata"} \subseteq DOMAIN state
                  /\ {"originalID", "jobType", "contentType"} \subseteq DOMAIN queueMetadata(state)
             /\ adapter = "stream" => FormatUint(state.eventVersion) # ""
<1> DEFINE slot == slots[i]
           c == slot.conversion
           e == c.envelope
           state == slot.state
<1>1. c \in work.conversions /\ workload \in DOMAIN Workloads /\ Kept(slot)
  BY DEF RetainedInvariant, SlotInvariant
<1>2. PICK r \in to(c) :
        /\ r.err = Nil
        /\ slot.intact => state = r.value.state
        /\ ~slot.intact => \E trust \in BOOLEAN : state = owned(c.adapter, r.value.state, trust)
  BY <1>1 DEF Kept
<1>3. CASE c.adapter = "outbox"
  <2>1. r \in OutboxTo(e, c.options) BY <1>3 DEF to
  <2>2. PICK d : /\ validData(d) /\ present(d) /\ d.bytes = e.payload.bytes
                 /\ validateAttributes(OutboxAttributes(e, c.options)) = {}
                 /\ r.value = [event |-> withData(OutboxAttributes(e, c.options), d), state |-> e]
    BY <1>2, <2>1, OutboxToResult
  <2>3. r.value.state = e BY <2>2
  <2>4. \A trust : owned(c.adapter, e, trust) = [e EXCEPT !.id = ""]
    BY <1>3 DEF owned
  <2>5. state = e \/ state = [e EXCEPT !.id = ""]
    BY <1>2, <2>3, <2>4
  <2>6. DOMAIN e = {"id", "topic", "version", "payload", "rest"}
    BY <1>1, <1>3, Conversions DEF OutboxEnvelope, HasFields
  <2> HIDE DEF e, state
  <2>7. DOMAIN state = {"id", "topic", "version", "payload", "rest"}
    BY <2>5, <2>6
  <2> QED BY <1>3, <2>7 DEF state
<1>4. CASE c.adapter = "queue"
  <2>1. r \in QueueTo(e, c.options) BY <1>4 DEF to
  <2>2. PICK d : /\ validData(d) /\ present(d) /\ d.bytes = e.body.bytes
                 /\ validateAttributes(QueueAttributes(e, c.options)) = {}
                 /\ r.value = [event |-> withData(QueueAttributes(e, c.options), d), state |-> e]
    BY <1>2, <2>1, QueueToResult
  <2>3. r.value.state = e BY <2>2
  <2>4. \A trust : owned(c.adapter, e, trust) = [e EXCEPT !.metadata = Nil]
    BY <1>4 DEF owned
  <2>5. state = e \/ state = [e EXCEPT !.metadata = Nil]
    BY <1>2, <2>3, <2>4
  <2>6. DOMAIN e = {"body", "metadata", "rest"} /\ QueueEnvelope(e)
    BY <1>1, <1>4, Conversions DEF QueueEnvelope, HasFields
  <2>7. DOMAIN queueMetadata(e) = {"originalID", "jobType", "contentType", "context", "rest"}
    BY <2>6, QueueMetadata DEF HasFields
  <2> HIDE DEF e, state
  <2>8. DOMAIN state = {"body", "metadata", "rest"}
    BY <2>5, <2>6
  <2>9. DOMAIN EmptyMetadata = {"originalID", "jobType", "contentType", "context", "rest"}
    BY DEF EmptyMetadata
  <2>10. state # e => state.metadata = Nil
    BY <2>5, <2>6
  <2>11. DOMAIN queueMetadata(state) = {"originalID", "jobType", "contentType", "context", "rest"}
    BY <2>7, <2>9, <2>10 DEF queueMetadata
  <2> QED BY <1>4, <2>8, <2>11 DEF state
<1>5. CASE c.adapter = "stream"
  <2>1. /\ StreamEnvelope(e)
        /\ slot.intact => state = StreamState(e)
        /\ ~slot.intact =>
             \E trust \in BOOLEAN :
               state = [StreamState(e) EXCEPT !.context = [n \in DOMAIN @ |-> ""], !.trust = trust]
    BY <1>5, StreamSlot
  <2>2. FormatUint(e.eventVersion) # ""
    BY <2>1 DEF StreamEnvelope
  <2> HIDE DEF e, state, slot
  <2>3. state.eventVersion = e.eventVersion
    <3>1. CASE slot.intact
      BY <2>1, <3>1 DEF StreamState
    <3>2. CASE ~slot.intact
      BY <2>1, <3>2 DEF StreamState
    <3> QED BY <3>1, <3>2
  <2> QED BY <1>5, <2>2, <2>3 DEF state, slot
<1> QED BY <1>1, <1>3, <1>4, <1>5

\* However the event is edited, two events of one envelope differ only in fields
\* a report names or in the spelling of the tenant (FromCloudEvent's Losses).
THEOREM ReportsAreComplete == Spec => []LossesAreComplete
<1>1. RetainedInvariant => LossesAreComplete
  <2> SUFFICES ASSUME RetainedInvariant, result # Nil, result.err = Nil, NEW f,
                      NEW q \in from(slots[result.state].conversion.adapter, f,
                                     slots[result.state].state),
                      q.err = Nil, q.value.envelope = result.value.envelope
               PROVE  differs(slots[result.event].event, f) \subseteq
                        result.value.report \cup q.value.report
                        \cup respelledTenant(slots[result.event].event, f)
    BY DEF LossesAreComplete
  <2> DEFINE adapter == slots[result.state].conversion.adapter
             event == slots[result.event].event
             state == slots[result.state].state
  <2>1. /\ result.state \in DOMAIN slots
        /\ adapter \in {"outbox", "queue", "stream", "workflow"}
    BY ResultSlots
  <2>2. PICK r \in from(adapter, event, state) : result.value = r.value /\ result.err = r.err
    BY DEF RetainedInvariant, ResultInvariant
  <2>3. r.err = Nil /\ q.value.envelope = r.value.envelope
    BY <2>2
  <2>4. SUFFICES differs(event, f) \subseteq
                   r.value.report \cup q.value.report \cup respelledTenant(event, f)
    BY <2>2
  <2>5. /\ adapter = "outbox" => {"id", "payload"} \subseteq DOMAIN state
        /\ adapter = "queue" =>
             /\ {"body", "metadata"} \subseteq DOMAIN state
             /\ {"originalID", "jobType", "contentType"} \subseteq DOMAIN queueMetadata(state)
        /\ adapter = "stream" => FormatUint(state.eventVersion) # ""
    BY <2>1, StateFields
  <2>6. q \in from(adapter, f, state)
    OBVIOUS
  <2> HIDE DEF adapter, event, state
  <2>7. CASE adapter = "outbox"
    <3>1. r \in OutboxFrom(event, state) /\ q \in OutboxFrom(f, state)
      BY <2>2, <2>6, <2>7 DEF from
    <3>2. /\ OutboxAccepts(event, state) /\ r.value.envelope = OutboxEnvelopeOf(event, state)
          /\ r.value.report = OutboxReport(event)
      BY <2>3, <3>1, OutboxFromResult
    <3>3. /\ OutboxAccepts(f, state) /\ q.value.envelope = OutboxEnvelopeOf(f, state)
          /\ q.value.report = OutboxReport(f)
      BY <3>1, OutboxFromResult
    <3>4. differs(event, f) \subseteq OutboxReport(event) \cup OutboxReport(f)
      BY <2>3, <2>5, <2>7, <3>2, <3>3, OutboxLosses
    <3> QED BY <3>2, <3>3, <3>4
  <2>8. CASE adapter = "queue"
    <3>1. r \in QueueFrom(event, state) /\ q \in QueueFrom(f, state)
      BY <2>2, <2>6, <2>8 DEF from
    <3>2. /\ QueueAccepts(event, state) /\ r.value.envelope = QueueEnvelopeOf(event, state)
          /\ r.value.report = QueueReport(event)
      BY <2>3, <3>1, QueueFromResult
    <3>3. /\ QueueAccepts(f, state) /\ q.value.envelope = QueueEnvelopeOf(f, state)
          /\ q.value.report = QueueReport(f)
      BY <3>1, QueueFromResult
    <3>4. differs(event, f) \subseteq QueueReport(event) \cup QueueReport(f)
      BY <2>3, <2>5, <2>8, <3>2, <3>3, QueueLosses
    <3> QED BY <3>2, <3>3, <3>4
  <2>9. CASE adapter = "stream"
    <3>1. r \in StreamFrom(event, state) /\ q \in StreamFrom(f, state)
      BY <2>2, <2>6, <2>9 DEF from
    <3>2. /\ StreamAccepts(event, state) /\ r.value.envelope = StreamEnvelopeOf(event, state)
          /\ r.value.report = StreamReport(event)
      BY <2>3, <3>1, StreamFromResult
    <3>3. /\ StreamAccepts(f, state) /\ q.value.envelope = StreamEnvelopeOf(f, state)
          /\ q.value.report = StreamReport(f)
      BY <3>1, StreamFromResult
    <3>4. differs(event, f) \subseteq
            StreamReport(event) \cup StreamReport(f) \cup respelledTenant(event, f)
      BY <2>3, <2>5, <2>9, <3>2, <3>3, StreamLosses
    <3> QED BY <3>2, <3>3, <3>4
  <2>10. CASE adapter = "workflow"
    <3>1. r \in WorkflowFrom(event, state) /\ q \in WorkflowFrom(f, state)
      BY <2>2, <2>6, <2>10 DEF from
    <3>2. /\ WorkflowAccepts(event, state) /\ r.value.envelope = WorkflowEnvelopeOf(event, state)
          /\ r.value.report = WorkflowReport(event)
      BY <2>3, <3>1, WorkflowFromResult
    <3>3. /\ WorkflowAccepts(f, state) /\ q.value.envelope = WorkflowEnvelopeOf(f, state)
          /\ q.value.report = WorkflowReport(f)
      BY <3>1, WorkflowFromResult
    <3>4. differs(event, f) \subseteq WorkflowReport(event) \cup WorkflowReport(f)
      BY <2>3, <3>2, <3>3, WorkflowLosses
    <3> QED BY <3>2, <3>3, <3>4
  <2> QED BY <2>1, <2>7, <2>8, <2>9, <2>10 DEF adapter
<1> QED BY <1>1, RetainedCorrect, PTL
=============================================================================
