-------------------------- MODULE EnvelopeAdapters --------------------------
(***************************************************************************)
(* The adapters that turn an envelope of another library into an event and *)
(* retained state, and back: outbox, queue, event-sourcing and workflow.   *)
(* What an adapter only carries along (topics, times, attempts...) is one  *)
(* opaque field, rest.  Checks of the other libraries are constant         *)
(* operators.  To... returns [event, state], From... [envelope, report].   *)
(***************************************************************************)
EXTENDS MetadataAdapters

CONSTANTS
  ValidJob(_),            \* job.Message.Validate of go-queue
  ValidEncodedEvent(_),   \* NewEncodedEvent of go-event-sourcing, on the payload
  ValidMessageID(_),      \* NewPendingMessage of go-event-sourcing, on the ID
  ValidHistory(_),        \* NewHistoryEvent of go-workflow
  RawURL(_)               \* base64.RawURLEncoding

ErrTarget == "error of the target library"

ASSUME TargetErrorAssumption == Nil # ErrTarget

\* Data, then an event of it, then the pair a conversion returns.
converted(failures, data, attributes, state) ==
  IF failures # {} THEN Returns(failures, Nil)
  ELSE UNION {IF d.err # Nil THEN {d}
              ELSE {[r EXCEPT !.value = IF r.err # Nil THEN Nil
                                        ELSE [event |-> @, state |-> state]]
                    : r \in NewEvent(attributes, d.value)}
              : d \in data}

restored(failures, envelope, report) ==
  Returns(failures, [envelope |-> envelope, report |-> report])

andThen(results, failures) ==
  UNION {IF r.err # Nil THEN {r} ELSE Returns(failures, r.value) : r \in results}

\* The error of the first of a sequence of steps that fails.
firstFailure(failures) ==
  LET failing == {i \in DOMAIN failures : failures[i] # {}}
  IN  IF failing = {} THEN {} ELSE failures[Min(failing)]

validatedTenant(value) ==
  When(value # "" /\ ParseTenantID(value) = Nil, ErrInvalidAdapterInput)

tenantValue(value) == IF value = "" THEN "" ELSE ParseTenantID(value)

-----------------------------------------------------------------------------
(* Outbox: an envelope is [id, topic, version, payload, rest] and is its    *)
(* own state.  The payload is a slice.                                      *)

OutboxTo(envelope, options) ==
  converted(When("" \in {envelope.id, options.source, options.type}, ErrInvalidAdapterInput),
            DataFromPayload(options.contentType, envelope.payload.bytes),
            Attributes(envelope.id, options.source, options.type, options.contentType,
                       options.schema, options.subject, options.time, <<>>),
            envelope)

OutboxFrom(event, state) ==
  restored(   When(Validate(event) # {} \/ state.topic = "" \/ state.version = 0,
                   ErrInvalidAdapterInput)
           ?? When(state.id \notin {"", event.id}, ErrMetadataCollision)
           ?? When(~present(event.data), ErrInvalidAdapterInput),
           [state EXCEPT !.id = event.id,
                         !.payload = RestoreRetainedNil(event.data, state.payload.nil)],
           {Core("source"), Core("type")}
           \cup When(event.dataContentType # "", Core("datacontenttype"))
           \cup AppendDataKindLoss(event, FALSE)
           \cup AppendOptionalContextLosses(event)
           \cup AppendExtensionLosses(event, {}))

-----------------------------------------------------------------------------
(* Queue: a message is [body, metadata, rest] and is its own state; its     *)
(* metadata is Nil or [originalID, jobType, contentType, context, rest],    *)
(* context the portable part of its tenant, correlation and trace maps.     *)

\* In the order the code goes through them.
queueNames ==
  <<"correlationid", "requestid", "causationid", "traceparent", "tracestate", "tenantid">>

EmptyMetadata ==
  [originalID |-> "", jobType |-> "", contentType |-> "",
   context |-> [n \in Range(queueNames) |-> ""], rest |-> Nil]

queueMetadata(message) == IF message.metadata = Nil THEN EmptyMetadata ELSE message.metadata

orElse(a, b) == IF a # "" THEN a ELSE b

queueExtensions(metadata) == stringAttributes(nonEmpty(metadata.context))

QueueTo(message, options) ==
  LET metadata   == queueMetadata(message)
      extensions == queueExtensions(metadata)
      id         == orElse(options.stableID, metadata.originalID)
      type       == orElse(options.type, metadata.jobType)
  IN  converted(   validatedTenant(metadata.context["tenantid"])
                ?? When(~ValidJob(message) \/ options.source = "", ErrInvalidAdapterInput)
                ?? When("" \in {id, type}, ErrInvalidAdapterInput),
                andThen(DataFromPayload(metadata.contentType, message.body.bytes),
                        When(\E n \in DOMAIN extensions : ~validAttribute(extensions[n]),
                             ErrInvalidAdapterInput)),
                Attributes(id, options.source, type, metadata.contentType, "", "",
                           options.time, extensions),
                message)

verifyExtensions(event, metadata) ==
  LET failure(n) ==
        LET read == StringExtension(event, n) IN
           When(read.err # Nil, read.err)
        ?? (IF n = "tenantid" THEN validatedTenant(read.value) ELSE {})
        ?? When(read.value # metadata.context[n], ErrMetadataCollision)
  IN     validatedTenant(metadata.context["tenantid"])
      ?? firstFailure([i \in DOMAIN queueNames |-> failure(queueNames[i])])

QueueFrom(event, state) ==
  LET metadata == queueMetadata(state)
      conflict(kept, new) == When(kept \notin {"", new}, ErrMetadataCollision)
  IN  restored(   When(Validate(event) # {} \/ ~present(event.data), ErrInvalidAdapterInput)
               ?? conflict(metadata.originalID, event.id)
               ?? conflict(metadata.jobType, event.type)
               ?? conflict(metadata.contentType, event.dataContentType)
               ?? verifyExtensions(event, metadata),
               [state EXCEPT !.body = RestoreRetainedNil(event.data, state.body.nil),
                             !.metadata = [metadata EXCEPT
                                             !.originalID = event.id,
                                             !.jobType = event.type,
                                             !.contentType = event.dataContentType]],
               {Core("source")}
               \cup AppendDataKindLoss(event, TRUE)
               \cup AppendOptionalContextLosses(event)
               \cup AppendExtensionLosses(event, Range(queueNames)))
-----------------------------------------------------------------------------
(* Event sourcing: a message is [id, stream, eventVersion, name,            *)
(* contentType, payload, context, streamVersion, recordedAt, rest], a       *)
(* stream <<type, id>>.  The state keeps what is not portable, and whether  *)
(* the caller trusts the event's context where it has none of its own.      *)

streamNames == <<"correlationid", "causationid", "tenantid", "partitionkey">>

\* Mutant: the parts of a stream are joined as they are.
encodeStreamSubjectRaw(stream) == stream[1] \o "." \o stream[2]

encodeStreamSubject(stream) == RawURL(stream[1]) \o "." \o RawURL(stream[2])

StreamTo(message, options) ==
  LET tenant   == message.context["tenantid"]
      context  == [message.context EXCEPT !["tenantid"] = tenantValue(@)]
  IN  converted(When(options.source = "" \/ message.id = "", ErrInvalidAdapterInput),
                andThen(DataFromPayload(message.contentType, message.payload),
                        validatedTenant(tenant)),
                Attributes(message.id, options.source, message.name, message.contentType,
                           options.schema, encodeStreamSubject(message.stream), options.time,
                           stringAttributes(Single("eventschema", FormatUint(message.eventVersion))
                                            ++ nonEmpty(context))),
                [stream |-> message.stream, streamVersion |-> message.streamVersion,
                 eventVersion |-> message.eventVersion, recordedAt |-> message.recordedAt,
                 context |-> context, rest |-> message.rest, trust |-> TRUE])

StreamFrom(event, state) ==
  LET mapped(n) == MappedString(event, n, state.context[n], state.trust)
      context   == [[n \in Range(streamNames) |-> mapped(n).value]
                      EXCEPT !["tenantid"] = tenantValue(@)]
      failure(n) ==    When(mapped(n).err # Nil, mapped(n).err)
                    ?? (IF n = "tenantid" THEN validatedTenant(mapped(n).value) ELSE {})
      collides  == \/ event.subject # encodeStreamSubject(state.stream)
                   \/ StringExtension(event, "eventschema").value # FormatUint(state.eventVersion)
  IN  restored(   When(Validate(event) # {} \/ state.stream = <<"", "">> \/ state.streamVersion = 0
                         \/ state.eventVersion = 0 \/ state.recordedAt = "", ErrInvalidAdapterInput)
               ?? When(collides, ErrMetadataCollision)
               ?? firstFailure([i \in DOMAIN streamNames |-> failure(streamNames[i])])
               ?? When(event.dataContentType = "" \/ ~present(event.data), ErrInvalidAdapterInput)
               ?? When(~ValidEncodedEvent(event.data.bytes) \/ ~ValidMessageID(event.id), ErrTarget),
               [id |-> event.id, stream |-> state.stream, eventVersion |-> state.eventVersion,
                name |-> event.type, contentType |-> event.dataContentType,
                payload |-> event.data.bytes, context |-> context,
                streamVersion |-> state.streamVersion, recordedAt |-> state.recordedAt,
                rest |-> state.rest],
               {Core("source")}
               \cup AppendDataKindLoss(event, TRUE)
               \cup When(event.dataSchema # "", Core("dataschema"))
               \cup When(event.time # "", Core("time"))
               \cup AppendExtensionLosses(event, {"eventschema"} \cup Range(streamNames)))

-----------------------------------------------------------------------------
(* Workflow: a history event is [sequence, kind, instance, occurredAt,      *)
(* data, rest].                                                             *)

typePrefix == "golib.workflow.history."

eventType(kind) == typePrefix \o FormatUint(kind)

\* A history kind, or Nil when the type is not exactly what eventType writes.
parseEventType(value) ==
  LET n    == Len(typePrefix)
      kind == ParseUint8(SubSeq(value, n + 1, Len(value)))
  IN  IF Len(value) < n \/ SubSeq(value, 1, n) # typePrefix \/ kind = Nil THEN Nil
      ELSE IF value # eventType(kind) THEN Nil ELSE kind

WorkflowTo(history, options) ==
  converted(When(options.stableID = "" \/ options.source = "" \/ history.sequence = 0,
                 ErrInvalidAdapterInput),
            Returns({}, NewBinaryData(history.data.bytes)),
            Attributes(options.stableID, options.source, eventType(history.kind), "", "",
                       history.instance, history.occurredAt, <<>>),
            [stableID |-> options.stableID, sequence |-> history.sequence, rest |-> history.rest,
             dataWasNil |-> history.data.nil])

WorkflowFrom(event, state) ==
  LET kind    == parseEventType(event.type)
      history == [sequence |-> state.sequence, kind |-> kind, instance |-> event.subject,
                  occurredAt |-> event.time,
                  data |-> RestoreRetainedNil(event.data, state.dataWasNil),
                  rest |-> state.rest]
  IN  restored(   When(state.sequence = 0 \/ state.stableID = "" \/ event.id # state.stableID,
                       ErrInvalidAdapterInput)
               ?? When(kind = Nil, ErrInvalidAdapterInput)
               ?? When(event.subject = "" \/ event.time = "" \/ ~present(event.data),
                       ErrInvalidAdapterInput)
               ?? When(~ValidHistory(history), ErrTarget),
               history,
               {Core("source")}
               \cup When(event.dataContentType # "", Core("datacontenttype"))
               \cup When(event.dataSchema # "", Core("dataschema"))
               \cup AppendDataKindLoss(event, FALSE)
               \cup AppendExtensionLosses(event, {}))
=============================================================================
