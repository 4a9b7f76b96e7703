-------------------------- MODULE SchemaValidation --------------------------
(***************************************************************************)
(* Explicit schema validation: ValidateSchema (schema.go) over the         *)
(* schema-registry validator, which resolves an allowlisted lookup and     *)
(* decodes the data under one deadline, or over the jsonschema validator,  *)
(* which holds one compiled schema.  Goroutines share a validator; the     *)
(* registry publishes schemas and may answer with an older one; the caller *)
(* that configured the validator goes on using its map.                    *)
(*                                                                         *)
(* Assumption on collaborators, from JSONSchemaConfig.Timeout ("must       *)
(* cooperate"): the registry cache, the decoder and the compiled schema    *)
(* return once the context they were given is done.  They may fail or      *)
(* answer at any time before, also when it is done already.                *)
(***************************************************************************)
EXTENDS AdapterHelpers

CONSTANTS
  Goroutines,  \* who calls ValidateSchema
  Events,      \* the events they call it with
  URIs,        \* dataschema URIs a configuration may map
  Lookups,     \* registry lookups
  Schemas,     \* [format, accepts]: what a registry may hold
  Timeout      \* JSONSchemaConfig.Timeout, in ticks

ASSUME TimeoutAssumption == Timeout \in Nat

ErrContextRequired         == "ErrContextRequired"
ErrSchemaValidatorRequired == "ErrSchemaValidatorRequired"
ErrSchemaRequired          == "ErrSchemaRequired"
ErrDataRequired            == "ErrDataRequired"
ErrSchemaMapping           == "ErrSchemaMapping"
ErrSchemaViolation         == "ErrSchemaViolation"
ErrContext                 == "context error"
ErrCollaborator            == "error of a collaborator"

SchemaErrors == {ErrContextRequired, ErrSchemaValidatorRequired, ErrInvalidEvent, ErrSchemaRequired,
                 ErrDataRequired, ErrSchemaMapping, ErrSchemaViolation, ErrContext, ErrCollaborator}

ASSUME SchemaErrorAssumption == Nil \notin SchemaErrors

VARIABLES
  config,     \* the caller's SchemaLookups, a function on some URIs
  validator,  \* [kind, lookups, uri, schema], or Nil
  published,  \* by lookup, the schemas the registry has ever held for it
  calls       \* by goroutine, its call

vars == <<config, validator, published, calls>>

NoLookups == [u \in {} |-> Nil]

\* No call: no event, nothing resolved.
NoCall == [pc |-> "idle", event |-> Nil, ctx |-> "live", lookup |-> Nil, schema |-> Nil,
           elapsed |-> 0, deadline |-> Nil, err |-> Nil]

Init ==
  /\ config = NoLookups
  /\ validator = Nil
  /\ published = [l \in Lookups |-> {}]
  /\ calls = [g \in Goroutines |-> NoCall]

\* A collaborator is being asked.
Pending(call) == call.pc \in {"resolving", "decoding", "checking"}
Waiting(g) == Pending(calls[g])

-----------------------------------------------------------------------------
(* The environment.                                                         *)

\* The caller maps a URI, before or after it built a validator from the map.
CallerMaps(uri, lookup) ==
  /\ config' = [u \in DOMAIN config \cup {uri} |-> IF u = uri THEN lookup ELSE config[u]]
  /\ UNCHANGED <<validator, published, calls>>

Publish(lookup, schema) ==
  /\ published' = [published EXCEPT ![lookup] = @ \cup {schema}]
  /\ UNCHANGED <<config, validator, calls>>

Cancel(g) ==
  /\ Waiting(g)
  /\ calls[g].ctx = "live"
  /\ calls' = [calls EXCEPT ![g].ctx = "cancelled"]
  /\ UNCHANGED <<config, validator, published>>

-----------------------------------------------------------------------------
(* Construction.                                                            *)

\* A configuration without mappings or with another bad field (a nil dependency,
\* an unknown policy, an empty mapping, no timeout) gives the zero validator, which
\* maps nothing and refuses every call with ErrSchemaMapping.
NewJSONSchemaValidator(complete) ==
  /\ validator = Nil
  /\ validator' = [kind |-> "registry",
                   lookups |-> IF complete /\ Timeout > 0 THEN config ELSE NoLookups,
                   uri |-> "", schema |-> Nil]
  /\ UNCHANGED <<config, published, calls>>

\* jsonschema.Validator is a struct its caller fills in; either field may be empty.
FillValidator(uri, schema) ==
  /\ validator = Nil
  /\ validator' = [kind |-> "jsonschema", lookups |-> NoLookups, uri |-> uri, schema |-> schema]
  /\ UNCHANGED <<config, published, calls>>

\* Mutant: the caller's map is used, not a clone of it.
schemaLookupsShared == config

schemaLookups == validator.lookups

-----------------------------------------------------------------------------
(* A call of ValidateSchema up to the collaborator that may block.          *)

\* ValidateSchema's own checks.
boundaryFailures(event, ctx) ==
     When(ctx = "none", ErrContextRequired)
  ?? When(ctx = "cancelled", ErrContext)
  ?? When(validator = Nil, ErrSchemaValidatorRequired)
  ?? Validate(event)
  ?? When(event.dataSchema = "", ErrSchemaRequired)
  ?? When(~present(event.data), ErrDataRequired)

\* The checks of the two validators before they call anyone.
validatorFailures(event) ==
  CASE validator.kind = "registry" ->
            When(~IsJSONContentType(event.dataContentType), ErrSchemaMapping)
         ?? When(event.dataSchema \notin DOMAIN schemaLookups, ErrSchemaMapping)
    [] validator.kind = "jsonschema" ->
            When(validator.uri = "" \/ validator.schema = Nil \/ event.dataSchema # validator.uri,
                 ErrSchemaMapping)
         ?? When(~IsJSONContentType(event.dataContentType), ErrSchemaMapping)

finish(g, err) ==
  calls' = [calls EXCEPT ![g] = [calls[g] EXCEPT !.pc = "done", !.err = err]]

ValidateSchema(g, event, ctx) ==
  LET call == [NoCall EXCEPT !.event = event, !.ctx = ctx]
      failures == LET f == boundaryFailures(event, ctx)
                  IN  IF f # {} THEN f ELSE validatorFailures(event)
  IN  /\ calls[g].pc = "idle"
      /\ \/ /\ failures # {}
            /\ \E err \in failures :
                 calls' = [calls EXCEPT ![g] = [call EXCEPT !.pc = "done", !.err = err]]
         \/ /\ failures = {} /\ validator.kind = "registry"
            /\ calls' = [calls EXCEPT ![g] =
                 [call EXCEPT !.pc = "resolving", !.lookup = schemaLookups[event.dataSchema],
                              !.deadline = Timeout]]
         \/ /\ failures = {} /\ validator.kind = "jsonschema"
            /\ calls' = [calls EXCEPT ![g] =
                 [call EXCEPT !.pc = "checking", !.schema = validator.schema]]
      /\ UNCHANGED <<config, validator, published>>

-----------------------------------------------------------------------------
(* Collaborators answer.                                                    *)

\* Mutants: the format of the schema is not looked at; decoding gets a deadline
\* of its own; decoding gets the caller's context.
ResolvedAnyFormat(g, schema) ==
  /\ calls[g].pc = "resolving"
  /\ schema \in published[calls[g].lookup]
  /\ calls' = [calls EXCEPT ![g] = [calls[g] EXCEPT !.pc = "decoding", !.schema = schema]]
  /\ UNCHANGED <<config, validator, published>>

ResolvedAnew(g, schema) ==
  /\ calls[g].pc = "resolving" /\ schema.format = "json"
  /\ schema \in published[calls[g].lookup]
  /\ calls' = [calls EXCEPT ![g] = [calls[g] EXCEPT !.pc = "decoding", !.schema = schema,
                                                    !.deadline = calls[g].elapsed + Timeout]]
  /\ UNCHANGED <<config, validator, published>>

ResolvedUnbounded(g, schema) ==
  /\ calls[g].pc = "resolving" /\ schema.format = "json"
  /\ schema \in published[calls[g].lookup]
  /\ calls' = [calls EXCEPT ![g] = [calls[g] EXCEPT !.pc = "decoding", !.schema = schema,
                                                    !.deadline = Nil]]
  /\ UNCHANGED <<config, validator, published>>

\* The cache resolves the lookup, perhaps to a schema since replaced; the result
\* is decoded under the same deadline if it is a JSON Schema.
Resolved(g, schema) ==
  /\ calls[g].pc = "resolving"
  /\ schema \in published[calls[g].lookup]
  /\ IF schema.format # "json" THEN finish(g, ErrSchemaMapping)
     ELSE calls' = [calls EXCEPT ![g] = [calls[g] EXCEPT !.pc = "decoding", !.schema = schema]]
  /\ UNCHANGED <<config, validator, published>>

\* Adapter.Decode and Schema.Validate judge the data.
Judged(g) ==
  /\ calls[g].pc \in {"decoding", "checking"}
  /\ finish(g, IF calls[g].event.data.bytes \in calls[g].schema.accepts THEN Nil
               ELSE ErrSchemaViolation)
  /\ UNCHANGED <<config, validator, published>>

CollaboratorFails(g) ==
  /\ Waiting(g)
  /\ finish(g, ErrCollaborator)
  /\ UNCHANGED <<config, validator, published>>

\* The context a collaborator was given is done.
ContextDone(g) == calls[g].ctx = "cancelled" \/ calls[g].elapsed = calls[g].deadline

\* A cooperating collaborator gives up.
GivesUp(g) ==
  /\ Waiting(g) /\ ContextDone(g)
  /\ finish(g, ErrContext)
  /\ UNCHANGED <<config, validator, published>>

\* Time passes in a call that has a deadline: while it waits, and no further than
\* a cooperating collaborator takes to notice.
Tick(g) ==
  /\ Waiting(g) /\ calls[g].deadline # Nil
  /\ ~ContextDone(g)
  /\ calls' = [calls EXCEPT ![g].elapsed = @ + 1]
  /\ UNCHANGED <<config, validator, published>>

\* The goroutine reads the answer and may call again.
Again(g) ==
  /\ calls[g].pc = "done"
  /\ calls' = [calls EXCEPT ![g] = NoCall]
  /\ UNCHANGED <<config, validator, published>>

Next ==
  \/ \E u \in URIs, l \in Lookups : CallerMaps(u, l)
  \/ \E l \in Lookups, s \in Schemas : Publish(l, s)
  \/ \E complete \in BOOLEAN : NewJSONSchemaValidator(complete)
  \/ \E u \in URIs \cup {""}, s \in Schemas \cup {Nil} : FillValidator(u, s)
  \/ \E g \in Goroutines :
       \/ \E e \in Events, c \in {"none", "live", "cancelled"} : ValidateSchema(g, e, c)
       \/ \E s \in Schemas : Resolved(g, s)
       \/ Judged(g) \/ CollaboratorFails(g) \/ GivesUp(g) \/ Tick(g) \/ Cancel(g) \/ Again(g)

\* Clocks advance, and collaborators cooperate.
Fairness == \A g \in Goroutines : WF_vars(Tick(g)) /\ WF_vars(GivesUp(g))

Spec == Init /\ [][Next]_vars
FairSpec == Spec /\ Fairness

-----------------------------------------------------------------------------
(* Properties.                                                              *)

Checked(call) ==
  (call.pc = "done" /\ call.err = Nil) =>
    /\ validator # Nil
    /\ IsJSONContentType(call.event.dataContentType)
    /\ IF validator.kind = "registry"
       THEN /\ call.event.dataSchema \in DOMAIN validator.lookups
            /\ \E s \in published[validator.lookups[call.event.dataSchema]] :
                 s.format = "json" /\ call.event.data.bytes \in s.accepts
       ELSE /\ call.event.dataSchema = validator.uri
            /\ call.event.data.bytes \in validator.schema.accepts

\* A call only ever succeeds on an event whose data a JSON Schema accepts, one
\* the registry held under the lookup to which the URI was mapped when the
\* validator was built: not a mapping added or changed later, not another
\* call's schema, and not because the deadline passed (ValidateSchema,
\* JSONSchemaValidator.Validate, jsonschema.Validator.Validate).
SuccessIsChecked == \A g \in Goroutines : Checked(calls[g])

\* Resolution and decoding together take no longer than the one timeout, with
\* collaborators that return when their context is done (JSONSchemaConfig:
\* "one shared resolution/payload-validation deadline").
OneDeadline == \A g \in Goroutines : calls[g].elapsed <= Timeout

Mappings == UNION {[D -> Lookups] : D \in SUBSET URIs}

Calls == [pc : {"idle", "resolving", "decoding", "checking", "done"}, event : Events \cup {Nil},
          ctx : {"none", "live", "cancelled"}, lookup : Lookups \cup {Nil},
          schema : Schemas \cup {Nil}, elapsed : 0..Timeout, deadline : {Nil, Timeout},
          err : {Nil} \cup SchemaErrors]

TypeOK ==
  /\ config \in Mappings
  /\ validator \in {Nil} \cup [kind : {"registry", "jsonschema"}, lookups : Mappings,
                               uri : URIs \cup {""}, schema : Schemas \cup {Nil}]
  /\ published \in [Lookups -> SUBSET Schemas]
  /\ calls \in [Goroutines -> Calls]

Admitted(call) ==
  /\ Pending(call) => validator # Nil /\ IsJSONContentType(call.event.dataContentType)
  /\ call.pc \in {"resolving", "decoding"} =>
       /\ validator.kind = "registry"
       /\ call.event.dataSchema \in DOMAIN validator.lookups
       /\ call.lookup = validator.lookups[call.event.dataSchema]
  /\ call.pc = "decoding" => call.schema \in published[call.lookup] /\ call.schema.format = "json"
  /\ call.pc = "checking" => /\ validator.kind = "jsonschema"
                             /\ call.event.dataSchema = validator.uri
                             /\ call.schema = validator.schema

\* The inductive strengthening of the properties above: while a collaborator is
\* asked, the call has been admitted under a mapping of its validator, and the
\* schema it holds is a JSON Schema the registry held for it; nothing the
\* environment does takes that back (JSONSchemaValidator.Validate).
SchemaInvariant ==
  /\ TypeOK
  /\ \A g \in Goroutines : Admitted(calls[g]) /\ Checked(calls[g])

\* A call of the registry validator returns although the registry never answers,
\* and any call returns once its context is cancelled.
CallsReturn ==
  \A g \in Goroutines :
    (calls[g].pc \in {"resolving", "decoding"} \/ (Waiting(g) /\ calls[g].ctx = "cancelled"))
      ~> calls[g].pc = "done"
=============================================================================
