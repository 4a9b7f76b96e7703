---------------------------- MODULE SchemaProofs ----------------------------
(***************************************************************************)
(* Proofs that schema validation never reports success for data that no    *)
(* schema of its configuration accepted, and never outlives its one        *)
(* deadline, for any number of goroutines, schemas, mappings and events.   *)
(* The string operators of the model stay uninterpreted.                   *)
(***************************************************************************)
EXTENDS SchemaValidation, TLAPS

\* Every error of ValidateSchema's own checks is one of its errors.
LEMMA BoundaryErrors ==
  ASSUME NEW event, NEW ctx
  PROVE  boundaryFailures(event, ctx) \subseteq SchemaErrors
<1>1. Validate(event) \subseteq {ErrInvalidEvent}
  BY DEF Validate, When, ??
<1> DEFINE a == When(ctx = "none", ErrContextRequired)
           b == When(ctx = "cancelled", ErrContext)
           c == When(validator = Nil, ErrSchemaValidatorRequired)
           v == Validate(event)
           d == When(event.dataSchema = "", ErrSchemaRequired)
           f == When(~present(event.data), ErrDataRequired)
<1>2. a \cup b \cup c \cup v \cup d \cup f \subseteq SchemaErrors
  BY <1>1 DEF When, SchemaErrors
<1>3. boundaryFailures(event, ctx) = a ?? b ?? c ?? v ?? d ?? f
  BY DEF boundaryFailures
<1> HIDE DEF a, b, c, v, d, f
<1> QED BY <1>2, <1>3 DEF ??

\* So is every error of the validators' checks.
LEMMA ValidatorErrors ==
  ASSUME NEW event, validator.kind \in {"registry", "jsonschema"}
  PROVE  validatorFailures(event) \subseteq SchemaErrors
  BY DEF validatorFailures, When, ??, SchemaErrors

\* No mapping is a mapping.
LEMMA NoMapping == NoLookups \in Mappings
<1>1. NoLookups \in [{} -> Lookups] BY DEF NoLookups
<1> QED BY <1>1 DEF Mappings

\* A mapping leads to lookups.
LEMMA MappingRange ==
  ASSUME NEW f \in Mappings, NEW u \in DOMAIN f
  PROVE  f[u] \in Lookups
<1>1. PICK D \in SUBSET URIs : f \in [D -> Lookups] BY DEF Mappings
<1> QED BY <1>1

\* The state of a goroutine that makes no call.
LEMMA NoCallType == NoCall \in Calls
  BY TimeoutAssumption DEF NoCall, Calls

\* The invariant holds before anything is configured.
LEMMA InitInvariant == Init => SchemaInvariant
<1> SUFFICES ASSUME Init PROVE SchemaInvariant
  OBVIOUS
<1>3. TypeOK BY NoCallType, NoMapping DEF Init, TypeOK
<1>4. Admitted(NoCall) /\ Checked(NoCall)
  BY DEF Admitted, Checked, Pending, NoCall
<1> QED BY <1>3, <1>4 DEF Init, SchemaInvariant

\* A step of one call concerns that call alone.
LEMMA CallStep ==
  ASSUME SchemaInvariant, NEW g \in Goroutines, NEW c \in Calls, Admitted(c), Checked(c),
         calls' = [calls EXCEPT ![g] = c], UNCHANGED <<config, validator, published>>
  PROVE  SchemaInvariant'
<1>1. TypeOK' BY DEF SchemaInvariant, TypeOK
<1>2. \A d : Admitted(d) <=> Admitted(d)' BY DEF Admitted, Pending
<1>3. \A d : Checked(d) <=> Checked(d)' BY DEF Checked
<1> QED BY <1>1, <1>2, <1>3 DEF SchemaInvariant, TypeOK

\* The configuring caller's map is read only when a validator is built.
LEMMA MapStep ==
  ASSUME SchemaInvariant, NEW u \in URIs, NEW l \in Lookups, CallerMaps(u, l)
  PROVE  SchemaInvariant'
<1>1. config' \in Mappings
  <2>1. PICK D \in SUBSET URIs : config \in [D -> Lookups]
    BY DEF SchemaInvariant, TypeOK, Mappings
  <2>2. config' \in [D \cup {u} -> Lookups]
    BY <2>1 DEF CallerMaps
  <2> QED BY <2>2 DEF Mappings
<1>2. TypeOK' BY <1>1 DEF SchemaInvariant, TypeOK, CallerMaps
<1> QED BY <1>2 DEF SchemaInvariant, CallerMaps, Admitted, Checked, Pending

\* The registry only ever adds schemas to what it has held.
LEMMA PublishStep ==
  ASSUME SchemaInvariant, NEW l \in Lookups, NEW s \in Schemas, Publish(l, s)
  PROVE  SchemaInvariant'
<1>1. TypeOK' BY DEF SchemaInvariant, TypeOK, Publish
<1>2. \A m \in Lookups : published[m] \subseteq published'[m]
  BY DEF SchemaInvariant, TypeOK, Publish
<1>3. validator # Nil => validator.lookups \in Mappings
  BY DEF SchemaInvariant, TypeOK
<1>4. validator # Nil => \A u \in DOMAIN validator.lookups : validator.lookups[u] \in Lookups
  BY <1>3, MappingRange
<1>5. ASSUME NEW g \in Goroutines PROVE Admitted(calls[g])' /\ Checked(calls[g])'
  <2>1. Admitted(calls[g]) /\ Checked(calls[g]) BY DEF SchemaInvariant
  <2>2. UNCHANGED <<config, validator, calls>> BY DEF Publish
  <2>3. Admitted(calls[g])' BY <1>2, <1>4, <2>1, <2>2 DEF Admitted, Pending
  <2>4. Checked(calls[g])' BY <1>2, <1>4, <2>1, <2>2 DEF Checked
  <2> QED BY <2>3, <2>4
<1> QED BY <1>1, <1>5 DEF SchemaInvariant, Publish

\* Before there is a validator no call asks anyone and none succeeds, so any
\* validator may be installed.
LEMMA ConstructionStep ==
  ASSUME SchemaInvariant,
         \/ \E complete \in BOOLEAN : NewJSONSchemaValidator(complete)
         \/ \E u \in URIs \cup {""}, s \in Schemas \cup {Nil} : FillValidator(u, s)
  PROVE  SchemaInvariant'
<1> DEFINE Validators == [kind : {"registry", "jsonschema"}, lookups : Mappings,
                           uri : URIs \cup {""}, schema : Schemas \cup {Nil}]
<1>1. validator' \in Validators
  <2>1. ASSUME NEW complete \in BOOLEAN, NewJSONSchemaValidator(complete)
        PROVE  validator' \in Validators
    <3>1. (IF complete /\ Timeout > 0 THEN config ELSE NoLookups) \in Mappings
      BY NoMapping DEF SchemaInvariant, TypeOK
    <3> QED BY <2>1, <3>1 DEF NewJSONSchemaValidator
  <2>2. ASSUME NEW u \in URIs \cup {""}, NEW s \in Schemas \cup {Nil}, FillValidator(u, s)
        PROVE  validator' \in Validators
    BY <2>2, NoMapping DEF FillValidator
  <2> QED BY <2>1, <2>2
<1>2. TypeOK'
  BY <1>1 DEF SchemaInvariant, TypeOK, NewJSONSchemaValidator, FillValidator
<1>3. validator = Nil /\ UNCHANGED calls
  BY DEF NewJSONSchemaValidator, FillValidator
<1>4. ASSUME NEW g \in Goroutines PROVE ~Pending(calls[g]) /\ ~(calls[g].pc = "done" /\ calls[g].err = Nil)
  BY <1>3 DEF SchemaInvariant, Admitted, Checked
<1> QED BY <1>2, <1>3, <1>4 DEF SchemaInvariant, Admitted, Checked, Pending

\* ValidateSchema fails with an error, or asks a collaborator for an event its
\* validator admitted.
LEMMA ValidateStep ==
  ASSUME SchemaInvariant, NEW g \in Goroutines, NEW event \in Events,
         NEW ctx \in {"none", "live", "cancelled"}, ValidateSchema(g, event, ctx)
  PROVE  SchemaInvariant'
<1> DEFINE call == [NoCall EXCEPT !.event = event, !.ctx = ctx]
           boundary == boundaryFailures(event, ctx)
           failures == IF boundary # {} THEN boundary ELSE validatorFailures(event)
<1>0. call \in Calls /\ call.event = event
  BY NoCallType DEF Calls
<1>u. UNCHANGED <<config, validator, published>>
  BY DEF ValidateSchema
<1>1. ASSUME boundary = {} PROVE validator # Nil /\ validator.kind \in {"registry", "jsonschema"}
  <2>1. validator # Nil BY <1>1 DEF boundaryFailures, When, ??
  <2> QED BY <2>1 DEF SchemaInvariant, TypeOK
<1>2. failures \subseteq SchemaErrors
  BY <1>1, BoundaryErrors, ValidatorErrors
<1>3. ASSUME NEW err \in failures,
             calls' = [calls EXCEPT ![g] = [call EXCEPT !.pc = "done", !.err = err]]
      PROVE  SchemaInvariant'
  <2> DEFINE c == [call EXCEPT !.pc = "done", !.err = err]
  <2>1. err \in SchemaErrors /\ err # Nil BY <1>2, SchemaErrorAssumption
  <2>2. c \in Calls /\ c.pc = "done" /\ c.err = err BY <1>0, <2>1 DEF Calls
  <2>3. Admitted(c) /\ Checked(c) BY <2>1, <2>2 DEF Admitted, Checked, Pending
  <2> HIDE DEF c, call
  <2> QED BY <1>u, <1>3, <2>2, <2>3, CallStep DEF c
<1>4. ASSUME failures = {} PROVE boundary = {} /\ validatorFailures(event) = {}
  BY <1>4
<1>5. ASSUME failures = {}, validator.kind = "registry",
             calls' = [calls EXCEPT ![g] =
               [call EXCEPT !.pc = "resolving", !.lookup = schemaLookups[event.dataSchema],
                            !.deadline = Timeout]]
      PROVE  SchemaInvariant'
  <2> DEFINE c == [call EXCEPT !.pc = "resolving", !.lookup = schemaLookups[event.dataSchema],
                               !.deadline = Timeout]
  <2>1. /\ IsJSONContentType(event.dataContentType)
        /\ event.dataSchema \in DOMAIN validator.lookups
    BY <1>4, <1>5 DEF validatorFailures, When, ??, schemaLookups
  <2>2. validator # Nil BY <1>1, <1>4, <1>5
  <2>3. validator.lookups[event.dataSchema] \in Lookups
    <3>1. validator.lookups \in Mappings BY <2>2 DEF SchemaInvariant, TypeOK
    <3> QED BY <2>1, <3>1, MappingRange
  <2>4. /\ c \in Calls /\ c.pc = "resolving" /\ c.event = event
        /\ c.lookup = validator.lookups[event.dataSchema]
    BY <1>0, <2>3 DEF Calls, schemaLookups
  <2>5. Admitted(c) /\ Checked(c)
    BY <1>5, <2>1, <2>2, <2>4 DEF Admitted, Checked, Pending
  <2> HIDE DEF c, call
  <2> QED BY <1>u, <1>5, <2>4, <2>5, CallStep DEF c
<1>6. ASSUME failures = {}, validator.kind = "jsonschema",
             calls' = [calls EXCEPT ![g] = [call EXCEPT !.pc = "checking", !.schema = validator.schema]]
      PROVE  SchemaInvariant'
  <2> DEFINE c == [call EXCEPT !.pc = "checking", !.schema = validator.schema]
  <2>1. IsJSONContentType(event.dataContentType) /\ event.dataSchema = validator.uri
    BY <1>4, <1>6 DEF validatorFailures, When, ??
  <2>2. validator # Nil BY <1>1, <1>4, <1>6
  <2>3. validator.schema \in Schemas \cup {Nil} BY <2>2 DEF SchemaInvariant, TypeOK
  <2>4. /\ c \in Calls /\ c.pc = "checking" /\ c.event = event /\ c.schema = validator.schema
    BY <1>0, <2>3 DEF Calls
  <2>5. Admitted(c) /\ Checked(c)
    BY <1>6, <2>1, <2>2, <2>4 DEF Admitted, Checked, Pending
  <2> HIDE DEF c, call
  <2> QED BY <1>u, <1>6, <2>4, <2>5, CallStep DEF c
<1> QED BY <1>3, <1>5, <1>6 DEF ValidateSchema

\* The answer of a collaborator: a schema the registry held is decoded if it is
\* JSON, and only data that the schema accepts is a success.
LEMMA AnswerStep ==
  ASSUME SchemaInvariant, NEW g \in Goroutines,
         (\E s \in Schemas : Resolved(g, s)) \/ Judged(g) \/ CollaboratorFails(g) \/ GivesUp(g)
  PROVE  SchemaInvariant'
<1>1. calls[g] \in Calls /\ Admitted(calls[g]) /\ Checked(calls[g])
  BY DEF SchemaInvariant, TypeOK
<1>2. ASSUME NEW err \in {Nil} \cup SchemaErrors, finish(g, err), UNCHANGED <<config, validator, published>>,
             err = Nil => Checked([calls[g] EXCEPT !.pc = "done", !.err = err])
      PROVE  SchemaInvariant'
  <2> DEFINE c == [calls[g] EXCEPT !.pc = "done", !.err = err]
  <2>1. c \in Calls /\ c.pc = "done" /\ c.err = err BY <1>1 DEF Calls
  <2>2. Admitted(c) BY <2>1 DEF Admitted, Pending
  <2>3. Checked(c) BY <1>2, <2>1 DEF Checked
  <2>4. calls' = [calls EXCEPT ![g] = c] BY <1>2 DEF finish
  <2> HIDE DEF c
  <2> QED BY <1>2, <2>1, <2>2, <2>3, <2>4, CallStep
<1>3. ASSUME NEW s \in Schemas, Resolved(g, s) PROVE SchemaInvariant'
  <2>1. CASE s.format # "json"
    BY <1>2, <1>3, <2>1, SchemaErrorAssumption DEF Resolved, SchemaErrors
  <2>2. CASE s.format = "json"
    <3> DEFINE c == [calls[g] EXCEPT !.pc = "decoding", !.schema = s]
    <3>1. /\ c \in Calls /\ c.pc = "decoding" /\ c.schema = s
          /\ c.event = calls[g].event /\ c.lookup = calls[g].lookup
      BY <1>1 DEF Calls
    <3>2. Admitted(c) /\ Checked(c)
      BY <1>1, <1>3, <2>2, <3>1 DEF Admitted, Checked, Pending, Resolved
    <3>3. calls' = [calls EXCEPT ![g] = c] /\ UNCHANGED <<config, validator, published>>
      BY <1>3, <2>2 DEF Resolved
    <3> HIDE DEF c
    <3> QED BY <3>1, <3>2, <3>3, CallStep
  <2> QED BY <2>1, <2>2
<1>4. ASSUME Judged(g) PROVE SchemaInvariant'
  <2>1. CASE calls[g].event.data.bytes \notin calls[g].schema.accepts
    BY <1>2, <1>4, <2>1, SchemaErrorAssumption DEF Judged, SchemaErrors
  <2>2. CASE calls[g].event.data.bytes \in calls[g].schema.accepts
    <3> DEFINE c == [calls[g] EXCEPT !.pc = "done", !.err = Nil]
    <3>1. c.event = calls[g].event /\ c.pc = "done" /\ c.err = Nil
      BY <1>1 DEF Calls
    <3>2. Checked(c)
      BY <1>1, <1>4, <2>2, <3>1 DEF Admitted, Checked, Pending, Judged
    <3> QED BY <1>2, <1>4, <2>2, <3>2 DEF Judged
  <2> QED BY <2>1, <2>2
<1>5. ASSUME CollaboratorFails(g) \/ GivesUp(g) PROVE SchemaInvariant'
  BY <1>2, <1>5, SchemaErrorAssumption DEF CollaboratorFails, GivesUp, SchemaErrors
<1> QED BY <1>3, <1>4, <1>5

\* Cancellation and the clock touch nothing a call has established, and the clock
\* stops at the deadline.
LEMMA ClockStep ==
  ASSUME SchemaInvariant, NEW g \in Goroutines, Tick(g) \/ Cancel(g) \/ Again(g)
  PROVE  SchemaInvariant'
<1>1. calls[g] \in Calls /\ Admitted(calls[g]) /\ Checked(calls[g])
  BY DEF SchemaInvariant, TypeOK
<1>2. CASE Tick(g)
  <2> DEFINE c == [calls[g] EXCEPT !.elapsed = calls[g].elapsed + 1]
  <2>1. calls[g].elapsed \in 0..Timeout /\ calls[g].elapsed # Timeout
    BY <1>1, <1>2 DEF Tick, ContextDone, Calls
  <2>2. calls[g].elapsed + 1 \in 0..Timeout
    BY <2>1, TimeoutAssumption
  <2>3. /\ c \in Calls /\ c.pc = calls[g].pc /\ c.err = calls[g].err /\ c.event = calls[g].event
        /\ c.lookup = calls[g].lookup /\ c.schema = calls[g].schema
    BY <1>1, <2>2 DEF Calls
  <2>4. Admitted(c) /\ Checked(c) BY <1>1, <2>3 DEF Admitted, Checked, Pending
  <2>5. calls' = [calls EXCEPT ![g] = c] /\ UNCHANGED <<config, validator, published>>
    BY <1>2 DEF Tick, SchemaInvariant, TypeOK
  <2> HIDE DEF c
  <2> QED BY <2>3, <2>4, <2>5, CallStep
<1>3. CASE Cancel(g)
  <2> DEFINE c == [calls[g] EXCEPT !.ctx = "cancelled"]
  <2>1. /\ c \in Calls /\ c.pc = calls[g].pc /\ c.err = calls[g].err /\ c.event = calls[g].event
        /\ c.lookup = calls[g].lookup /\ c.schema = calls[g].schema
    BY <1>1 DEF Calls
  <2>2. Admitted(c) /\ Checked(c) BY <1>1, <2>1 DEF Admitted, Checked, Pending
  <2>3. calls' = [calls EXCEPT ![g] = c] /\ UNCHANGED <<config, validator, published>>
    BY <1>3 DEF Cancel, SchemaInvariant, TypeOK
  <2> HIDE DEF c
  <2> QED BY <2>1, <2>2, <2>3, CallStep
<1>4. CASE Again(g)
  <2>1. Admitted(NoCall) /\ Checked(NoCall) BY DEF Admitted, Checked, Pending, NoCall
  <2> QED BY <1>4, <2>1, NoCallType, CallStep DEF Again
<1> QED BY <1>2, <1>3, <1>4

\* Every step preserves the invariant.
LEMMA NextInvariant == SchemaInvariant /\ [Next]_vars => SchemaInvariant'
<1> SUFFICES ASSUME SchemaInvariant, [Next]_vars PROVE SchemaInvariant'
  OBVIOUS
<1>1. CASE UNCHANGED vars
  BY <1>1 DEF vars, SchemaInvariant, TypeOK, Admitted, Checked, Pending
<1>2. CASE Next
  BY <1>2, MapStep, PublishStep, ConstructionStep, ValidateStep, AnswerStep, ClockStep DEF Next
<1> QED BY <1>1, <1>2

-----------------------------------------------------------------------------
\* The inductive invariant of schema validation.
THEOREM SchemaInvariance == Spec => []SchemaInvariant
  BY InitInvariant, NextInvariant, PTL DEF Spec

\* ValidateSchema never succeeds without a JSON Schema of the configuration having
\* accepted the data, for any number of goroutines sharing one validator and
\* whatever the registry publishes or the caller maps meanwhile
\* (schema_registry.go, jsonschema.go).
THEOREM CheckedSuccess == Spec => []SuccessIsChecked
<1>1. SchemaInvariant => SuccessIsChecked BY DEF SchemaInvariant, SuccessIsChecked
<1> QED BY <1>1, SchemaInvariance, PTL

\* Resolution and decoding share one deadline, for every timeout
\* (JSONSchemaValidator.Validate).
THEOREM SharedDeadline == Spec => []OneDeadline
<1>1. ASSUME SchemaInvariant PROVE OneDeadline
  <2>1. ASSUME NEW g \in Goroutines PROVE calls[g].elapsed <= Timeout
    <3>1. calls[g] \in Calls BY <1>1 DEF SchemaInvariant, TypeOK
    <3>2. calls[g].elapsed \in 0..Timeout BY <3>1 DEF Calls
    <3> QED BY <3>2, TimeoutAssumption
  <2> QED BY <2>1 DEF OneDeadline
<1> QED BY <1>1, SchemaInvariance, PTL
=============================================================================
