----------------------------- MODULE Enrichment -----------------------------
(***************************************************************************)
(* One event on its way through several services.  Each service may add    *)
(* context with one of the metadata adapters, in any order and more than   *)
(* once, and send the event on through a binding; a service that gets an   *)
(* error goes on with the event it had.                                    *)
(***************************************************************************)
EXTENDS MetadataAdapters

CONSTANTS
  FirstEvents,  \* the events that set out
  Additions,    \* [adapter, value]: what a service may add
  Routes,       \* <<binding, mode, strict>> of a crossing
  RouteLimits   \* the limits of every receiver

adapters == {"correlation", "tenancy", "telemetry", "audit"}

\* Services start from valid events of the strings of the model.  Data that itself
\* is declared to be a CloudEvent is left to Bridge: a binding may deliver the event
\* in it, whose extensions need not be strings.
ASSUME FirstEventAssumption ==
  \A e \in FirstEvents :
    Validate(e) = {} /\ e = withData(e, e.data) /\ EventOfStrings(e) /\ ~Shadowed(e)

\* They add strings: a TenantID that was parsed, or zero; a record that is zero or
\* has, like every record of go-audit, an action and one of the outcomes.
ASSUME AdditionAssumption ==
  \A a \in Additions :
    LET v == a.value IN
    /\ a.adapter \in adapters
    /\ a.adapter = "correlation" =>
         DOMAIN v = correlationNames /\ \A n \in correlationNames : v[n] \in Strings
    /\ a.adapter = "tenancy" => v \in Strings /\ (v # "" => ParseTenantID(v) = v)
    /\ a.adapter = "telemetry" /\ v # Nil =>
         \A n \in traceNames \cap DOMAIN v : v[n] \in Strings
    /\ a.adapter = "audit" =>
         /\ v.id \in Strings /\ v.action \in Strings /\ FormatUint(v.outcome) \in Strings
         /\ DOMAIN v.context = contextNames /\ \A n \in contextNames : v.context[n] \in Strings
         /\ v.id # "" => v.action # "" /\ v.outcome \in Outcomes

ASSUME ExtensionNameAssumption ==
  correlationNames \cup traceNames \cup contextNames
    \cup {"auditid", "auditaction", "auditoutcome"} \subseteq Strings

ASSUME RouteAssumption == Routes \subseteq {"http", "kafka"} \X Modes \X BOOLEAN

VARIABLES
  event,  \* the event as it now is
  added   \* the additions that succeeded

vars == <<event, added>>

Init == event \in FirstEvents /\ added = {}

add(e, a) ==
  CASE a.adapter = "correlation" -> AddCorrelation(e, a.value)
    [] a.adapter = "tenancy"     -> AddTenant(e, a.value)
    [] a.adapter = "telemetry"   -> InjectTraceContext(e, a.value)
    [] a.adapter = "audit"       -> AddMetadata(e, a.value)

Add(a) ==
  \E r \in add(event, a) :
    /\ event' = IF r.err # Nil THEN event ELSE r.value
    /\ added' = IF r.err # Nil THEN added ELSE added \cup {a}

Cross(b, m, s) ==
  /\ \E r \in cross(b, m, s, event, RouteLimits) :
       event' = IF r.err # Nil THEN event ELSE r.value
  /\ UNCHANGED added

Next ==
  \/ \E a \in Additions : Add(a)
  \/ \E r \in Routes : Cross(r[1], r[2], r[3])

Spec == Init /\ [][Next]_vars

-----------------------------------------------------------------------------
(* Properties.                                                              *)

\* An extracting adapter has to refuse the extension n: the value a service added
\* itself (own) does not parse, or one that others put there is malformed.
Malformed(own, n, Parse(_)) ==
  IF n \in DOMAIN own /\ own[n] # "" THEN Parse(own[n]) = Nil
  ELSE \E x \in extensionOf(event, n) :
         x.kind # "string" \/ x.text = "" \/ Parse(x.text) = Nil

reads(a) ==
  CASE a.adapter = "correlation" ->
         \A r \in ExtractCorrelation(event, TRUE) :
           IF r.err # Nil THEN \E n \in correlationNames : Malformed(a.value, n, ParseID)
           ELSE \A n \in correlationNames : a.value[n] # "" => r.value[n] = ParseID(a.value[n])
    [] a.adapter = "tenancy" ->
         \A r \in ExtractTenant(event, TRUE) : r.err = Nil /\ r.value = a.value
    [] a.adapter = "telemetry" ->
         \A n \in traceNames \cap DOMAIN a.value :
           a.value[n] # "" => ExtractTraceContext(event)[n] = a.value[n]
    [] a.adapter = "audit" ->
         \A r \in ExtractMetadata(event, TRUE) :
           IF r.err # Nil
           THEN \/ \E n \in correlationNames : Malformed(a.value.context, n, ParseID)
                \/ Malformed(a.value.context, "tenantid", ParseTenantID)
           ELSE LET context == a.value.context IN
                /\ <<r.value.id, r.value.action, r.value.outcome>>
                     = <<a.value.id, a.value.action, a.value.outcome>>
                /\ \A n \in {"correlationid", "causationid"} :
                     context[n] # "" => r.value.correlation[n] = ParseID(context[n])
                /\ context["tenantid"] # "" => r.value.tenant = ParseTenantID(context["tenantid"])

\* What a service added is what any later service extracts, whatever other
\* adapters added in between and whichever bindings the event crossed; only
\* another identifier that does not parse can make the extraction fail
\* (correlation.Add and Extract, tenancy, telemetry, audit).
AdditionsSurvive == \A a \in added : reads(a)

\* An adapter that asks whether the caller trusts the event returns nothing to one
\* who does not, also where it extracts through another (correlation and tenancy
\* Extract, audit ExtractMetadata: "present metadata is never returned when trusted
\* is false").  The telemetry adapter hands the question to its caller's policy,
\* which is outside this package, and is not spoken of.
UntrustedReadsNothing ==
  /\ \A r \in ExtractCorrelation(event, FALSE) : r.err = Nil => r.value = NoValues
  /\ \A r \in ExtractTenant(event, FALSE) : r.err # Nil
  /\ \A r \in ExtractMetadata(event, FALSE) : r.err = Nil => r.value = NoMetadata

\* The events that two successful additions in a row can produce.
both(a, b) ==
  {r.value : r \in {q \in UNION {add(p.value, b) : p \in {o \in add(event, a) : o.err = Nil}}
                    : q.err = Nil}}

\* A trace state without the trace parent it belongs to: an event accepts it only
\* after another service has added the parent.
LoneState(a) ==
  /\ a.adapter = "telemetry" /\ a.value # Nil
  /\ {n \in traceNames \cap DOMAIN a.value : a.value[n] # ""} = {"tracestate"}

\* Additions commute: two services that add to the same event agree on the
\* result, and on whether both can add, whoever comes first; only a lone trace
\* state has to wait (AddStringExtensions: equal values are accepted, conflicts
\* fail; validateAttributes: a tracestate requires a traceparent).
OrderIrrelevant ==
  \A a, b \in Additions :
    \/ both(a, b) = both(b, a)
    \/ (LoneState(a) /\ both(a, b) = {}) \/ (LoneState(b) /\ both(b, a) = {})

\* No addition changes what the event already says: its core fields, its data and
\* every extension it carries (AddStringExtensions: "conflicts fail").
Preserves ==
  added' # added =>
    \A f \in changed(event, event') :
      f[1] = "extensions" /\ f[2] \notin DOMAIN event.extensions
NothingOverwritten == [][Preserves]_vars
=============================================================================
