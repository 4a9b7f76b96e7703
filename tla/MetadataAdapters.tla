-------------------------- MODULE MetadataAdapters --------------------------
(***************************************************************************)
(* The adapters that carry context in extensions: correlation, tenancy,    *)
(* telemetry and audit, each with an operation that adds and one that      *)
(* extracts.  What go-correlation, go-tenancy and strconv parse is a       *)
(* constant operator that yields Nil when it fails.                        *)
(***************************************************************************)
EXTENDS AdapterHelpers

CONSTANTS
  ParseID(_),        \* ParseCorrelationID, ParseRequestID, ParseCausationID
  ParseTenantID(_),  \* golibtenancy.ParseTenantID
  ParseUint8(_),     \* strconv.ParseUint(_, 10, 8)
  FormatUint(_),     \* strconv.FormatUint(_, 10)
  Outcomes           \* golibaudit.OutcomeSucceeded to golibaudit.OutcomeUnknown

ASSUME FormatAssumption ==
  \A n \in 0..255 : FormatUint(n) # "" /\ ParseUint8(FormatUint(n)) = n
ASSUME OutcomeAssumption == Outcomes \subseteq 1..255 /\ Nil \notin Outcomes

\* A tenant identifier is not empty and parses to itself.
ASSUME TenantAssumption ==
  \A s \in Strings : ParseTenantID(s) # Nil =>
    /\ ParseTenantID(s) \in Strings \ {""}
    /\ ParseTenantID(ParseTenantID(s)) = ParseTenantID(s)

nonEmpty(strings) ==
  LET names == {n \in DOMAIN strings : strings[n] # ""} IN [n \in names |-> strings[n]]

-----------------------------------------------------------------------------
(* Correlation.  Values are a function on the three names, "" when unset.   *)

correlationNames == {"correlationid", "requestid", "causationid"}

NoValues == [n \in correlationNames |-> ""]

AddCorrelation(event, values) == AddStringExtensions(event, nonEmpty(values))

\* Mutant: trust is only asked for when there is a correlation id.
ExtractCorrelationPartly(event, trusted) ==
  LET read == [n \in correlationNames |-> StringExtension(event, n)]
      failures ==
           When(\E n \in correlationNames : read[n].err # Nil, ErrInvalidAdapterInput)
        ?? When(read["correlationid"].value # "" /\ ~trusted, ErrUntrustedMetadata)
        ?? When(\E n \in correlationNames : read[n].value # "" /\ ParseID(read[n].value) = Nil,
                ErrInvalidAdapterInput)
  IN  Returns(failures, [n \in correlationNames |-> read[n].value])

ExtractCorrelation(event, trusted) ==
  LET read      == [n \in correlationNames |-> StringExtension(event, n)]
      found     == {n \in correlationNames : read[n].value # ""}
      parsed(n) == IF n \in found THEN ParseID(read[n].value) ELSE ""
      failures ==
           When(\E n \in correlationNames : read[n].err # Nil, ErrInvalidAdapterInput)
        ?? When(found # {} /\ ~trusted, ErrUntrustedMetadata)
        ?? When(\E n \in found : parsed(n) = Nil, ErrInvalidAdapterInput)
  IN  Returns(failures, [n \in correlationNames |-> parsed(n)])

-----------------------------------------------------------------------------
(* Tenancy.  A TenantID is a parsed one, or zero ("").                      *)

AddTenant(event, tenant) ==
  IF tenant = "" THEN Returns({ErrInvalidAdapterInput}, Nil)
  ELSE AddStringExtensions(event, Single("tenantid", tenant))

ExtractTenant(event, trusted) ==
  LET read == StringExtension(event, "tenantid")
      failures ==
           When(read.err # Nil \/ read.value = "", ErrInvalidAdapterInput)
        ?? When(~trusted, ErrUntrustedMetadata)
        ?? When(ParseTenantID(read.value) = Nil, ErrInvalidAdapterInput)
  IN  Returns(failures, ParseTenantID(read.value))

-----------------------------------------------------------------------------
(* Telemetry.  The carrier is what the policy injected; Nil stands for a    *)
(* missing context or policy.  Extraction hands the policy what it reads.   *)

traceNames == {"traceparent", "tracestate"}

InjectTraceContext(event, carrier) ==
  IF carrier = Nil THEN Returns({ErrInvalidAdapterInput}, Nil)
  ELSE AddStringExtensions(event,
         nonEmpty([n \in traceNames \cap DOMAIN carrier |-> carrier[n]]))

ExtractTraceContext(event) ==
  nonEmpty([n \in traceNames |-> StringExtension(event, n).value])

-----------------------------------------------------------------------------
(* Audit.  A record is [id, action, outcome, context], its context a        *)
(* function on the names below.                                             *)

contextNames == {"correlationid", "causationid", "tenantid"}

auditExtensions(record) ==
  LET tenant == record.context["tenantid"] IN
  [auditid |-> record.id, auditaction |-> record.action,
   auditoutcome |-> FormatUint(record.outcome)]
  ++ nonEmpty([n \in contextNames |->
       IF n = "tenantid" /\ tenant # "" THEN ParseTenantID(tenant) ELSE record.context[n]])

AddMetadata(event, record) ==
  LET tenant == record.context["tenantid"] IN
  IF record.id = "" \/ (tenant # "" /\ ParseTenantID(tenant) = Nil)
  THEN Returns({ErrInvalidAdapterInput}, Nil)
  ELSE AddStringExtensions(event, auditExtensions(record))

NoMetadata == [id |-> "", action |-> "", outcome |-> 0, correlation |-> NoValues, tenant |-> ""]

ExtractMetadata(event, trusted) ==
  LET id      == StringExtension(event, "auditid")
      action  == StringExtension(event, "auditaction")
      outcome == StringExtension(event, "auditoutcome")
      parsed  == ParseUint8(outcome.value)
      texts   == {id.value, action.value, outcome.value}
      failures ==
           When({id.err, action.err, outcome.err} # {Nil}, ErrInvalidAdapterInput)
        ?? When(texts # {""} /\ ~trusted, ErrUntrustedMetadata)
        ?? When(texts # {""} /\ "" \in texts, ErrInvalidAdapterInput)
        ?? When(texts # {""} /\ (parsed = Nil \/ parsed \notin Outcomes),
                ErrInvalidAdapterInput)
      tenants == IF "tenantid" \in DOMAIN event.extensions THEN ExtractTenant(event, TRUE)
                 ELSE Returns({}, "")
  IN  IF failures # {} THEN Returns(failures, Nil)
      ELSE IF texts = {""} THEN Returns({}, NoMetadata)
      ELSE UNION {IF c.err # Nil THEN {c}
                  ELSE {[t EXCEPT !.value =
                           IF t.err # Nil THEN Nil
                           ELSE [id |-> id.value, action |-> action.value, outcome |-> parsed,
                                 correlation |-> c.value, tenant |-> t.value]]
                        : t \in tenants}
                  : c \in ExtractCorrelation(event, TRUE)}
=============================================================================
