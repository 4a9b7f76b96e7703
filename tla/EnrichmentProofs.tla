-------------------------- MODULE EnrichmentProofs --------------------------
(***************************************************************************)
(* Proofs about events that services enrich: for every event, every        *)
(* addition and every way the standard library treats its strings.         *)
(***************************************************************************)
EXTENDS Enrichment, CrossingLemmas

\* What the addition a puts into an event, and whether its adapter refuses it
\* before it looks at the event.
strings(a) ==
  CASE a.adapter = "correlation" -> nonEmpty(a.value)
    [] a.adapter = "tenancy"     -> Single("tenantid", a.value)
    [] a.adapter = "telemetry"   -> nonEmpty([n \in traceNames \cap DOMAIN a.value |-> a.value[n]])
    [] a.adapter = "audit"       -> auditExtensions(a.value)

Refused(a) ==
  \/ a.adapter = "tenancy" /\ a.value = ""
  \/ a.adapter = "telemetry" /\ a.value = Nil
  \/ /\ a.adapter = "audit"
     /\ LET tenant == a.value.context["tenantid"] IN
        a.value.id = "" \/ (tenant # "" /\ ParseTenantID(tenant) = Nil)

\* Every adapter adds with AddStringExtensions, or fails.
LEMMA AddIsAddition ==
  ASSUME NEW e, NEW a \in Additions
  PROVE  add(e, a) = IF Refused(a) THEN Returns({ErrInvalidAdapterInput}, Nil)
                     ELSE AddStringExtensions(e, strings(a))
<1>1. CASE a.adapter = "correlation"
  BY <1>1 DEF add, Refused, strings, AddCorrelation
<1>2. CASE a.adapter = "tenancy"
  BY <1>2 DEF add, Refused, strings, AddTenant
<1>3. CASE a.adapter = "telemetry"
  BY <1>3 DEF add, Refused, strings, InjectTraceContext
<1>4. CASE a.adapter = "audit"
  BY <1>4 DEF add, Refused, strings, AddMetadata
<1> QED BY <1>1, <1>2, <1>3, <1>4, AdditionAssumption DEF adapters

\* A successful addition enlarges the event.
LEMMA AddResult ==
  ASSUME NEW e, NEW a \in Additions, NEW r \in add(e, a)
  PROVE  /\ r.err = Nil <=> /\ ~Refused(a)
                            /\ Validate(e) = {}
                            /\ Addable(e.extensions, strings(a))
                            /\ ExtensionsValid(e.extensions ++ stringAttributes(strings(a)))
         /\ r.err = Nil => r.value = Enriched(e, strings(a))
<1>1. CASE Refused(a)
  <2>1. r \in Returns({ErrInvalidAdapterInput}, Nil) BY <1>1, AddIsAddition
  <2>2. r.err # Nil BY <2>1, ReturnsEither, ErrorsAreNotNil
  <2> QED BY <1>1, <2>2
<1>2. CASE ~Refused(a)
  <2>1. r \in AddStringExtensions(e, strings(a)) BY <1>2, AddIsAddition
  <2> QED BY <1>2, <2>1, AddStringExtensionsResult
<1> QED BY <1>1, <1>2

\* Only a lone trace state adds a tracestate without its traceparent.
LEMMA StateHasParent ==
  ASSUME NEW a \in Additions, ~LoneState(a), ~Refused(a), "tracestate" \in DOMAIN strings(a)
  PROVE  "traceparent" \in DOMAIN strings(a)
<1>1. CASE a.adapter = "correlation"
  <2>1. DOMAIN strings(a) \subseteq correlationNames
    BY <1>1, AdditionAssumption DEF strings, nonEmpty
  <2> QED BY <2>1 DEF correlationNames
<1>2. CASE a.adapter = "tenancy"
  BY <1>2 DEF strings, Single
<1>3. CASE a.adapter = "telemetry"
  <2>1. DOMAIN strings(a) = {n \in traceNames \cap DOMAIN a.value : a.value[n] # ""}
    BY <1>3 DEF strings, nonEmpty
  <2>2. a.value # Nil BY <1>3 DEF Refused
  <2>3. DOMAIN strings(a) \subseteq {"traceparent", "tracestate"} /\ DOMAIN strings(a) # {"tracestate"}
    BY <1>3, <2>1, <2>2 DEF LoneState, traceNames
  <2> QED BY <2>3
<1>4. CASE a.adapter = "audit"
  BY <1>4 DEF strings, auditExtensions, nonEmpty, contextNames, ++
<1> QED BY <1>1, <1>2, <1>3, <1>4, AdditionAssumption DEF adapters

-----------------------------------------------------------------------------
(* No addition overwrites.                                                  *)

\* An enlarged event differs from the first in extensions that are new.
LEMMA EnrichedChanges ==
  ASSUME NEW e, NEW x, NEW f \in changed(e, Enriched(e, x))
  PROVE  f[1] = "extensions" /\ f[2] \notin DOMAIN e.extensions
<1> DEFINE g == Enriched(e, x)
<1>1. /\ g.id = e.id /\ g.source = e.source /\ g.type = e.type
      /\ g.dataContentType = e.dataContentType /\ g.dataSchema = e.dataSchema
      /\ g.subject = e.subject /\ g.time = e.time /\ g.data = e.data
      /\ g.extensions = e.extensions ++ stringAttributes(x)
  BY EnrichedFields
<1> HIDE DEF g
<1>2. \A n \in DOMAIN e.extensions : extensionOf(g, n) = extensionOf(e, n)
  BY <1>1 DEF extensionOf, ++
<1>3. f \in {Ext(n) : n \in {m \in DOMAIN e.extensions \cup DOMAIN g.extensions :
                             extensionOf(e, m) # extensionOf(g, m)}}
  BY <1>1 DEF changed, When, g
<1>4. PICK n : f = Ext(n) /\ extensionOf(e, n) # extensionOf(g, n)
  BY <1>3
<1> QED BY <1>2, <1>4 DEF Ext

\* Whatever is added, by whichever adapter, leaves the core fields, the data and
\* every extension of the event as they were.
THEOREM NoOverwriting == Spec => NothingOverwritten
<1>1. [Next]_vars => [Preserves]_vars
  <2> SUFFICES ASSUME Next, added' # added PROVE \A f \in changed(event, event') :
                 f[1] = "extensions" /\ f[2] \notin DOMAIN event.extensions
    BY DEF Preserves
  <2>1. PICK a \in Additions : Add(a)
    BY DEF Next, Cross
  <2>2. PICK r \in add(event, a) : /\ event' = IF r.err # Nil THEN event ELSE r.value
                                  /\ added' = IF r.err # Nil THEN added ELSE added \cup {a}
    BY <2>1 DEF Add
  <2>3. event' = Enriched(event, strings(a))
    BY <2>2, AddResult
  <2> QED BY <2>3, EnrichedChanges
<1> QED BY <1>1, PTL DEF Spec, NothingOverwritten

-----------------------------------------------------------------------------
(* Additions commute.                                                       *)

\* Additions that both fit an event fit it in either order, and make the same
\* extensions.
LEMMA MergesCommute ==
  ASSUME NEW ext, NEW x, NEW y, Addable(ext, x), Addable(ext ++ stringAttributes(x), y)
  PROVE  /\ Addable(ext, y) /\ Addable(ext ++ stringAttributes(y), x)
         /\ (ext ++ stringAttributes(x)) ++ stringAttributes(y)
              = (ext ++ stringAttributes(y)) ++ stringAttributes(x)
  BY DEF Addable, stringAttributes, ++

\* What is left of valid extensions is valid, if it was valid with less or brings
\* its own traceparent.
LEMMA FewerExtensionsValid ==
  ASSUME NEW ext, NEW x, NEW y, ExtensionsValid(ext),
         ExtensionsValid((ext ++ stringAttributes(x)) ++ stringAttributes(y)),
         (ext ++ stringAttributes(x)) ++ stringAttributes(y)
           = (ext ++ stringAttributes(y)) ++ stringAttributes(x),
         "tracestate" \in DOMAIN y => "traceparent" \in DOMAIN y
  PROVE  ExtensionsValid(ext ++ stringAttributes(y))
<1> DEFINE all  == (ext ++ stringAttributes(y)) ++ stringAttributes(x)
           some == ext ++ stringAttributes(y)
<1>1. ExtensionsValid(all)
  OBVIOUS
<1>2. \A n \in DOMAIN some : n \in DOMAIN all /\ all[n] = some[n]
  BY DEF ++
<1>3. "tracestate" \in DOMAIN some => "traceparent" \in DOMAIN some
  BY DEF ++, ExtensionsValid, stringAttributes
<1> HIDE DEF all, some
<1>4. ExtensionsValid(some)
  BY <1>1, <1>2, <1>3 DEF ExtensionsValid
<1> QED BY <1>4 DEF some

\* What two additions in a row produce, the other order produces as well, unless
\* the second is a lone trace state and the other order produces nothing.
LEMMA BothSwap ==
  ASSUME NEW a \in Additions, NEW b \in Additions, NEW v \in both(a, b),
         ~LoneState(b) \/ both(b, a) # {}
  PROVE  v \in both(b, a)
<1> DEFINE x == strings(a)
           y == strings(b)
           ext == event.extensions
<1>1. PICK p \in add(event, a) : p.err = Nil /\ \E q \in add(p.value, b) : q.err = Nil /\ v = q.value
  BY DEF both
<1>2. PICK q \in add(p.value, b) : q.err = Nil /\ v = q.value
  BY <1>1
<1>3. /\ ~Refused(a) /\ Validate(event) = {} /\ Addable(ext, x)
      /\ p.value = Enriched(event, x)
  BY <1>1, AddResult
<1>4. p.value.extensions = ext ++ stringAttributes(x)
  BY <1>3, EnrichedFields
<1>5. /\ ~Refused(b) /\ Addable(ext ++ stringAttributes(x), y)
      /\ ExtensionsValid((ext ++ stringAttributes(x)) ++ stringAttributes(y))
      /\ v = Enriched(Enriched(event, x), y)
  BY <1>2, <1>3, <1>4, AddResult
<1>6. /\ Addable(ext, y) /\ Addable(ext ++ stringAttributes(y), x)
      /\ (ext ++ stringAttributes(x)) ++ stringAttributes(y)
           = (ext ++ stringAttributes(y)) ++ stringAttributes(x)
  BY <1>3, <1>5, MergesCommute
<1>7. ExtensionsValid(ext ++ stringAttributes(y))
  <2>1. CASE both(b, a) # {}
    <3>1. PICK o \in add(event, b) : o.err = Nil
      BY <2>1 DEF both
    <3> QED BY <3>1, AddResult
  <2>2. CASE ~LoneState(b)
    <3>1. ExtensionsValid(ext)
      BY <1>3, ValidateRules, ValidAttributesRules
    <3> HIDE DEF ext, x, y
    <3> QED BY <1>5, <1>6, <2>2, <3>1, StateHasParent, FewerExtensionsValid DEF y
  <2> QED BY <2>1, <2>2
<1>8. PICK o \in add(event, b) : TRUE
  BY <1>5, AddIsAddition, AddStringExtensionsReturns
<1>9. o.err = Nil /\ o.value = Enriched(event, y)
  BY <1>3, <1>5, <1>6, <1>7, <1>8, AddResult
<1>10. o.value.extensions = ext ++ stringAttributes(y) /\ Validate(o.value) = {}
  BY <1>3, <1>7, <1>9, EnrichedFields, EnrichedValid
<1>11. PICK w \in add(o.value, a) : TRUE
  BY <1>3, AddIsAddition, AddStringExtensionsReturns
<1>12. w.err = Nil /\ w.value = Enriched(Enriched(event, y), x)
  BY <1>3, <1>5, <1>6, <1>9, <1>10, <1>11, AddResult
<1>13. w.value = v
  <2> DEFINE one   == Enriched(event, x)
             other == Enriched(event, y)
  <2>1. /\ one.id = other.id /\ one.source = other.source /\ one.type = other.type
        /\ one.dataContentType = other.dataContentType /\ one.dataSchema = other.dataSchema
        /\ one.subject = other.subject /\ one.time = other.time /\ one.data = other.data
        /\ one.extensions = ext ++ stringAttributes(x)
        /\ other.extensions = ext ++ stringAttributes(y)
    BY EnrichedFields
  <2> HIDE DEF one, other, x, y, ext
  <2>2. Enriched(one, y) = Enriched(other, x)
    BY <1>6, <2>1 DEF Enriched
  <2> QED BY <1>5, <1>12, <2>2 DEF one, other
<1>14. w.value \in both(b, a)
  BY <1>8, <1>9, <1>11, <1>12 DEF both
<1> QED BY <1>13, <1>14

\* In whatever order two services add to one event, they agree on what it becomes
\* and on whether both may add; only a lone trace state has to come second.
THEOREM AdditionsCommute == Spec => []OrderIrrelevant
<1>1. OrderIrrelevant
  <2> SUFFICES ASSUME NEW a \in Additions, NEW b \in Additions
               PROVE  \/ both(a, b) = both(b, a)
                      \/ (LoneState(a) /\ both(a, b) = {}) \/ (LoneState(b) /\ both(b, a) = {})
    BY DEF OrderIrrelevant
  <2>1. CASE both(a, b) # {} /\ both(b, a) # {}
    BY <2>1, BothSwap
  <2>2. CASE both(a, b) = {}
    BY <2>2, BothSwap
  <2>3. CASE both(b, a) = {}
    BY <2>3, BothSwap
  <2> QED BY <2>1, <2>2, <2>3
<1> QED BY <1>1, PTL

-----------------------------------------------------------------------------
(* Trust.                                                                   *)

\* Without trust, correlation values come back only when there are none.
LEMMA UntrustedCorrelation ==
  ASSUME NEW e, NEW r \in ExtractCorrelation(e, FALSE), r.err = Nil
  PROVE  r.value = NoValues
<1> DEFINE read == [n \in correlationNames |-> StringExtension(e, n)]
           found == {n \in correlationNames : read[n].value # ""}
           parsed(n) == IF n \in found THEN ParseID(read[n].value) ELSE ""
           failures ==
                When(\E n \in correlationNames : read[n].err # Nil, ErrInvalidAdapterInput)
             ?? When(found # {} /\ ~FALSE, ErrUntrustedMetadata)
             ?? When(\E n \in found : parsed(n) = Nil, ErrInvalidAdapterInput)
<1>1. r \in Returns(failures, [n \in correlationNames |-> parsed(n)])
  BY DEF ExtractCorrelation
<1> HIDE DEF read
<1>2. failures \subseteq {ErrInvalidAdapterInput, ErrUntrustedMetadata}
  BY DEF When, ??
<1>3. failures = {} => found = {}
  BY DEF When, ??
<1> HIDE DEF failures
<1>4. failures = {} /\ r.value = [n \in correlationNames |-> parsed(n)]
  BY <1>1, <1>2, ErrorsAreNotNil, ReturnsEither
<1> QED BY <1>3, <1>4 DEF NoValues

\* Without trust, no tenant comes back.
LEMMA UntrustedTenant ==
  ASSUME NEW e, NEW r \in ExtractTenant(e, FALSE)
  PROVE  r.err # Nil
<1> DEFINE read == StringExtension(e, "tenantid")
           failures ==
                When(read.err # Nil \/ read.value = "", ErrInvalidAdapterInput)
             ?? When(~FALSE, ErrUntrustedMetadata)
             ?? When(ParseTenantID(read.value) = Nil, ErrInvalidAdapterInput)
<1>1. r \in Returns(failures, ParseTenantID(read.value))
  BY DEF ExtractTenant
<1> HIDE DEF read
<1>2. failures # {} /\ failures \subseteq {ErrInvalidAdapterInput, ErrUntrustedMetadata}
  BY DEF When, ??
<1> HIDE DEF failures
<1> QED BY <1>1, <1>2, ErrorsAreNotNil, ReturnsEither

\* Without trust, an audit record comes back only when there is none.
LEMMA UntrustedMetadata ==
  ASSUME NEW e, NEW r \in ExtractMetadata(e, FALSE), r.err = Nil
  PROVE  r.value = NoMetadata
<1> DEFINE id      == StringExtension(e, "auditid")
           action  == StringExtension(e, "auditaction")
           outcome == StringExtension(e, "auditoutcome")
           parsed  == ParseUint8(outcome.value)
           texts   == {id.value, action.value, outcome.value}
           failures ==
                When({id.err, action.err, outcome.err} # {Nil}, ErrInvalidAdapterInput)
             ?? When(texts # {""} /\ ~FALSE, ErrUntrustedMetadata)
             ?? When(texts # {""} /\ "" \in texts, ErrInvalidAdapterInput)
             ?? When(texts # {""} /\ (parsed = Nil \/ parsed \notin Outcomes),
                     ErrInvalidAdapterInput)
<1>1. /\ failures # {} => r \in Returns(failures, Nil)
      /\ failures = {} /\ texts = {""} => r \in Returns({}, NoMetadata)
  BY DEF ExtractMetadata
<1> HIDE DEF id, action, outcome, parsed
<1>2. failures \subseteq {ErrInvalidAdapterInput, ErrUntrustedMetadata}
  BY DEF When, ??
<1>3. failures = {} => texts = {""}
  BY DEF When, ??
<1> HIDE DEF failures, texts
<1>4. failures = {}
  BY <1>1, <1>2, ErrorsAreNotNil, ReturnsEither
<1>5. r \in Returns({}, NoMetadata)
  BY <1>1, <1>3, <1>4
<1> QED BY <1>5 DEF Returns

\* Whatever the event carries and wherever it has been, a caller that has not
\* established trust gets no context out of it from the adapters that ask for trust:
\* correlation, tenancy and audit.
THEOREM TrustIsRequired == Spec => []UntrustedReadsNothing
<1>1. UntrustedReadsNothing
  BY UntrustedCorrelation, UntrustedTenant, UntrustedMetadata DEF UntrustedReadsNothing
<1> QED BY <1>1, PTL

-----------------------------------------------------------------------------
(* Additions survive.                                                       *)

\* Extensions that hold the strings x, as strings.
Holds(ext, x) == \A n \in DOMAIN x : n \in DOMAIN ext /\ ext[n] = Attribute("string", x[n])

\* What the proof carries from step to step: the event is whole, and holds every
\* string that was added.
EnrichmentInvariant ==
  /\ WholeEvent(event) /\ ~Shadowed(event)
  /\ \A a \in added : a \in Additions /\ ~Refused(a) /\ Holds(event.extensions, strings(a))

\* An addition brings finitely many strings.
LEMMA AddedStrings ==
  ASSUME NEW a \in Additions, ~Refused(a)
  PROVE  /\ IsFiniteSet(DOMAIN strings(a))
         /\ \A n \in DOMAIN strings(a) : n \in Strings /\ strings(a)[n] \in Strings
<1> DEFINE v == a.value
           names == correlationNames \cup traceNames \cup contextNames
                      \cup {"auditid", "auditaction", "auditoutcome"}
<1>1. IsFiniteSet(names)
  <2>1. names = {"correlationid", "requestid", "causationid", "traceparent", "tracestate", "tenantid",
                 "auditid", "auditaction", "auditoutcome"}
    BY DEF correlationNames, traceNames, contextNames
  <2> HIDE DEF names
  <2>2. \A S, x : IsFiniteSet(S) => IsFiniteSet(S \cup {x})
    BY FS_AddElement
  <2>3. IsFiniteSet({"correlationid"}) BY FS_Singleton
  <2>4. IsFiniteSet((((((((({"correlationid"} \cup {"requestid"}) \cup {"causationid"})
          \cup {"traceparent"}) \cup {"tracestate"}) \cup {"tenantid"})
          \cup {"auditid"}) \cup {"auditaction"}) \cup {"auditoutcome"}))
    BY <2>2, <2>3
  <2>5. names = (((((((({"correlationid"} \cup {"requestid"}) \cup {"causationid"})
          \cup {"traceparent"}) \cup {"tracestate"}) \cup {"tenantid"})
          \cup {"auditid"}) \cup {"auditaction"}) \cup {"auditoutcome"})
    BY <2>1
  <2> QED BY <2>4, <2>5
<1>2. names \subseteq Strings
  BY ExtensionNameAssumption
<1>3. DOMAIN strings(a) \subseteq names /\ \A n \in DOMAIN strings(a) : strings(a)[n] \in Strings
  <2>1. CASE a.adapter = "correlation"
    BY <2>1, AdditionAssumption DEF strings, nonEmpty
  <2>2. CASE a.adapter = "tenancy"
    <3>1. strings(a) = Single("tenantid", v) /\ v \in Strings
      BY <2>2, AdditionAssumption DEF strings
    <3> QED BY <3>1 DEF Single, contextNames
  <2>3. CASE a.adapter = "telemetry"
    <3>1. v # Nil BY <2>3 DEF Refused
    <3>2. \A n \in traceNames \cap DOMAIN v : v[n] \in Strings
      BY <2>3, <3>1, AdditionAssumption
    <3> QED BY <2>3, <3>2 DEF strings, nonEmpty
  <2>4. CASE a.adapter = "audit"
    <3> DEFINE t == v.context["tenantid"]
               own == [auditid |-> v.id, auditaction |-> v.action, auditoutcome |-> FormatUint(v.outcome)]
               given == [n \in contextNames |->
                           IF n = "tenantid" /\ t # "" THEN ParseTenantID(t) ELSE v.context[n]]
    <3>1. strings(a) = own ++ nonEmpty(given)
      BY <2>4 DEF strings, auditExtensions
    <3>2. /\ v.id \in Strings /\ v.action \in Strings /\ FormatUint(v.outcome) \in Strings
          /\ \A n \in contextNames : v.context[n] \in Strings
      BY <2>4, AdditionAssumption
    <3>3. t \in Strings BY <3>2 DEF contextNames
    <3>4. t # "" => ParseTenantID(t) \in Strings
      <4>1. t # "" => ParseTenantID(t) # Nil BY <2>4 DEF Refused
      <4> QED BY <3>3, <4>1, TenantAssumption
    <3>5. /\ DOMAIN own = {"auditid", "auditaction", "auditoutcome"}
          /\ \A n \in DOMAIN own : own[n] \in Strings
      BY <3>2
    <3>6. \A n \in contextNames : given[n] \in Strings
      BY <3>2, <3>4
    <3>7. DOMAIN nonEmpty(given) \subseteq contextNames
          /\ \A n \in DOMAIN nonEmpty(given) : nonEmpty(given)[n] \in Strings
      BY <3>6 DEF nonEmpty
    <3> HIDE DEF own, given
    <3> QED BY <3>1, <3>5, <3>7 DEF ++
  <2> QED BY <2>1, <2>2, <2>3, <2>4, AdditionAssumption DEF adapters
<1> HIDE DEF names
<1> QED BY <1>1, <1>2, <1>3, FS_Subset

\* An enlarged event is whole, holds what was added, and holds what it held.
LEMMA EnrichedWhole ==
  ASSUME NEW e, WholeEvent(e), NEW x, IsFiniteSet(DOMAIN x),
         \A n \in DOMAIN x : n \in Strings /\ x[n] \in Strings,
         Addable(e.extensions, x), ExtensionsValid(e.extensions ++ stringAttributes(x))
  PROVE  /\ WholeEvent(Enriched(e, x))
         /\ Enriched(e, x).dataContentType = e.dataContentType
         /\ Holds(Enriched(e, x).extensions, x)
         /\ \A y : Holds(e.extensions, y) => Holds(Enriched(e, x).extensions, y)
<1> DEFINE f == Enriched(e, x)
           ext == e.extensions
<1>1. /\ f.id = e.id /\ f.source = e.source /\ f.type = e.type
      /\ f.dataContentType = e.dataContentType /\ f.dataSchema = e.dataSchema
      /\ f.subject = e.subject /\ f.time = e.time /\ f.data = e.data
      /\ f.extensions = ext ++ stringAttributes(x)
  BY EnrichedFields
<1>2. Validate(e) = {} /\ EventOfStrings(e)
  BY DEF WholeEvent, ValidEvent
<1>3. Validate(f) = {}
  BY <1>2, EnrichedValid
<1>4. f = withData(f, f.data)
  BY DEF Enriched, withData, Attributes
<1> HIDE DEF f
<1>5. /\ DOMAIN f.extensions = DOMAIN ext \cup DOMAIN x
      /\ f.extensions = [n \in DOMAIN f.extensions |-> f.extensions[n]]
      /\ \A n \in DOMAIN ext : f.extensions[n] = ext[n]
      /\ \A n \in DOMAIN x : n \notin DOMAIN ext => f.extensions[n] = Attribute("string", x[n])
  BY <1>1 DEF ++, stringAttributes
<1>6. \A n \in DOMAIN x : f.extensions[n] = Attribute("string", x[n])
  BY <1>5 DEF Addable
<1>7. /\ ext = [n \in DOMAIN ext |-> Attribute(ext[n].kind, ext[n].text)]
      /\ \A n \in DOMAIN ext : n \in Strings /\ ext[n].text \in Strings
      /\ IsFiniteSet(DOMAIN ext)
  BY <1>2 DEF EventOfStrings
<1>8. \A n \in DOMAIN x : LET y == Attribute("string", x[n]) IN
        y.text = x[n] /\ y = Attribute(y.kind, y.text)
  BY DEF Attribute
<1>9. \A n \in DOMAIN f.extensions :
        /\ n \in Strings /\ f.extensions[n].text \in Strings
        /\ f.extensions[n] = Attribute(f.extensions[n].kind, f.extensions[n].text)
  <2> TAKE n \in DOMAIN f.extensions
  <2>1. CASE n \in DOMAIN x
    BY <1>6, <1>8, <2>1
  <2>2. CASE n \in DOMAIN ext
    <3>1. ext[n] = Attribute(ext[n].kind, ext[n].text)
      BY <1>7, <2>2
    <3> QED BY <1>5, <1>7, <2>2, <3>1
  <2> QED BY <1>5, <2>1, <2>2
<1>10. f.extensions = [n \in DOMAIN f.extensions |->
                         Attribute(f.extensions[n].kind, f.extensions[n].text)]
  BY <1>5, <1>9
<1>11. IsFiniteSet(DOMAIN f.extensions)
  <2>1. IsFiniteSet(DOMAIN ext \cup DOMAIN x)
    BY <1>7, FS_Union
  <2> QED BY <1>5, <2>1
<1>12. EventOfStrings(f)
  BY <1>1, <1>2, <1>9, <1>10, <1>11 DEF EventOfStrings
<1>13. WholeEvent(f)
  BY <1>3, <1>4, <1>12 DEF WholeEvent, ValidEvent
<1>14. Holds(f.extensions, x)
  BY <1>5, <1>6 DEF Holds
<1>15. \A y : Holds(ext, y) => Holds(f.extensions, y)
  BY <1>5 DEF Holds
<1> QED BY <1>1, <1>13, <1>14, <1>15 DEF f

LEMMA InitEnrichment == Init => EnrichmentInvariant
  BY FirstEventAssumption DEF Init, EnrichmentInvariant, WholeEvent, ValidEvent

LEMMA NextEnrichment ==
  ASSUME ClosedStrings PROVE EnrichmentInvariant /\ [Next]_vars => EnrichmentInvariant'
<1> SUFFICES ASSUME EnrichmentInvariant, [Next]_vars PROVE EnrichmentInvariant'
  OBVIOUS
<1> USE DEF EnrichmentInvariant
<1>1. ASSUME NEW a \in Additions, Add(a) PROVE EnrichmentInvariant'
  <2>1. PICK r \in add(event, a) : /\ event' = IF r.err # Nil THEN event ELSE r.value
                                  /\ added' = IF r.err # Nil THEN added ELSE added \cup {a}
    BY <1>1 DEF Add
  <2>2. CASE r.err # Nil
    BY <2>1, <2>2
  <2>3. CASE r.err = Nil
    <3> DEFINE x == strings(a)
    <3>1. /\ ~Refused(a) /\ Addable(event.extensions, x)
          /\ ExtensionsValid(event.extensions ++ stringAttributes(x))
          /\ event' = Enriched(event, x) /\ added' = added \cup {a}
      BY <2>1, <2>3, AddResult
    <3>2. IsFiniteSet(DOMAIN x) /\ \A n \in DOMAIN x : n \in Strings /\ x[n] \in Strings
      BY <3>1, AddedStrings
    <3>3. /\ WholeEvent(event') /\ ~Shadowed(event)' /\ Holds(event'.extensions, x)
          /\ \A y : Holds(event.extensions, y) => Holds(event'.extensions, y)
      <4> HIDE DEF x
      <4>1. event'.dataContentType = event.dataContentType
        BY <3>1, <3>2, EnrichedWhole
      <4>2. ~Shadowed(event)'
        BY <4>1 DEF Shadowed
      <4> QED BY <3>1, <3>2, <4>2, EnrichedWhole
    <3> QED BY <3>1, <3>3
  <2> QED BY <2>2, <2>3
<1>2. ASSUME NEW t \in Routes, Cross(t[1], t[2], t[3]) PROVE EnrichmentInvariant'
  <2>1. t[1] \in {"http", "kafka"} /\ t[2] \in Modes /\ t[3] \in BOOLEAN
    BY RouteAssumption
  <2>2. PICK r \in cross(t[1], t[2], t[3], event, RouteLimits) :
          event' = IF r.err # Nil THEN event ELSE r.value
    BY <1>2 DEF Cross
  <2>3. added' = added
    BY <1>2 DEF Cross
  <2>4. CASE r.err # Nil
    BY <2>2, <2>3, <2>4
  <2>5. CASE r.err = Nil
    <3>1. WholeEvent(event') /\ ~Shadowed(event)' /\ KeepsStrings(event, event')
      BY <2>1, <2>2, <2>5, CrossedOnce
    <3>2. \A x : Holds(event.extensions, x) => Holds(event'.extensions, x)
      BY <3>1 DEF Holds, KeepsStrings, Attribute
    <3> QED BY <2>3, <3>1, <3>2
  <2> QED BY <2>4, <2>5
<1>3. CASE UNCHANGED vars
  BY <1>3 DEF vars
<1> QED BY <1>1, <1>2, <1>3 DEF Next

\* A string that the event holds is the string that is read.
LEMMA HeldIsRead ==
  ASSUME NEW x, Holds(event.extensions, x), NEW n \in DOMAIN x, x[n] # ""
  PROVE  StringExtension(event, n) = [value |-> x[n], err |-> Nil]
<1>1. n \in DOMAIN event.extensions /\ event.extensions[n] = Attribute("string", x[n])
  BY DEF Holds
<1>2. event.extensions[n].kind = "string" /\ event.extensions[n].text = x[n]
  <2>1. Attribute("string", x[n]).kind = "string" /\ Attribute("string", x[n]).text = x[n]
    BY DEF Attribute
  <2> QED BY <1>1, <2>1
<1> QED BY <1>1, <1>2 DEF StringExtension

\* An extension that cannot be read is malformed, in its type or for being empty.
LEMMA ReadParts ==
  ASSUME NEW n
  PROVE  LET r == StringExtension(event, n) IN
         /\ r.err # Nil => \E y \in extensionOf(event, n) : y.kind # "string" \/ y.text = ""
         /\ r.value # "" => \E y \in extensionOf(event, n) : y.text = r.value
         /\ n \in DOMAIN event.extensions /\ r.err = Nil => r.value # ""
<1> DEFINE y == event.extensions[n]
           z == Attribute(y.kind, y.text)
           r == StringExtension(event, n)
<1>1. n \in DOMAIN event.extensions => z \in extensionOf(event, n)
  BY DEF extensionOf
<1>2. z.kind = y.kind /\ z.text = y.text
  BY DEF Attribute
<1>3. ErrInvalidAdapterInput # Nil
  BY AdapterErrorAssumption
<1>4. /\ n \notin DOMAIN event.extensions => r.err = Nil /\ r.value = ""
      /\ n \in DOMAIN event.extensions /\ (y.kind # "string" \/ y.text = "") =>
           r.err = ErrInvalidAdapterInput /\ r.value = ""
      /\ n \in DOMAIN event.extensions /\ ~(y.kind # "string" \/ y.text = "") =>
           r.err = Nil /\ r.value = y.text
  BY DEF StringExtension
<1> HIDE DEF r, y, z
<1>5. r.err # Nil => \E w \in extensionOf(event, n) : w.kind # "string" \/ w.text = ""
  BY <1>1, <1>2, <1>4
<1>6. r.value # "" => \E w \in extensionOf(event, n) : w.text = r.value
  BY <1>1, <1>2, <1>4
<1>7. n \in DOMAIN event.extensions /\ r.err = Nil => r.value # ""
  BY <1>3, <1>4
<1> QED BY <1>5, <1>6, <1>7 DEF r

\* A service that added the identifiers own reads them, or some identifier is
\* malformed.
LEMMA CorrelationRead ==
  ASSUME NEW own, NEW r \in ExtractCorrelation(event, TRUE),
         \A n \in correlationNames : n \in DOMAIN own /\ own[n] # "" =>
           StringExtension(event, n) = [value |-> own[n], err |-> Nil]
  PROVE  /\ r.err # Nil => \E n \in correlationNames : Malformed(own, n, ParseID)
         /\ r.err = Nil => \A n \in correlationNames : n \in DOMAIN own /\ own[n] # "" =>
                              r.value[n] = ParseID(own[n])
<1> DEFINE read == [n \in correlationNames |-> StringExtension(event, n)]
           found == {n \in correlationNames : read[n].value # ""}
           parsed(n) == IF n \in found THEN ParseID(read[n].value) ELSE ""
           failures ==
                When(\E n \in correlationNames : read[n].err # Nil, ErrInvalidAdapterInput)
             ?? When(found # {} /\ ~TRUE, ErrUntrustedMetadata)
             ?? When(\E n \in found : parsed(n) = Nil, ErrInvalidAdapterInput)
<1>1. r \in Returns(failures, [n \in correlationNames |-> parsed(n)])
  BY DEF ExtractCorrelation
<1>2. \A n \in correlationNames : read[n] = StringExtension(event, n)
  OBVIOUS
<1>3. \A n \in correlationNames : n \in DOMAIN own /\ own[n] # "" =>
        read[n].value = own[n] /\ read[n].err = Nil
  <2> SUFFICES ASSUME NEW n \in correlationNames, n \in DOMAIN own, own[n] # ""
               PROVE  read[n].value = own[n] /\ read[n].err = Nil
    OBVIOUS
  <2>1. StringExtension(event, n) = [value |-> own[n], err |-> Nil]
    OBVIOUS
  <2>2. [value |-> own[n], err |-> Nil].value = own[n] /\ [value |-> own[n], err |-> Nil].err = Nil
    OBVIOUS
  <2> HIDE DEF read
  <2> QED BY <1>2, <2>1, <2>2
<1> HIDE DEF read
<1>4. failures \subseteq {ErrInvalidAdapterInput, ErrUntrustedMetadata}
  BY DEF When, ??
<1>5. failures # {} => \E n \in correlationNames :
                          read[n].err # Nil \/ (read[n].value # "" /\ ParseID(read[n].value) = Nil)
  BY DEF When, ??
<1> HIDE DEF failures
<1>6. Nil \notin failures
  BY <1>4, ErrorsAreNotNil
<1>7. ASSUME r.err # Nil PROVE \E n \in correlationNames : Malformed(own, n, ParseID)
  <2>1. failures # {} BY <1>1, <1>6, <1>7, ReturnsEither
  <2>2. PICK n \in correlationNames :
          read[n].err # Nil \/ (read[n].value # "" /\ ParseID(read[n].value) = Nil)
    BY <1>5, <2>1
  <2>3. CASE n \in DOMAIN own /\ own[n] # ""
    <3>1. ParseID(own[n]) = Nil BY <1>3, <2>2, <2>3
    <3> QED BY <2>3, <3>1 DEF Malformed
  <2>4. CASE ~(n \in DOMAIN own /\ own[n] # "")
    <3>1. \E y \in extensionOf(event, n) : y.kind # "string" \/ y.text = "" \/ ParseID(y.text) = Nil
      BY <1>2, <2>2, ReadParts
    <3> QED BY <2>4, <3>1 DEF Malformed
  <2> QED BY <2>3, <2>4
<1>8. ASSUME r.err = Nil, NEW n \in correlationNames, n \in DOMAIN own, own[n] # ""
      PROVE  r.value[n] = ParseID(own[n])
  <2>1. r.value = [m \in correlationNames |-> parsed(m)]
    BY <1>1, <1>6, <1>8, ReturnsEither
  <2> QED BY <1>3, <1>8, <2>1
<1> QED BY <1>7, <1>8

\* Of a tenant extension, a trusting caller gets the tenant or learns that it is
\* malformed.
LEMMA TenantRead ==
  ASSUME NEW r \in ExtractTenant(event, TRUE)
  PROVE  LET read == StringExtension(event, "tenantid") IN
         /\ r = [value |-> r.value, err |-> r.err]
         /\ r.err # Nil <=> read.err # Nil \/ read.value = "" \/ ParseTenantID(read.value) = Nil
         /\ r.err = Nil => r.value = ParseTenantID(read.value)
<1> DEFINE read == StringExtension(event, "tenantid")
           failures ==
                When(read.err # Nil \/ read.value = "", ErrInvalidAdapterInput)
             ?? When(~TRUE, ErrUntrustedMetadata)
             ?? When(ParseTenantID(read.value) = Nil, ErrInvalidAdapterInput)
<1>1. r \in Returns(failures, ParseTenantID(read.value))
  BY DEF ExtractTenant
<1> HIDE DEF read
<1>2. /\ failures \subseteq {ErrInvalidAdapterInput, ErrUntrustedMetadata}
      /\ failures # {} <=> read.err # Nil \/ read.value = "" \/ ParseTenantID(read.value) = Nil
  BY DEF When, ??
<1> HIDE DEF failures
<1>3. Nil \notin failures
  BY <1>2, ErrorsAreNotNil
<1>4. /\ r = [value |-> r.value, err |-> r.err]
      /\ r.err = Nil => failures = {} /\ r.value = ParseTenantID(read.value)
      /\ r.err # Nil => r.err \in failures
      /\ failures = {} => r = [value |-> ParseTenantID(read.value), err |-> Nil]
  BY <1>1, <1>3, ReturnsEither
<1> QED BY <1>2, <1>4 DEF read

LEMMA CorrelationSurvives ==
  ASSUME EnrichmentInvariant, NEW a \in added, a.adapter = "correlation" PROVE reads(a)
<1> DEFINE v == a.value
           x == strings(a)
<1>1. a \in Additions /\ Holds(event.extensions, x) /\ DOMAIN v = correlationNames
  BY AdditionAssumption DEF EnrichmentInvariant
<1>2. x = nonEmpty(v)
  BY DEF strings
<1>3. \A n \in correlationNames : v[n] # "" => n \in DOMAIN x /\ x[n] = v[n]
  BY <1>1, <1>2 DEF nonEmpty
<1> HIDE DEF x
<1>4. \A n \in correlationNames : n \in DOMAIN v /\ v[n] # "" =>
        StringExtension(event, n) = [value |-> v[n], err |-> Nil]
  BY <1>1, <1>3, HeldIsRead
<1>5. ASSUME NEW r \in ExtractCorrelation(event, TRUE)
      PROVE  /\ r.err # Nil => \E n \in correlationNames : Malformed(v, n, ParseID)
             /\ r.err = Nil => \A n \in correlationNames : n \in DOMAIN v /\ v[n] # "" =>
                                  r.value[n] = ParseID(v[n])
  BY <1>4, CorrelationRead
<1> QED BY <1>1, <1>5 DEF reads

LEMMA TenantSurvives ==
  ASSUME EnrichmentInvariant, NEW a \in added, a.adapter = "tenancy" PROVE reads(a)
<1> DEFINE v == a.value
           x == strings(a)
<1>1. a \in Additions /\ Holds(event.extensions, x) /\ ~Refused(a)
  BY DEF EnrichmentInvariant
<1>2. v \in Strings /\ v # "" /\ ParseTenantID(v) = v
  BY <1>1, AdditionAssumption DEF Refused
<1>3. "tenantid" \in DOMAIN x /\ x["tenantid"] = v
  BY DEF strings, Single
<1> HIDE DEF x
<1>4. StringExtension(event, "tenantid") = [value |-> v, err |-> Nil]
  BY <1>1, <1>2, <1>3, HeldIsRead
<1>5. StringExtension(event, "tenantid").value = v /\ StringExtension(event, "tenantid").err = Nil
  BY <1>4
<1>6. v # Nil
  BY <1>2, NilAssumption
<1>7. \A r \in ExtractTenant(event, TRUE) : r.err = Nil /\ r.value = v
  BY <1>2, <1>5, <1>6, TenantRead
<1> QED BY <1>7 DEF reads

LEMMA TraceSurvives ==
  ASSUME EnrichmentInvariant, NEW a \in added, a.adapter = "telemetry" PROVE reads(a)
<1> DEFINE v == a.value
           x == strings(a)
           read == [n \in traceNames |-> StringExtension(event, n).value]
<1>1. Holds(event.extensions, x)
  BY DEF EnrichmentInvariant
<1>2. x = nonEmpty([n \in traceNames \cap DOMAIN v |-> v[n]])
  BY DEF strings
<1>3. \A n \in traceNames \cap DOMAIN v : v[n] # "" => n \in DOMAIN x /\ x[n] = v[n]
  BY <1>2 DEF nonEmpty
<1> HIDE DEF x
<1>4. ASSUME NEW n \in traceNames \cap DOMAIN v, v[n] # ""
      PROVE  ExtractTraceContext(event)[n] = v[n]
  <2>1. StringExtension(event, n) = [value |-> v[n], err |-> Nil]
    BY <1>1, <1>3, <1>4, HeldIsRead
  <2>2. StringExtension(event, n).value = v[n]
    BY <2>1
  <2>3. read[n] = v[n]
    BY <2>2
  <2>4. n \in DOMAIN nonEmpty(read) /\ nonEmpty(read)[n] = read[n]
    <3>1. n \in DOMAIN read OBVIOUS
    <3> HIDE DEF read
    <3> QED BY <1>4, <2>3, <3>1 DEF nonEmpty
  <2>5. ExtractTraceContext(event) = nonEmpty(read)
    BY DEF ExtractTraceContext
  <2> HIDE DEF read
  <2> QED BY <2>3, <2>4, <2>5
<1> QED BY <1>4 DEF reads

\* The strings of a record, read back.
LEMMA RecordRead ==
  ASSUME EnrichmentInvariant, NEW a \in added, a.adapter = "audit"
  PROVE  LET v == a.value
             t == v.context["tenantid"]
             read(n) == StringExtension(event, n)
         IN  /\ read("auditid") = [value |-> v.id, err |-> Nil]
             /\ read("auditaction") = [value |-> v.action, err |-> Nil]
             /\ read("auditoutcome") = [value |-> FormatUint(v.outcome), err |-> Nil]
             /\ v.id # "" /\ v.action # "" /\ FormatUint(v.outcome) # ""
             /\ v.outcome \in Outcomes /\ ParseUint8(FormatUint(v.outcome)) = v.outcome
             /\ DOMAIN v.context = contextNames
             /\ \A n \in {"correlationid", "causationid"} : v.context[n] # "" =>
                  read(n) = [value |-> v.context[n], err |-> Nil]
             /\ t # "" => /\ read("tenantid") = [value |-> ParseTenantID(t), err |-> Nil]
                          /\ ParseTenantID(t) \notin {Nil, ""}
                          /\ ParseTenantID(ParseTenantID(t)) = ParseTenantID(t)
<1> DEFINE v == a.value
           t == v.context["tenantid"]
           x == strings(a)
           own == [auditid |-> v.id, auditaction |-> v.action, auditoutcome |-> FormatUint(v.outcome)]
           given == [n \in contextNames |->
                       IF n = "tenantid" /\ t # "" THEN ParseTenantID(t) ELSE v.context[n]]
<1>1. a \in Additions /\ Holds(event.extensions, x) /\ ~Refused(a)
  BY DEF EnrichmentInvariant
<1>2. v.id # "" /\ (t # "" => ParseTenantID(t) # Nil)
  BY <1>1 DEF Refused
<1>3. /\ v.action # "" /\ v.outcome \in Outcomes
      /\ DOMAIN v.context = contextNames /\ \A n \in contextNames : v.context[n] \in Strings
  BY <1>1, <1>2, AdditionAssumption
<1>4. FormatUint(v.outcome) # "" /\ ParseUint8(FormatUint(v.outcome)) = v.outcome
  <2>1. 1..255 \subseteq 0..255
    OBVIOUS
  <2>2. v.outcome \in 1..255
    BY <1>3, OutcomeAssumption, Zenon
  <2>3. v.outcome \in 0..255
    BY <2>1, <2>2, Zenon
  <2> QED BY <2>3, FormatAssumption, Zenon
<1>5. t # "" => /\ ParseTenantID(t) \notin {Nil, ""}
                /\ ParseTenantID(ParseTenantID(t)) = ParseTenantID(t)
  <2>1. t \in Strings BY <1>3 DEF contextNames
  <2> QED BY <1>2, <2>1, TenantAssumption
<1>6. x = own ++ nonEmpty(given)
  BY DEF strings, auditExtensions
<1>7. /\ DOMAIN own = {"auditid", "auditaction", "auditoutcome"}
      /\ own["auditid"] = v.id /\ own["auditaction"] = v.action
      /\ own["auditoutcome"] = FormatUint(v.outcome)
  OBVIOUS
<1>8. \A n \in contextNames : given[n] # "" => n \in DOMAIN nonEmpty(given) /\ nonEmpty(given)[n] = given[n]
  BY DEF nonEmpty
<1>9. /\ \A n \in {"correlationid", "causationid"} : n \in contextNames /\ given[n] = v.context[n]
      /\ "tenantid" \in contextNames /\ (t # "" => given["tenantid"] = ParseTenantID(t))
  BY DEF contextNames
<1> HIDE DEF own, given
<1>10. /\ "auditid" \in DOMAIN x /\ x["auditid"] = v.id
       /\ "auditaction" \in DOMAIN x /\ x["auditaction"] = v.action
       /\ "auditoutcome" \in DOMAIN x /\ x["auditoutcome"] = FormatUint(v.outcome)
  BY <1>6, <1>7 DEF ++
<1>11. \A n \in contextNames : given[n] # "" => n \in DOMAIN x /\ x[n] = given[n]
  BY <1>6, <1>7, <1>8 DEF ++, contextNames
<1> HIDE DEF x
<1>12. /\ StringExtension(event, "auditid") = [value |-> v.id, err |-> Nil]
       /\ StringExtension(event, "auditaction") = [value |-> v.action, err |-> Nil]
       /\ StringExtension(event, "auditoutcome") = [value |-> FormatUint(v.outcome), err |-> Nil]
  <2>1. StringExtension(event, "auditid") = [value |-> x["auditid"], err |-> Nil]
    BY <1>1, <1>2, <1>10, HeldIsRead
  <2>2. StringExtension(event, "auditaction") = [value |-> x["auditaction"], err |-> Nil]
    BY <1>1, <1>3, <1>10, HeldIsRead
  <2>3. StringExtension(event, "auditoutcome") = [value |-> x["auditoutcome"], err |-> Nil]
    BY <1>1, <1>4, <1>10, HeldIsRead
  <2> QED BY <1>10, <2>1, <2>2, <2>3
<1>13. \A n \in contextNames : given[n] # "" => StringExtension(event, n) = [value |-> given[n], err |-> Nil]
  BY <1>1, <1>11, HeldIsRead
<1>14. \A n \in {"correlationid", "causationid"} : v.context[n] # "" =>
         StringExtension(event, n) = [value |-> v.context[n], err |-> Nil]
  BY <1>9, <1>13
<1>15. t # "" => StringExtension(event, "tenantid") = [value |-> ParseTenantID(t), err |-> Nil]
  BY <1>5, <1>9, <1>13
<1> QED BY <1>2, <1>3, <1>4, <1>5, <1>12, <1>14, <1>15

LEMMA AuditSurvives ==
  ASSUME EnrichmentInvariant, NEW a \in added, a.adapter = "audit" PROVE reads(a)
<1> DEFINE v == a.value
           context == v.context
           tenant == context["tenantid"]
           id      == StringExtension(event, "auditid")
           action  == StringExtension(event, "auditaction")
           outcome == StringExtension(event, "auditoutcome")
           parsed  == ParseUint8(outcome.value)
           texts   == {id.value, action.value, outcome.value}
           failures ==
                When({id.err, action.err, outcome.err} # {Nil}, ErrInvalidAdapterInput)
             ?? When(texts # {""} /\ ~TRUE, ErrUntrustedMetadata)
             ?? When(texts # {""} /\ "" \in texts, ErrInvalidAdapterInput)
             ?? When(texts # {""} /\ (parsed = Nil \/ parsed \notin Outcomes),
                     ErrInvalidAdapterInput)
           tenants == IF "tenantid" \in DOMAIN event.extensions THEN ExtractTenant(event, TRUE)
                      ELSE Returns({}, "")
           record(c, t) == [id |-> id.value, action |-> action.value, outcome |-> parsed,
                            correlation |-> c.value, tenant |-> t.value]
           Goal(r) ==
             IF r.err # Nil
             THEN \/ \E n \in correlationNames : Malformed(context, n, ParseID)
                  \/ Malformed(context, "tenantid", ParseTenantID)
             ELSE /\ <<r.value.id, r.value.action, r.value.outcome>> = <<v.id, v.action, v.outcome>>
                  /\ \A n \in {"correlationid", "causationid"} :
                       context[n] # "" => r.value.correlation[n] = ParseID(context[n])
                  /\ tenant # "" => r.value.tenant = ParseTenantID(tenant)
<1>1. /\ id = [value |-> v.id, err |-> Nil] /\ action = [value |-> v.action, err |-> Nil]
      /\ outcome = [value |-> FormatUint(v.outcome), err |-> Nil]
      /\ v.id # "" /\ v.action # "" /\ FormatUint(v.outcome) # ""
      /\ v.outcome \in Outcomes /\ ParseUint8(FormatUint(v.outcome)) = v.outcome
      /\ DOMAIN context = contextNames
      /\ \A n \in {"correlationid", "causationid"} : context[n] # "" =>
           StringExtension(event, n) = [value |-> context[n], err |-> Nil]
      /\ tenant # "" =>
           /\ StringExtension(event, "tenantid") = [value |-> ParseTenantID(tenant), err |-> Nil]
           /\ ParseTenantID(tenant) \notin {Nil, ""}
           /\ ParseTenantID(ParseTenantID(tenant)) = ParseTenantID(tenant)
  BY RecordRead
<1>2. \A r \in ExtractMetadata(event, TRUE) :
        /\ failures # {} => r \in Returns(failures, Nil)
        /\ failures = {} /\ texts # {""} =>
             r \in UNION {IF c.err # Nil THEN {c}
                          ELSE {[t EXCEPT !.value = IF t.err # Nil THEN Nil ELSE record(c, t)]
                                : t \in tenants}
                          : c \in ExtractCorrelation(event, TRUE)}
  BY DEF ExtractMetadata
<1>3. \A r : Goal(r) <=>
        IF r.err # Nil
        THEN \/ \E n \in correlationNames : Malformed(a.value.context, n, ParseID)
             \/ Malformed(a.value.context, "tenantid", ParseTenantID)
        ELSE /\ <<r.value.id, r.value.action, r.value.outcome>>
                  = <<a.value.id, a.value.action, a.value.outcome>>
             /\ \A n \in {"correlationid", "causationid"} : a.value.context[n] # "" =>
                  r.value.correlation[n] = ParseID(a.value.context[n])
             /\ a.value.context["tenantid"] # "" =>
                  r.value.tenant = ParseTenantID(a.value.context["tenantid"])
  OBVIOUS
<1>4. (\A r \in ExtractMetadata(event, TRUE) : Goal(r)) => reads(a)
  <2> HIDE DEF Goal
  <2> QED BY <1>3 DEF reads
<1> SUFFICES ASSUME NEW r \in ExtractMetadata(event, TRUE) PROVE Goal(r)
  BY <1>4
<1> HIDE DEF id, action, outcome
<1>5. /\ id.value = v.id /\ action.value = v.action /\ outcome.value = FormatUint(v.outcome)
      /\ id.err = Nil /\ action.err = Nil /\ outcome.err = Nil
  BY <1>1
<1>6. parsed = v.outcome /\ parsed \in Outcomes /\ parsed # Nil
  <2>1. parsed = v.outcome /\ parsed \in Outcomes
    BY <1>1, <1>5
  <2>2. Nil \notin Outcomes
    BY OutcomeAssumption
  <2> QED BY <2>1, <2>2
<1>7. failures = {} /\ texts # {""}
  <2>1. {id.err, action.err, outcome.err} = {Nil} BY <1>5
  <2>2. texts # {""} /\ "" \notin texts BY <1>1, <1>5
  <2> HIDE DEF texts, parsed
  <2> QED BY <1>6, <2>1, <2>2 DEF When, ??
<1> HIDE DEF failures, texts, parsed
<1>8. PICK c \in ExtractCorrelation(event, TRUE) :
        r \in IF c.err # Nil THEN {c}
              ELSE {[t EXCEPT !.value = IF t.err # Nil THEN Nil ELSE record(c, t)] : t \in tenants}
  BY <1>2, <1>7
<1>9. /\ c.err # Nil => \E n \in correlationNames : Malformed(context, n, ParseID)
      /\ c.err = Nil => \A n \in correlationNames : n \in DOMAIN context /\ context[n] # "" =>
                           c.value[n] = ParseID(context[n])
  <2>1. \A n \in correlationNames : n \in DOMAIN context /\ context[n] # "" =>
          StringExtension(event, n) = [value |-> context[n], err |-> Nil]
    BY <1>1 DEF correlationNames, contextNames
  <2> HIDE DEF context
  <2> QED BY <2>1, CorrelationRead
<1>10. CASE c.err # Nil
  <2>1. r = c BY <1>8, <1>10
  <2> QED BY <1>9, <1>10, <2>1
<1>11. CASE c.err = Nil
  <2>1. PICK t \in tenants : r = [t EXCEPT !.value = IF t.err # Nil THEN Nil ELSE record(c, t)]
    BY <1>8, <1>11
  <2>2. /\ t = [value |-> t.value, err |-> t.err]
        /\ t.err # Nil => Malformed(context, "tenantid", ParseTenantID)
        /\ t.err = Nil /\ tenant # "" => t.value = ParseTenantID(tenant)
    <3> DEFINE read == StringExtension(event, "tenantid")
    <3>p. tenant # "" => read.value = ParseTenantID(tenant) /\ read.err = Nil
      <4> SUFFICES ASSUME tenant # ""
                   PROVE  read.value = ParseTenantID(tenant) /\ read.err = Nil
        OBVIOUS
      <4> DEFINE pair == [value |-> ParseTenantID(tenant), err |-> Nil]
      <4>1. read = pair
        BY <1>1
      <4>2. pair.value = ParseTenantID(tenant) /\ pair.err = Nil
        OBVIOUS
      <4> HIDE DEF pair, read, tenant
      <4> QED BY <4>1, <4>2
    <3>1. CASE "tenantid" \in DOMAIN event.extensions
      <4>1. t \in ExtractTenant(event, TRUE) BY <2>1, <3>1
      <4>2. /\ t = [value |-> t.value, err |-> t.err]
            /\ t.err # Nil <=> read.err # Nil \/ read.value = "" \/ ParseTenantID(read.value) = Nil
            /\ t.err = Nil => t.value = ParseTenantID(read.value)
        BY <4>1, TenantRead
      <4>3. tenant # "" => read.value = ParseTenantID(tenant) /\ read.err = Nil
        BY <3>p
      <4>4. ASSUME t.err # Nil PROVE Malformed(context, "tenantid", ParseTenantID)
        <5>1. tenant = "" BY <1>1, <4>2, <4>3, <4>4
        <5>2. \E y \in extensionOf(event, "tenantid") :
                y.kind # "string" \/ y.text = "" \/ ParseTenantID(y.text) = Nil
          BY <3>1, <4>2, <4>4, ReadParts
        <5> QED BY <5>1, <5>2 DEF Malformed
      <4>5. t.err = Nil /\ tenant # "" => t.value = ParseTenantID(tenant)
        <5> HIDE DEF read, tenant
        <5> QED BY <1>1, <4>2, <4>3
      <4> QED BY <4>2, <4>4, <4>5
    <3>2. CASE "tenantid" \notin DOMAIN event.extensions
      <4>1. t = [value |-> "", err |-> Nil] BY <2>1, <3>2 DEF Returns
      <4>2. read.value = "" BY <3>2 DEF StringExtension
      <4>3. tenant = ""
        <5>1. tenant # "" => read.value = ParseTenantID(tenant) BY <3>p
        <5> QED BY <1>1, <4>2, <5>1
      <4> QED BY <4>1, <4>3
    <3> QED BY <3>1, <3>2
  <2>3. r.err = t.err /\ (t.err = Nil => r.value = record(c, t))
    BY <2>1, <2>2
  <2>4. CASE t.err # Nil
    BY <2>2, <2>3, <2>4
  <2>5. CASE t.err = Nil
    <3>1. /\ r.value.id = v.id /\ r.value.action = v.action /\ r.value.outcome = v.outcome
          /\ r.value.correlation = c.value /\ r.value.tenant = t.value
      <4>1. /\ record(c, t).id = id.value /\ record(c, t).action = action.value
            /\ record(c, t).outcome = parsed /\ record(c, t).correlation = c.value
            /\ record(c, t).tenant = t.value
        OBVIOUS
      <4> HIDE DEF record
      <4> QED BY <1>5, <1>6, <2>3, <2>5, <4>1
    <3>2. \A n \in {"correlationid", "causationid"} :
            context[n] # "" => r.value.correlation[n] = ParseID(context[n])
      BY <1>1, <1>9, <1>11, <3>1 DEF correlationNames, contextNames
    <3> QED BY <2>2, <2>3, <2>5, <3>1, <3>2
  <2> QED BY <2>4, <2>5
<1> QED BY <1>10, <1>11

\* What any service added with any adapter is what every later service that trusts
\* the event extracts, whatever was added in between and whichever bindings it
\* crossed; an extraction that fails fails for an identifier that is malformed.
THEOREM AddedContextSurvives == ASSUME ClosedStrings PROVE Spec => []AdditionsSurvive
<1>1. EnrichmentInvariant => AdditionsSurvive
  BY CorrelationSurvives, TenantSurvives, TraceSurvives, AuditSurvives, AdditionAssumption
     DEF EnrichmentInvariant, AdditionsSurvive, adapters
<1>2. Spec => []EnrichmentInvariant
  BY InitEnrichment, NextEnrichment, PTL DEF Spec
<1> QED BY <1>1, <1>2, PTL
=============================================================================
