--------------------------- MODULE CrossingLemmas ---------------------------
(***************************************************************************)
(* Facts about the event model and the bindings that the proofs of several *)
(* components rest on: what NewEvent and Validate promise of an event,     *)
(* what adding string extensions leaves alone, what the decoders return    *)
(* for arbitrary messages, and what a crossing does to an event, for every *)
(* event, mode and limit: the laws of the string operators carry each text *)
(* over the wire and back.                                                 *)
(***************************************************************************)
EXTENDS AdapterHelpers, WellFoundedInduction, FiniteSetTheorems, TLAPS

\* The least of some indices is one of them (Min is FiniteSetsExt's).
LEMMA MinOfNaturals ==
  ASSUME NEW S, S \subseteq Nat, S # {}
  PROVE  Min(S) \in S /\ \A y \in S : Min(S) <= y
<1> DEFINE less == OpToRel(<, Nat)
<1>1. IsWellFoundedOn(less, Nat)
  BY NatLessThanWellFounded
<1>2. \A u, v \in Nat : u < v => <<u, v>> \in less
  BY DEF OpToRel
<1> HIDE DEF less
<1>3. PICK x \in S : \A y \in S : <<y, x>> \notin less
  BY <1>1, WFMin
<1>4. ASSUME NEW y \in S PROVE x <= y
  <2>1. x \in Nat /\ y \in Nat OBVIOUS
  <2>2. <<y, x>> \notin less BY <1>3
  <2>3. ~(y < x) BY <1>2, <2>1, <2>2
  <2> QED BY <2>1, <2>3
<1> QED BY <1>4 DEF Min

\* The errors of the package and of the adapters are not nil.
LEMMA ErrorsAreNotNil ==
  /\ Nil \notin Errors
  /\ Nil \notin {ErrInvalidAdapterInput, ErrMetadataCollision, ErrUntrustedMetadata}
  BY ErrorAssumption, AdapterErrorAssumption

\* A function fails with one of its failures, or returns its value.
LEMMA ReturnsEither ==
  ASSUME NEW F, NEW v, NEW r \in Returns(F, v), Nil \notin F
  PROVE  /\ r = [value |-> r.value, err |-> r.err]
         /\ r.err = Nil => F = {} /\ r.value = v
         /\ r.err # Nil => r.err \in F /\ r.value = Nil
         /\ F = {} => r = [value |-> v, err |-> Nil]
  BY DEF Returns

\* What it returns is a pair.
LEMMA ReturnsPair ==
  ASSUME NEW F, NEW v, NEW r \in Returns(F, v) PROVE r = [value |-> r.value, err |-> r.err]
  BY DEF Returns

\* Every function returns something.
LEMMA ReturnsSomething ==
  ASSUME NEW F, NEW v PROVE Returns(F, v) # {}
<1>1. CASE F = {} BY <1>1 DEF Returns
<1>2. CASE F # {}
  <2>1. PICK f : f \in F BY <1>2
  <2>2. [value |-> Nil, err |-> f] \in Returns(F, v) BY <1>2, <2>1 DEF Returns
  <2> QED BY <2>2
<1> QED BY <1>1, <1>2

\* Core attributes that validateAttributes accepts, whatever the extensions.
CoreValid(a) ==
  /\ a.id # "" /\ ValidCloudString(a.id)
  /\ a.source # "" /\ ValidCloudString(a.source) /\ ValidURIReference(a.source)
  /\ a.type # "" /\ ValidCloudString(a.type)
  /\ MediaClass(a.dataContentType) # "malformed"
  /\ a.dataSchema # "" => ValidAbsoluteURI(a.dataSchema)
  /\ a.subject # "" => ValidCloudString(a.subject)

\* Extensions it accepts.
ExtensionsValid(ext) ==
  /\ \A n \in DOMAIN ext :
       ValidName(n) /\ n \notin reservedAttributeNames /\ validAttribute(ext[n])
  /\ "traceparent" \in DOMAIN ext =>
       ext["traceparent"].kind = "string" /\ ValidTraceParent(ext["traceparent"].text)
  /\ "tracestate" \in DOMAIN ext =>
       /\ ext["tracestate"].kind = "string" /\ ValidTraceState(ext["tracestate"].text)
       /\ "traceparent" \in DOMAIN ext
  /\ "partitionkey" \in DOMAIN ext =>
       ext["partitionkey"].kind = "string" /\ ext["partitionkey"].text # ""

\* No issue is found with extensions whose names and values are accepted.
LEMMA ExtensionIssuesEmpty ==
  ASSUME NEW ext
  PROVE  ExtensionIssues(ext) = {} <=>
           \A n \in DOMAIN ext :
             ValidName(n) /\ n \notin reservedAttributeNames /\ validAttribute(ext[n])
<1> DEFINE issue(n) ==
      IF ~ValidName(n) THEN {<<Ext(n), "invalid_name">>}
      ELSE IF n \in reservedAttributeNames THEN {<<Ext(n), "reserved_name">>}
      ELSE When(~validAttribute(ext[n]), <<Ext(n), "invalid_attribute">>)
<1>1. ExtensionIssues(ext) = UNION {issue(n) : n \in DOMAIN ext}
  BY DEF ExtensionIssues
<1>2. \A n : issue(n) = {} <=>
        ValidName(n) /\ n \notin reservedAttributeNames /\ validAttribute(ext[n])
  BY DEF When
<1> HIDE DEF issue
<1>3. UNION {issue(n) : n \in DOMAIN ext} = {} <=> \A n \in DOMAIN ext : issue(n) = {}
  OBVIOUS
<1> QED BY <1>1, <1>2, <1>3

\* What validateAttributes accepts, rule by rule.
LEMMA ValidAttributesRules ==
  ASSUME NEW a
  PROVE  validateAttributes(a) = {} <=> CoreValid(a) /\ ExtensionsValid(a.extensions)
  BY ExtensionIssuesEmpty, ZenonT(40) DEF validateAttributes, CoreValid, ExtensionsValid, When

\* What Event.Validate accepts.
LEMMA ValidateRules ==
  ASSUME NEW e
  PROVE  Validate(e) = {} <=> validateAttributes(e) = {} /\ validData(e.data)
  BY DEF Validate, When, ??

\* NewEvent returns an event of exactly its arguments, or ErrInvalidEvent when
\* an attribute breaks a rule.
LEMMA NewEventResult ==
  ASSUME NEW a, NEW data, NEW r \in NewEvent(a, data)
  PROVE  /\ r = [value |-> r.value, err |-> r.err]
         /\ r.err = Nil <=> validateAttributes(a) = {}
         /\ r.err = Nil => r.value = withData(a, data)
         /\ r.err # Nil => r.err = ErrInvalidEvent /\ r.value = Nil
<1> DEFINE F == When(validateAttributes(a) # {}, ErrInvalidEvent)
<1>1. F = IF validateAttributes(a) # {} THEN {ErrInvalidEvent} ELSE {}
  BY DEF When
<1>2. r \in Returns(F, withData(a, data)) /\ Nil \notin F
  BY <1>1, ErrorsAreNotNil DEF NewEvent, Errors
<1> HIDE DEF F
<1> QED BY <1>1, <1>2, ReturnsEither

\* Validation reads nothing of an event but its attributes and its data.
LEMMA WithDataValid ==
  ASSUME NEW a, NEW data, validateAttributes(a) = {}, validData(data)
  PROVE  Validate(withData(a, data)) = {}
<1>1. validateAttributes(withData(a, data)) = {}
  BY ValidAttributesRules DEF withData, CoreValid
<1>2. withData(a, data).data = data BY DEF withData
<1> QED BY <1>1, <1>2, ValidateRules

-----------------------------------------------------------------------------
(* AddStringExtensions.                                                     *)

\* Whether the additions are strings an extension may hold, and agree with the
\* extensions that are there.
Addable(extensions, additions) ==
  \A n \in DOMAIN additions :
    /\ validAttribute(Attribute("string", additions[n]))
    /\ n \in DOMAIN extensions => extensions[n] = Attribute("string", additions[n])

\* The event with the additions among its extensions.
Enriched(e, additions) ==
  withData(Attributes(e.id, e.source, e.type, e.dataContentType, e.dataSchema, e.subject,
                      e.time, e.extensions ++ stringAttributes(additions)), e.data)

\* An addition succeeds exactly when the event is valid, the additions agree with
\* it and the enlarged event is valid; it then returns the enlarged event.
LEMMA AddStringExtensionsResult ==
  ASSUME NEW e, NEW x, NEW r \in AddStringExtensions(e, x)
  PROVE  /\ r.err = Nil <=> /\ Validate(e) = {}
                            /\ Addable(e.extensions, x)
                            /\ ExtensionsValid(e.extensions ++ stringAttributes(x))
         /\ r.err = Nil => r.value = Enriched(e, x)
<1> DEFINE failure(n) ==
         When(~validAttribute(Attribute("string", x[n])), ErrInvalidAdapterInput)
      ?? When(/\ n \in DOMAIN e.extensions
              /\ ~AttributesEqual(e.extensions[n], Attribute("string", x[n])),
              ErrMetadataCollision)
    failed == UNION {failure(n) : n \in DOMAIN x}
    failures == When(Validate(e) # {}, ErrInvalidAdapterInput) ?? failed
    enlarged == Attributes(e.id, e.source, e.type, e.dataContentType, e.dataSchema, e.subject,
                           e.time, e.extensions ++ stringAttributes(x))
<1>1. /\ failures # {} => r \in Returns(failures, Nil)
      /\ failures = {} => r \in NewEvent(enlarged, e.data)
  BY DEF AddStringExtensions, RebuildEvent
<1>2. \A n : failure(n) \subseteq {ErrInvalidAdapterInput, ErrMetadataCollision}
  BY DEF When, ??
<1>3. \A n : failure(n) = {} <=>
               /\ validAttribute(Attribute("string", x[n]))
               /\ n \in DOMAIN e.extensions => e.extensions[n] = Attribute("string", x[n])
  BY DEF When, ??, AttributesEqual
<1> HIDE DEF failure
<1>4. /\ failed \subseteq {ErrInvalidAdapterInput, ErrMetadataCollision}
      /\ failed = {} <=> Addable(e.extensions, x)
  <2>1. ASSUME NEW f \in failed PROVE f \in {ErrInvalidAdapterInput, ErrMetadataCollision}
    <3>1. PICK n \in DOMAIN x : f \in failure(n) OBVIOUS
    <3> QED BY <1>2, <3>1
  <2>2. failed = {} <=> \A n \in DOMAIN x : failure(n) = {}
    OBVIOUS
  <2> QED BY <1>3, <2>1, <2>2 DEF Addable
<1> HIDE DEF failed
<1>5. /\ failures \subseteq {ErrInvalidAdapterInput, ErrMetadataCollision}
      /\ failures = {} <=> Validate(e) = {} /\ Addable(e.extensions, x)
  BY <1>4 DEF When, ??
<1>6. Nil \notin failures
  BY <1>5, ErrorsAreNotNil
<1> HIDE DEF failures
<1>7. CASE failures # {}
  BY <1>1, <1>5, <1>6, <1>7, ReturnsEither
<1>8. CASE failures = {}
  <2>1. r \in NewEvent(enlarged, e.data)
    BY <1>1, <1>8
  <2>2. /\ enlarged.extensions = e.extensions ++ stringAttributes(x)
        /\ CoreValid(enlarged) <=> CoreValid(e)
    BY DEF CoreValid, Attributes
  <2>3. CoreValid(e)
    BY <1>5, <1>8, ValidateRules, ValidAttributesRules
  <2>4. Enriched(e, x) = withData(enlarged, e.data)
    BY DEF Enriched
  <2> HIDE DEF enlarged
  <2>5. validateAttributes(enlarged) = {} <=> ExtensionsValid(e.extensions ++ stringAttributes(x))
    BY <2>2, <2>3, ValidAttributesRules
  <2> QED BY <1>5, <1>8, <2>1, <2>4, <2>5, NewEventResult
<1> QED BY <1>7, <1>8

\* It can succeed whenever it should.
LEMMA AddStringExtensionsReturns ==
  ASSUME NEW e, NEW x PROVE AddStringExtensions(e, x) # {}
  BY ReturnsSomething DEF AddStringExtensions, RebuildEvent, NewEvent

\* An enlarged event differs from the first in its extensions only.
LEMMA EnrichedFields ==
  ASSUME NEW e, NEW x
  PROVE  LET f == Enriched(e, x) IN
         /\ f.id = e.id /\ f.source = e.source /\ f.type = e.type
         /\ f.dataContentType = e.dataContentType /\ f.dataSchema = e.dataSchema
         /\ f.subject = e.subject /\ f.time = e.time /\ f.data = e.data
         /\ f.extensions = e.extensions ++ stringAttributes(x)
  BY DEF Enriched, withData, Attributes

\* An enlarged event is valid when it was and its extensions are.
LEMMA EnrichedValid ==
  ASSUME NEW e, NEW x, Validate(e) = {}, ExtensionsValid(e.extensions ++ stringAttributes(x))
  PROVE  Validate(Enriched(e, x)) = {}
<1>1. CoreValid(e) /\ validData(e.data)
  BY ValidateRules, ValidAttributesRules
<1>2. CoreValid(Enriched(e, x)) /\ validData(Enriched(e, x).data)
  BY <1>1, EnrichedFields, ZenonT(40) DEF CoreValid
<1> QED BY <1>2, EnrichedFields, ValidateRules, ValidAttributesRules

-----------------------------------------------------------------------------
(* What the decoders return.                                                *)

\* A pair an operation may return that is an error or valid data.
DataResult(r) == r.err = Nil => validData(r.value)

\* NewJSONData and NewTextData check what they are given.
LEMMA NewDataResult ==
  ASSUME NEW value
  PROVE  /\ \A r \in NewJSONData(value) : DataResult(r)
         /\ \A r \in NewTextData(value) : DataResult(r)
         /\ NewJSONData(value) # {} /\ NewTextData(value) # {}
         /\ validData(NewBinaryData(value)) /\ validData(NoData)
<1>1. \A r \in NewJSONData(value) : DataResult(r)
  <2> SUFFICES ASSUME NEW r \in NewJSONData(value), r.err = Nil PROVE validData(r.value)
    BY DEF DataResult
  <2>1. When(~ValidJSON(value), ErrInvalidData) = IF ValidJSON(value) THEN {} ELSE {ErrInvalidData}
    BY DEF When
  <2>2. ValidJSON(value) /\ r.value = [kind |-> "json", bytes |-> value]
    BY <2>1, ErrorsAreNotNil, ReturnsEither DEF NewJSONData, Errors
  <2> QED BY <2>2 DEF validData, DataKinds
<1>2. \A r \in NewTextData(value) : DataResult(r)
  <2> SUFFICES ASSUME NEW r \in NewTextData(value), r.err = Nil PROVE validData(r.value)
    BY DEF DataResult
  <2>1. When(~ValidUTF8(value), ErrInvalidData) = IF ValidUTF8(value) THEN {} ELSE {ErrInvalidData}
    BY DEF When
  <2>2. ValidUTF8(value) /\ r.value = [kind |-> "text", bytes |-> value]
    BY <2>1, ErrorsAreNotNil, ReturnsEither DEF NewTextData, Errors
  <2> QED BY <2>2 DEF validData, DataKinds
<1>3. NewJSONData(value) # {} /\ NewTextData(value) # {}
  BY ReturnsSomething DEF NewJSONData, NewTextData
<1>4. validData(NewBinaryData(value)) /\ validData(NoData)
  BY DEF validData, DataKinds, NewBinaryData, NoData
<1> QED BY <1>1, <1>2, <1>3, <1>4

\* A valid event with its fields and no others.
ValidEvent(e) == Validate(e) = {} /\ e = withData(e, e.data)

\* An event NewEvent returns is valid when its data is.
LEMMA NewEventValid ==
  ASSUME NEW a, NEW data, validData(data), NEW r \in NewEvent(a, data), r.err = Nil
  PROVE  ValidEvent(r.value)
<1>1. r.value = withData(a, data) /\ validateAttributes(a) = {}
  BY NewEventResult
<1>2. withData(a, data) = withData(withData(a, data), withData(a, data).data)
  BY DEF withData
<1> QED BY <1>1, <1>2, WithDataValid DEF ValidEvent

\* An event or an error.
EventResult(r) ==
  /\ r = [value |-> r.value, err |-> r.err]
  /\ r.err = Nil => ValidEvent(r.value)

\* Failures that are errors, or valid data.
LEMMA ReturnsData ==
  ASSUME NEW F, NEW v, F \subseteq Errors, F = {} => validData(v), NEW r \in Returns(F, v)
  PROVE  DataResult(r)
<1>1. Nil \notin F BY ErrorsAreNotNil
<1> QED BY <1>1, ReturnsEither DEF DataResult

\* The data they make of it.
LEMMA NewData ==
  ASSUME NEW value
  PROVE  /\ \A r \in NewJSONData(value) : r.err = Nil => r.value = [kind |-> "json", bytes |-> value]
         /\ \A r \in NewTextData(value) : r.err = Nil => r.value = [kind |-> "text", bytes |-> value]
         /\ \A r \in Returns({}, NewBinaryData(value)) : r.value = [kind |-> "binary", bytes |-> value]
<1>n. Nil # ErrInvalidData
  BY ErrorsAreNotNil DEF Errors
<1>1. \A r \in NewJSONData(value) : r.err = Nil => r.value = [kind |-> "json", bytes |-> value]
  <2> TAKE r \in NewJSONData(value)
  <2> DEFINE F == When(~ValidJSON(value), ErrInvalidData)
  <2>1. r \in Returns(F, [kind |-> "json", bytes |-> value]) /\ Nil \notin F
    BY <1>n DEF NewJSONData, When
  <2> HIDE DEF F
  <2> QED BY <2>1, ReturnsEither
<1>2. \A r \in NewTextData(value) : r.err = Nil => r.value = [kind |-> "text", bytes |-> value]
  <2> TAKE r \in NewTextData(value)
  <2> DEFINE F == When(~ValidUTF8(value), ErrInvalidData)
  <2>1. r \in Returns(F, [kind |-> "text", bytes |-> value]) /\ Nil \notin F
    BY <1>n DEF NewTextData, When
  <2> HIDE DEF F
  <2> QED BY <2>1, ReturnsEither
<1>3. \A r \in Returns({}, NewBinaryData(value)) : r.value = [kind |-> "binary", bytes |-> value]
  BY DEF Returns, NewBinaryData
<1> QED BY <1>1, <1>2, <1>3

\* Whatever the JSON document, its data is an error or valid.
LEMMA JSONDataResult ==
  ASSUME NEW doc, NEW ct, NEW lim
  PROVE  /\ decodeJSONData(doc, ct, lim) # {}
         /\ \A r \in decodeJSONData(doc, ct, lim) : DataResult(r)
<1> DEFINE limit  == lim.MaxDataBytes
           base64 == Unquote(doc.members["data_base64"])
           raw    == TrimSpace(doc.members["data"])
           text   == IF JSONType(raw) = "null" THEN "" ELSE Unquote(raw)
           binaryFailures ==
                When(~hasMember(doc, "data_base64") \/ base64 = Nil, ErrInvalidEvent)
             ?? When(limit <= 0 \/ Base64Length(base64) > limit, ErrLimitExceeded)
             ?? When(Unbase64(base64) = Nil \/ Base64(Unbase64(base64)) # base64, ErrInvalidEvent)
           textFailures ==
                When(exceedsJSONEncodedStringLimit(Size(raw), limit), ErrLimitExceeded)
             ?? When(text = Nil, ErrInvalidEvent)
             ?? When(Size(text) > limit, ErrLimitExceeded)
<1>1. decodeJSONData(doc, ct, lim) \in
        {Returns({ErrInvalidEvent}, Nil), Returns({ErrLimitExceeded}, Nil), Returns({}, NoData),
         Returns(binaryFailures, NewBinaryData(Unbase64(base64))), NewJSONData(raw),
         NewTextData(text)}
        \cup (IF textFailures # {} THEN {Returns(textFailures, Nil)} ELSE {})
  BY DEF decodeJSONData
<1>2. binaryFailures \subseteq Errors /\ textFailures \subseteq Errors
  BY DEF When, ??, Errors
<1> HIDE DEF binaryFailures, textFailures, base64, raw, text
<1>3. {ErrInvalidEvent} \subseteq Errors /\ {ErrLimitExceeded} \subseteq Errors
  BY DEF Errors
<1> QED BY <1>1, <1>2, <1>3, NewDataResult, ReturnsData, ReturnsSomething

\* The stages of a decoder fail with errors of the package.
LEMMA StagesFailWithErrors ==
  ASSUME NEW A, NEW B, Nil \notin A, Nil \notin B
  PROVE  Nil \notin A ?? B
  BY DEF ??

LEMMA WhenFailsWithError ==
  ASSUME NEW c, NEW e, e # Nil PROVE Nil \notin When(c, e)
  BY DEF When

LEMMA MemberFailures ==
  ASSUME NEW doc, NEW lim
  PROVE  /\ \A name, required : Nil \notin stringMember(doc, name, required, lim)
         /\ \A name : Nil \notin extensionFailure(doc, name, lim)
         /\ \A depth : Nil \notin inspectJSON(doc, depth)
<1>1. \A name, required : Nil \notin stringMember(doc, name, required, lim)
  BY ErrorsAreNotNil DEF stringMember, When, ??, Errors
<1>2. \A name : Nil \notin extensionFailure(doc, name, lim)
  BY ErrorsAreNotNil DEF extensionFailure, When, ??, Errors
<1>3. \A depth : Nil \notin inspectJSON(doc, depth)
  BY ErrorsAreNotNil DEF inspectJSON, When, ??, Errors
<1> QED BY <1>1, <1>2, <1>3

LEMMA ContextFailures ==
  ASSUME NEW doc, NEW lim
  PROVE  Nil \notin decodeContext(doc, lim)
<1>1. ErrInvalidEvent # Nil
  BY ErrorsAreNotNil DEF Errors
<1> QED BY <1>1, MemberFailures, StagesFailWithErrors, WhenFailsWithError DEF decodeContext

\* DecodeJSON returns a valid event or an error, for every body and every limit,
\* and never leaves it open which.
LEMMA DecodeJSONResult ==
  ASSUME NEW body, NEW lim
  PROVE  /\ DecodeJSON(body, lim) # {}
         /\ \A r \in DecodeJSON(body, lim) : EventResult(r)
         /\ \A p, q \in DecodeJSON(body, lim) : p.err = Nil => q.err = Nil
<1> DEFINE doc == asDocument(body)
           contentType == memberText(doc, "datacontenttype")
           dataResult  == CHOOSE r \in decodeJSONData(doc, contentType, lim) : TRUE
           attributes  == Attributes(memberText(doc, "id"), memberText(doc, "source"),
                            memberText(doc, "type"), contentType,
                            memberText(doc, "dataschema"), memberText(doc, "subject"),
                            IF hasMember(doc, "time") THEN ParseTime(memberText(doc, "time")) ELSE "",
                            decodedExtensions(doc))
           size  == When(lim.MaxEventBytes <= 0 \/ BodySize(body) > lim.MaxEventBytes, ErrLimitExceeded)
           form  == When(doc.form # "doc", ErrInvalidEvent)
           count == When(lim.MaxAttributes <= 0 \/ countJSONAttributes(doc) > lim.MaxAttributes,
                         ErrLimitExceeded)
           extensions == UNION {extensionFailure(doc, n, lim) : n \in extensionMembers(doc)}
           data  == When(dataResult.err # Nil, dataResult.err)
           failures == size ?? inspectJSON(doc, lim.MaxDepth) ?? form ?? count
                       ?? decodeContext(doc, lim) ?? extensions ?? data
<1>1. DecodeJSON(body, lim) = IF failures # {} THEN Returns(failures, Nil)
                              ELSE NewEvent(attributes, dataResult.value)
  BY DEF DecodeJSON
<1>2. DataResult(dataResult)
  BY JSONDataResult
<1>3. /\ Nil \notin size /\ Nil \notin form /\ Nil \notin count /\ Nil \notin data
      /\ data = {} => dataResult.err = Nil
  BY ErrorsAreNotNil DEF When, Errors
<1>4. Nil \notin extensions
  BY MemberFailures
<1> HIDE DEF size, form, count, extensions, data, dataResult, attributes
<1>5. Nil \notin failures
  BY <1>3, <1>4, MemberFailures, ContextFailures, StagesFailWithErrors
<1>6. failures = {} => data = {}
  BY DEF ??
<1> HIDE DEF failures
<1>7. CASE failures # {}
  <2>1. \A r \in Returns(failures, Nil) : r = [value |-> r.value, err |-> r.err] /\ r.err # Nil
    BY <1>5, <1>7, ReturnsEither
  <2> QED BY <1>1, <1>7, <2>1, ReturnsSomething DEF EventResult
<1>8. CASE failures = {}
  <2>1. validData(dataResult.value)
    BY <1>2, <1>3, <1>6, <1>8 DEF DataResult
  <2>2. NewEvent(attributes, dataResult.value) # {}
    BY ReturnsSomething DEF NewEvent
  <2>3. \A r \in NewEvent(attributes, dataResult.value) : EventResult(r)
    BY <2>1, NewEventValid, NewEventResult DEF EventResult
  <2>4. \A p, q \in NewEvent(attributes, dataResult.value) : p.err = Nil => q.err = Nil
    BY NewEventResult
  <2> QED BY <1>1, <1>8, <2>2, <2>3, <2>4
<1> QED BY <1>7, <1>8

IsSequence(s) == s \in Seq({s[i] : i \in DOMAIN s})

\* A sequence is one of its own members.
LEMMA SequenceOfMembers ==
  ASSUME NEW S, NEW s \in Seq(S)
  PROVE  IsSequence(s)
<1>1. DOMAIN s = 1..Len(s) /\ Len(s) \in Nat
  OBVIOUS
<1> DEFINE T == {s[i] : i \in DOMAIN s}
<1>2. s \in [1..Len(s) -> T]
  BY <1>1
<1>3. s \in Seq(T)
  BY <1>1, <1>2
<1> QED BY <1>3 DEF IsSequence

\* An error, or a sequence of valid events: one, or one for each document of a
\* batch.
EventsResult(r, body) ==
  /\ r = [value |-> r.value, err |-> r.err]
  /\ r.err = Nil =>
       /\ IsSequence(r.value)
       /\ \A i \in DOMAIN r.value : ValidEvent(r.value[i])
       /\ \/ DOMAIN r.value = {1}
          \/ body.form = "batch" /\ DOMAIN r.value = DOMAIN body.docs

\* A function on the indices of a sequence is a sequence.
LEMMA SameIndices ==
  ASSUME NEW s, IsSequence(s), NEW t, t = [i \in DOMAIN s |-> t[i]]
  PROVE  IsSequence(t)
<1>1. PICK S : s \in Seq(S)
  BY DEF IsSequence
<1>2. DOMAIN s = 1..Len(s) /\ Len(s) \in Nat
  BY <1>1
<1> DEFINE T == {t[i] : i \in 1..Len(s)}
<1>3. t \in [1..Len(s) -> T]
  BY <1>2
<1>4. t \in Seq(T)
  BY <1>2, <1>3
<1> QED BY <1>4, SequenceOfMembers

\* One event in a sequence of its own.
LEMMA SingletonResult ==
  ASSUME NEW e, ValidEvent(e)
  PROVE  /\ IsSequence(<<e>>)
         /\ \A i \in DOMAIN <<e>> : ValidEvent(<<e>>[i])
         /\ DOMAIN <<e>> = {1}
<1>1. <<e>> \in Seq({e}) /\ DOMAIN <<e>> = {1} /\ <<e>>[1] = e
  OBVIOUS
<1>2. IsSequence(<<e>>)
  BY <1>1, SequenceOfMembers
<1>3. \A i \in {1} : ValidEvent(<<e>>[i])
  BY <1>1
<1> QED BY <1>1, <1>2, <1>3

\* DecodeJSONBatch returns valid events or an error.
LEMMA DecodeJSONBatchResult ==
  ASSUME NEW body, NEW lim, body.form = "batch" => IsSequence(body.docs),
         NEW r \in DecodeJSONBatch(body, lim)
  PROVE  EventsResult(r, body)
<1> DEFINE decoded(i) == DecodeJSON(body.docs[i], lim)
           failing == {i \in DOMAIN body.docs : \E q \in decoded(i) : q.err # Nil}
           size  == When(lim.MaxEventBytes <= 0 \/ BodySize(body) > lim.MaxEventBytes, ErrLimitExceeded)
           depth == When(lim.MaxDepth <= 0 \/ lim.MaxDepth = MaxInt, ErrLimitExceeded)
           form  == When(body.form # "batch", ErrInvalidEvent)
           count == When(lim.MaxBatchEvents <= 0 \/ Len(body.docs) > lim.MaxBatchEvents,
                         ErrLimitExceeded)
           first == IF failing = {} THEN {} ELSE {q.err : q \in decoded(Min(failing))}
           failures == size ?? depth ?? inspectJSON(body, lim.MaxDepth + 1) ?? form ?? count ?? first
           value == [i \in DOMAIN body.docs |-> (CHOOSE q \in decoded(i) : TRUE).value]
<1>1. r \in Returns(failures, value)
  BY DEF DecodeJSONBatch
<1>0. r = [value |-> r.value, err |-> r.err]
  BY <1>1, ReturnsPair
<1> SUFFICES ASSUME r.err = Nil
             PROVE  /\ IsSequence(r.value)
                    /\ \A i \in DOMAIN r.value : ValidEvent(r.value[i])
                    /\ body.form = "batch" /\ DOMAIN r.value = DOMAIN body.docs
  BY <1>0 DEF EventsResult
<1>2. /\ Nil \notin size /\ Nil \notin depth /\ Nil \notin form /\ Nil \notin count
      /\ form = {} => body.form = "batch"
  BY ErrorsAreNotNil DEF When, Errors
<1>3. \A i : decoded(i) # {} /\ \A q \in decoded(i) : EventResult(q)
  BY DecodeJSONResult
<1>4. \A i : \A p, q \in decoded(i) : p.err = Nil => q.err = Nil
  BY DecodeJSONResult
<1>5. body.form = "batch" => DOMAIN body.docs \subseteq Nat
  BY DEF IsSequence
<1> HIDE DEF size, depth, form, count, decoded
<1>6. body.form = "batch" /\ failing # {} => first # {} /\ Nil \notin first
  <2> SUFFICES ASSUME body.form = "batch", failing # {} PROVE first # {} /\ Nil \notin first
    OBVIOUS
  <2>1. Min(failing) \in failing
    BY <1>5, MinOfNaturals
  <2> DEFINE least == Min(failing)
  <2>2. PICK q \in decoded(least) : q.err # Nil
    BY <2>1
  <2>3. \A p \in decoded(least) : p.err # Nil
    BY <1>4, <2>2
  <2>4. first = {p.err : p \in decoded(least)}
    OBVIOUS
  <2> HIDE DEF least, first
  <2> QED BY <2>2, <2>3, <2>4
<1>7. failures = {}
  <2> DEFINE before == size ?? depth ?? inspectJSON(body, lim.MaxDepth + 1) ?? form ?? count
  <2>1. Nil \notin before
    BY <1>2, MemberFailures, StagesFailWithErrors
  <2>2. before = {} => form = {}
    BY DEF ??
  <2> HIDE DEF before, first, failing
  <2>3. Nil \notin failures
    BY <1>2, <1>6, <2>1, <2>2 DEF ??, before, first
  <2> QED BY <1>1, <2>3, ReturnsEither
<1>8. form = {} /\ first = {}
  BY <1>7 DEF ??
<1>9. body.form = "batch" /\ failing = {}
  BY <1>2, <1>6, <1>8
<1>10. r.value = value
  BY <1>1, <1>7, ReturnsEither
<1>11. \A i \in DOMAIN body.docs : ValidEvent((CHOOSE q \in decoded(i) : TRUE).value)
  BY <1>3, <1>9 DEF EventResult
<1>12. IsSequence(value)
  BY <1>9, SameIndices
<1> QED BY <1>9, <1>10, <1>11, <1>12

-----------------------------------------------------------------------------
(* HTTP and Kafka.                                                          *)

\* Data of a binary message is an error or valid.
LEMMA DataOfResult ==
  ASSUME NEW ct, NEW value
  PROVE  dataOf(ct, value) # {} /\ \A r \in dataOf(ct, value) : DataResult(r)
<1>1. dataOf(ct, value) \in {NewJSONData(value), NewTextData(value), Returns({}, NewBinaryData(value))}
  BY DEF dataOf
<1>2. \A r \in Returns({}, NewBinaryData(value)) : DataResult(r)
  BY NewDataResult, ReturnsData
<1> QED BY <1>1, <1>2, NewDataResult, ReturnsSomething

\* The metadata checks fail with errors.
LEMMA MetadataFailures ==
  /\ \A decoded : Nil \notin contextFailures(decoded)
  /\ \A header : Nil \notin respelled(header)
  /\ \A k, values, lim : Nil \notin binaryHeaderFailure(k, values, lim)
  /\ \A header, event, lim : Nil \notin validateStructuredHTTPMetadata(header, event, lim)
  /\ \A n, values, lim : Nil \notin contextHeaderFailure(n, values, lim)
  /\ \A headers, event, lim : Nil \notin validateStructuredKafkaMetadata(headers, event, lim)
<1>1. \A decoded : Nil \notin contextFailures(decoded)
  BY ErrorsAreNotNil DEF contextFailures, When, ??, Errors
<1>2. \A header : Nil \notin respelled(header)
  BY ErrorsAreNotNil DEF respelled, When, Errors
<1>3. \A k, values, lim : Nil \notin binaryHeaderFailure(k, values, lim)
  BY ErrorsAreNotNil DEF binaryHeaderFailure, When, ??, Errors
<1>4. \A k, values, expected, lim : Nil \notin validateStructuredHTTPHeader(k, values, expected, lim)
  BY ErrorsAreNotNil DEF validateStructuredHTTPHeader, When, ??, Errors
<1>5. \A header, event, lim : Nil \notin validateStructuredHTTPMetadata(header, event, lim)
  BY <1>2, <1>4 DEF validateStructuredHTTPMetadata
<1>6. \A n, values, lim : Nil \notin contextHeaderFailure(n, values, lim)
  BY ErrorsAreNotNil DEF contextHeaderFailure, When, ??, Errors
<1>7. ASSUME NEW headers, NEW event, NEW lim
      PROVE  Nil \notin validateStructuredKafkaMetadata(headers, event, lim)
  <2> DEFINE expected == expectedMetadata(event)
             failure(n) == contextHeaderFailure(n, headers[n], lim)
               ?? When(~(n \in DOMAIN expected /\ soleValue(headers[n]) = expected[n]), ErrInvalidEvent)
  <2>1. \A n : Nil \notin failure(n)
    BY <1>6, ErrorsAreNotNil DEF When, ??, Errors
  <2> HIDE DEF failure
  <2>2. Nil \notin UNION {failure(n) : n \in DOMAIN headers}
    BY <2>1
  <2>3. Nil \notin When(Cardinality(DOMAIN headers) > lim.MaxAttributes, ErrLimitExceeded)
    BY ErrorsAreNotNil DEF When, Errors
  <2>4. validateStructuredKafkaMetadata(headers, event, lim)
          = When(Cardinality(DOMAIN headers) > lim.MaxAttributes, ErrLimitExceeded)
            ?? UNION {failure(n) : n \in DOMAIN headers}
    BY DEF validateStructuredKafkaMetadata, failure
  <2> QED BY <2>2, <2>3, <2>4, StagesFailWithErrors
<1> QED BY <1>1, <1>2, <1>3, <1>5, <1>6, <1>7

\* A decoder that fails or makes an event of valid data returns an event result.
LEMMA DecodedEvent ==
  ASSUME NEW F, NEW a, NEW data, Nil \notin F, F = {} => validData(data),
         NEW r \in (IF F # {} THEN Returns(F, Nil) ELSE NewEvent(a, data))
  PROVE  EventResult(r)
<1>1. CASE F # {}
  BY <1>1, ReturnsEither DEF EventResult
<1>2. CASE F = {}
  BY <1>2, NewEventValid, NewEventResult DEF EventResult
<1> QED BY <1>1, <1>2

LEMMA DecodeHTTPBinaryResult ==
  ASSUME NEW header, NEW ct, NEW body, NEW lim, NEW r \in decodeHTTPBinary(header, ct, body, lim)
  PROVE  EventResult(r)
<1> DEFINE decoded == decodedHeader(header)
           data == IF body # "" \/ ct # "" THEN dataOf(ct, body) ELSE Returns({}, NoData)
           dataResult == CHOOSE d \in data : TRUE
           headers == respelled(header)
                      \cup When(DOMAIN header # {} /\ Cardinality(headerNames(header)) > lim.MaxAttributes, ErrLimitExceeded)
                      \cup UNION {binaryHeaderFailure(k, header[k], lim) : k \in DOMAIN header}
           payload == When(dataResult.err # Nil, dataResult.err)
           failures == headers ?? contextFailures(decoded) ?? payload
<1>1. r \in (IF failures # {} THEN Returns(failures, Nil)
             ELSE NewEvent(AttributesFrom(decoded, ct), dataResult.value))
  BY DEF decodeHTTPBinary
<1>2. data # {} /\ \A d \in data : DataResult(d)
  BY DataOfResult, NewDataResult, ReturnsData, ReturnsSomething
<1> HIDE DEF data
<1>3. DataResult(dataResult)
  BY <1>2
<1>4. Nil \notin headers
  BY MetadataFailures, ErrorsAreNotNil DEF When, Errors
<1> HIDE DEF headers, dataResult, decoded
<1>5. Nil \notin payload /\ (payload = {} => validData(dataResult.value))
  BY <1>3 DEF When, DataResult
<1> HIDE DEF payload
<1>6. Nil \notin failures /\ (failures = {} => payload = {})
  BY <1>4, <1>5, MetadataFailures, StagesFailWithErrors DEF ??
<1> HIDE DEF failures
<1> QED BY <1>1, <1>5, <1>6, DecodedEvent

\* Events that are valid one by one are valid in sequences of their own.
LEMMA SingleResult ==
  ASSUME NEW results, \A r \in results : EventResult(r), NEW s \in single(results)
  PROVE  \A body : EventsResult(s, body)
<1>1. PICK r \in results : s = [r EXCEPT !.value = IF r.err # Nil THEN Nil ELSE <<@>>]
  BY DEF single
<1>2. r = [value |-> r.value, err |-> r.err] /\ (r.err = Nil => ValidEvent(r.value))
  BY DEF EventResult
<1>3. /\ s = [value |-> s.value, err |-> s.err]
      /\ s.err = r.err /\ (r.err = Nil => s.value = <<r.value>>)
  BY <1>1, <1>2
<1> QED BY <1>2, <1>3, SingletonResult DEF EventsResult

\* A structured message is an event whose metadata agrees, or an error.
LEMMA CheckedEvent ==
  ASSUME NEW F, NEW e, NEW v, Nil \notin F, ValidEvent(e), NEW r \in Returns(F, v)
  PROVE  /\ v = e => EventResult(r)
         /\ v = <<e>> => \A body : EventsResult(r, body)
  BY ReturnsEither, SingletonResult DEF EventResult, EventsResult

LEMMA DecodeHTTPMessageResult ==
  ASSUME NEW m, NEW msg, NEW lim, msg.body.form = "batch" => IsSequence(msg.body.docs),
         NEW r \in decodeHTTPMessage(m, msg, lim)
  PROVE  EventsResult(r, msg.body)
<1>1. CASE m = "structured"
  <2>1. PICK d \in DecodeJSON(msg.body, lim) :
          r \in (IF d.err # Nil THEN {d}
                 ELSE Returns(validateStructuredHTTPMetadata(msg.header, d.value, lim), <<d.value>>))
    BY <1>1 DEF decodeHTTPMessage
  <2>2. EventResult(d)
    BY DecodeJSONResult
  <2>3. CASE d.err # Nil
    BY <2>1, <2>2, <2>3 DEF EventsResult, EventResult
  <2>4. CASE d.err = Nil
    BY <2>1, <2>2, <2>4, CheckedEvent, MetadataFailures DEF EventResult
  <2> QED BY <2>3, <2>4
<1>2. CASE m = "batch"
  <2>1. r \in (IF DOMAIN msg.header # {} THEN Returns({ErrInvalidEvent}, Nil)
               ELSE DecodeJSONBatch(msg.body, lim))
    BY <1>2 DEF decodeHTTPMessage
  <2>2. Nil \notin {ErrInvalidEvent}
    BY ErrorsAreNotNil DEF Errors
  <2>3. CASE DOMAIN msg.header # {}
    BY <2>1, <2>2, <2>3, ReturnsEither DEF EventsResult
  <2>4. CASE DOMAIN msg.header = {}
    BY <2>1, <2>4, DecodeJSONBatchResult
  <2> QED BY <2>3, <2>4
<1>3. CASE m \notin {"structured", "batch"}
  <2>1. r \in single(decodeHTTPBinary(msg.header, contentTypeOf(msg), msg.body.bytes, lim))
    BY <1>3 DEF decodeHTTPMessage
  <2> QED BY <2>1, DecodeHTTPBinaryResult, SingleResult
<1> QED BY <1>1, <1>2, <1>3

\* DecodeHTTP returns valid events or an error, for every message and every limit.
LEMMA DecodeHTTPResult ==
  ASSUME NEW msg, NEW lim, msg.body.form = "batch" => IsSequence(msg.body.docs),
         NEW r \in DecodeHTTP(msg, lim)
  PROVE  EventsResult(r, msg.body)
<1> DEFINE oversize(m) == readHTTPBody(BodySize(msg.body), bodyLimit(m.value, lim))
<1>1. PICK m \in detectHTTPMode(msg, lim) :
        r \in (IF m.err # Nil THEN {m}
               ELSE IF oversize(m) # {} THEN Returns(oversize(m), Nil)
               ELSE decodeHTTPMessage(m.value, msg, lim))
  BY DEF DecodeHTTP
<1>2. Nil \notin oversize(m)
  BY ErrorsAreNotNil DEF readHTTPBody, When, ??, Errors
<1> HIDE DEF oversize
<1>3. CASE m.err # Nil
  BY <1>1, <1>3 DEF EventsResult, detectHTTPMode, Returns
<1>4. CASE m.err = Nil /\ oversize(m) # {}
  BY <1>1, <1>2, <1>4, ReturnsEither DEF EventsResult
<1>5. CASE m.err = Nil /\ oversize(m) = {}
  BY <1>1, <1>5, DecodeHTTPMessageResult
<1> QED BY <1>3, <1>4, <1>5

LEMMA DecodeKafkaBinaryResult ==
  ASSUME NEW value, NEW ct, NEW headers, NEW lim,
         NEW r \in decodeKafkaBinary(value, ct, headers, lim)
  PROVE  EventResult(r)
<1> DEFINE decoded == [n \in DOMAIN headers |-> soleValue(headers[n])]
           data == IF value = Nil THEN Returns({}, NoData)
                   ELSE IF Size(value.bytes) > lim.MaxDataBytes
                   THEN Returns({ErrLimitExceeded}, Nil)
                   ELSE dataOf(ct, value.bytes)
           dataResult == CHOOSE d \in data : TRUE
           typed   == When("datacontenttype" \in DOMAIN headers, ErrInvalidEvent)
           count   == When(Cardinality(DOMAIN headers) > lim.MaxAttributes, ErrLimitExceeded)
           each    == UNION {contextHeaderFailure(n, headers[n], lim) : n \in DOMAIN headers}
           payload == When(dataResult.err # Nil, dataResult.err)
           failures == typed ?? count ?? each ?? contextFailures(decoded) ?? payload
<1>1. r \in (IF failures # {} THEN Returns(failures, Nil)
             ELSE NewEvent(AttributesFrom(decoded, ct), dataResult.value))
  BY DEF decodeKafkaBinary
<1>2. data # {} /\ \A d \in data : DataResult(d)
  <2>1. {ErrLimitExceeded} \subseteq Errors BY DEF Errors
  <2>2. data \in {Returns({}, NoData), Returns({ErrLimitExceeded}, Nil), dataOf(ct, value.bytes)}
    OBVIOUS
  <2> HIDE DEF data
  <2>3. \A d \in Returns({}, NoData) : DataResult(d)
    BY NewDataResult, ReturnsData
  <2>4. \A d \in Returns({ErrLimitExceeded}, Nil) : DataResult(d)
    BY <2>1, ReturnsData
  <2> QED BY <2>2, <2>3, <2>4, DataOfResult, ReturnsSomething
<1> HIDE DEF data
<1>3. DataResult(dataResult)
  BY <1>2
<1>4. Nil \notin typed /\ Nil \notin count /\ Nil \notin each
  BY MetadataFailures, ErrorsAreNotNil DEF When, Errors
<1> HIDE DEF typed, count, each, dataResult, decoded
<1>5. Nil \notin payload /\ (payload = {} => validData(dataResult.value))
  BY <1>3 DEF When, DataResult
<1> HIDE DEF payload
<1>6. Nil \notin failures /\ (failures = {} => payload = {})
  BY <1>4, <1>5, MetadataFailures, StagesFailWithErrors DEF ??
<1> HIDE DEF failures
<1> QED BY <1>1, <1>5, <1>6, DecodedEvent

LEMMA DecodeKafkaEventResult ==
  ASSUME NEW m, NEW record, NEW ct, NEW headers, NEW lim,
         NEW r \in decodeKafkaEvent(m, record, ct, headers, lim)
  PROVE  EventResult(r)
<1>1. CASE m = "binary"
  BY <1>1, DecodeKafkaBinaryResult DEF decodeKafkaEvent
<1>2. CASE m # "binary" /\ (record.value = Nil \/ BodySize(record.value) > lim.MaxEventBytes)
  <2>1. \E f \in {ErrInvalidEvent, ErrLimitExceeded} : r \in Returns({f}, Nil)
    BY <1>2 DEF decodeKafkaEvent
  <2>2. PICK f \in {ErrInvalidEvent, ErrLimitExceeded} : r \in Returns({f}, Nil)
    BY <2>1
  <2>3. Nil \notin {f}
    BY <2>2, ErrorsAreNotNil DEF Errors
  <2> QED BY <2>2, <2>3, ReturnsEither DEF EventResult
<1>3. CASE m # "binary" /\ ~(record.value = Nil \/ BodySize(record.value) > lim.MaxEventBytes)
  <2>1. PICK d \in DecodeJSON(record.value, lim) :
          r \in (IF d.err # Nil THEN {d}
                 ELSE Returns(validateStructuredKafkaMetadata(headers, d.value, lim), d.value))
    BY <1>3 DEF decodeKafkaEvent
  <2>2. EventResult(d)
    BY DecodeJSONResult
  <2>3. CASE d.err # Nil
    BY <2>1, <2>2, <2>3
  <2>4. CASE d.err = Nil
    BY <2>1, <2>2, <2>4, CheckedEvent, MetadataFailures DEF EventResult
  <2> QED BY <2>3, <2>4
<1> QED BY <1>1, <1>2, <1>3

\* DecodeKafka returns a message with a valid event or an error, for every record
\* and every limit.
LEMMA DecodeKafkaResult ==
  ASSUME NEW record, NEW lim, NEW r \in DecodeKafka(record, lim)
  PROVE  /\ r = [value |-> r.value, err |-> r.err]
         /\ r.err = Nil => ValidEvent(r.value.event)
<1> DEFINE types    == collected(record.headers, ownedBy(record.headers, "content-type"))
           ct       == IF types = {} THEN "" ELSE soleValue(types)
           rejected == recordFailures(record, lim) ?? headerFailures(record.headers, lim)
           transport == transportHeaders(record.headers)
           received(m, e) ==
             [mode |-> m, event |-> e, key |-> record.key, transportHeaders |-> transport]
           decoded(m) == decodeKafkaEvent(m, record, ct, cloudEventHeaders(record.headers), lim)
<1>1. r \in (IF rejected # {} THEN Returns(rejected, Nil)
             ELSE UNION {IF m.err # Nil THEN {m}
                         ELSE {[d EXCEPT !.value = IF d.err # Nil THEN Nil ELSE received(m.value, @)]
                               : d \in decoded(m.value)}
                         : m \in detectKafkaMode(types)})
  BY DEF DecodeKafka, contentTypesOf, recordType
<1>2. Nil \notin rejected
  <2>1. Nil \notin recordFailures(record, lim)
    BY ErrorsAreNotNil DEF recordFailures, When, Errors
  <2>2. \A h : Nil \notin headerFailure(h, lim)
    BY ErrorsAreNotNil DEF headerFailure, When, ??, Errors
  <2>3. Nil \notin headerFailures(record.headers, lim)
    BY <2>2 DEF headerFailures
  <2> QED BY <2>1, <2>3, StagesFailWithErrors
<1>3. \A m \in detectKafkaMode(types) : m = [value |-> m.value, err |-> m.err]
  BY DEF detectKafkaMode, Returns
<1>4. \A m : \A d \in decoded(m) : EventResult(d)
  BY DecodeKafkaEventResult
<1> HIDE DEF rejected, types, ct, decoded, transport
<1>5. CASE rejected # {}
  BY <1>1, <1>2, <1>5, ReturnsEither
<1>6. CASE rejected = {}
  <2>1. PICK m \in detectKafkaMode(types) :
          r \in (IF m.err # Nil THEN {m}
                 ELSE {[d EXCEPT !.value = IF d.err # Nil THEN Nil ELSE received(m.value, @)]
                       : d \in decoded(m.value)})
    BY <1>1, <1>6
  <2>2. CASE m.err # Nil
    BY <1>3, <2>1, <2>2
  <2>3. CASE m.err = Nil
    <3>1. PICK d \in decoded(m.value) :
            r = [d EXCEPT !.value = IF d.err # Nil THEN Nil ELSE received(m.value, @)]
      BY <2>1, <2>3
    <3>2. d = [value |-> d.value, err |-> d.err] /\ (d.err = Nil => ValidEvent(d.value))
      BY <1>4 DEF EventResult
    <3>3. r = [value |-> IF d.err # Nil THEN Nil ELSE received(m.value, d.value), err |-> d.err]
      BY <3>1, <3>2
    <3> QED BY <3>2, <3>3
  <2> QED BY <2>2, <2>3
<1> QED BY <1>5, <1>6

\* Either decoder, behind the common interface of the bindings.
LEMMA DecodeResult ==
  ASSUME NEW b, NEW msg, NEW lim, NEW r \in decode(b, msg, lim),
         b = "http" => (msg.body.form = "batch" => IsSequence(msg.body.docs))
  PROVE  EventsResult(r, msg.body)
<1>1. CASE b = "http"
  BY <1>1, DecodeHTTPResult DEF decode
<1>2. CASE b # "http"
  <2>1. PICK d \in DecodeKafka(msg, lim) :
          r = [d EXCEPT !.value = IF d.err # Nil THEN Nil ELSE <<@.event>>]
    BY <1>2 DEF decode
  <2>2. d = [value |-> d.value, err |-> d.err] /\ (d.err = Nil => ValidEvent(d.value.event))
    BY DecodeKafkaResult
  <2>3. /\ r = [value |-> r.value, err |-> r.err]
        /\ r.err = d.err /\ (d.err = Nil => r.value = <<d.value.event>>)
    BY <2>1, <2>2
  <2> QED BY <2>2, <2>3, SingletonResult DEF EventsResult
<1> QED BY <1>1, <1>2

-----------------------------------------------------------------------------
(* What the encoders return for valid events.                               *)

AllValid(events) ==
  IsSequence(events) /\ \A i \in DOMAIN events : ValidEvent(events[i])

\* What the relay and the receiver count on in an HTTP message of mode m: its
\* three parts, and a batch body in batch mode and in no other.
HTTPMessage(m, msg) ==
  /\ msg = [contentType |-> msg.contentType, header |-> msg.header, body |-> msg.body]
  /\ m = "batch" => msg.body = Batch(msg.body.docs) /\ IsSequence(msg.body.docs)
  /\ m # "batch" => msg.body.form # "batch"

\* A failure of a kind a valid event can meet, or a message of its mode.
Encoded(b, m, events, r) ==
  /\ r = [value |-> r.value, err |-> r.err]
  /\ r.err \in {Nil, ErrConversionLoss, ErrUnsupportedMode}
  /\ b = "http" /\ r.err = Nil =>
       /\ HTTPMessage(m, r.value.message)
       /\ m = "batch" => DOMAIN r.value.message.body.docs = DOMAIN events

\* A valid event is encoded in its JSON form without a failure.
LEMMA EncodeJSONValid ==
  ASSUME NEW e, Validate(e) = {}, NEW r \in EncodeJSONWithReport(e)
  PROVE  r = [value |-> [body |-> encodeJSON(e), report |-> jsonConversionReport(e)], err |-> Nil]
  BY DEF EncodeJSONWithReport, Returns

LEMMA EncodeHTTPValid ==
  ASSUME NEW events, AllValid(events), NEW m, NEW r \in EncodeHTTPWithReport(events, m)
  PROVE  Encoded("http", m, events, r)
<1> DEFINE posted(ct, body) == [contentType |-> <<ct>>, header |-> <<>>, body |-> body]
<1>1. CASE r \in Returns({ErrUnsupportedMode}, Nil)
  <2>1. r.err = ErrUnsupportedMode /\ r = [value |-> r.value, err |-> r.err]
    BY <1>1 DEF Returns
  <2> QED BY <2>1, ErrorsAreNotNil DEF Encoded, Errors
<1>2. m \in {"binary", "structured"} /\ Len(events) = 1 => Validate(events[1]) = {}
  <2> SUFFICES ASSUME Len(events) = 1 PROVE Validate(events[1]) = {}
    OBVIOUS
  <2>1. DOMAIN events = 1..1
    BY DEF AllValid, IsSequence
  <2> QED BY <2>1 DEF AllValid, ValidEvent
<1>3. CASE m = "binary" /\ Len(events) = 1
  <2>1. r \in Returns(Validate(events[1]),
                      [message |-> encodeHTTPBinary(events[1]),
                       report |-> {<<1, field>> : field \in binaryConversionReport(events[1])}])
    BY <1>3 DEF EncodeHTTPWithReport
  <2>2. r.err = Nil /\ r.value.message = encodeHTTPBinary(events[1])
        /\ r = [value |-> r.value, err |-> r.err]
    BY <1>2, <1>3, <2>1 DEF Returns
  <2>3. HTTPMessage(m, encodeHTTPBinary(events[1]))
    BY <1>3 DEF HTTPMessage, encodeHTTPBinary, Bytes
  <2> QED BY <1>3, <2>2, <2>3 DEF Encoded
<1>4. CASE m = "structured" /\ Len(events) = 1
  <2>1. PICK j \in EncodeJSONWithReport(events[1]) :
          r = [j EXCEPT !.value = IF j.err # Nil THEN Nil
                 ELSE [message |-> posted(JSONMediaType, @.body),
                       report |-> {<<1, field>> : field \in @.report}]]
    BY <1>4 DEF EncodeHTTPWithReport
  <2>2. j = [value |-> [body |-> encodeJSON(events[1]), report |-> jsonConversionReport(events[1])],
             err |-> Nil]
    BY <1>2, <1>4, EncodeJSONValid
  <2>3. r.err = Nil /\ r.value.message = posted(JSONMediaType, encodeJSON(events[1]))
        /\ r = [value |-> r.value, err |-> r.err]
    BY <2>1, <2>2
  <2>4. encodeJSON(events[1]).form = "doc"
    BY DEF encodeJSON, Doc
  <2>5. HTTPMessage(m, posted(JSONMediaType, encodeJSON(events[1])))
    BY <1>4, <2>4 DEF HTTPMessage
  <2> QED BY <1>4, <2>3, <2>5 DEF Encoded
<1>5. CASE m = "batch"
  <2> DEFINE docs == [i \in DOMAIN events |-> encodeJSON(events[i])]
  <2>1. PICK j \in EncodeJSONBatchWithReport(events) :
          r = [j EXCEPT !.value = IF j.err # Nil THEN Nil
                 ELSE [message |-> posted(JSONBatchMediaType, @.body), report |-> @.report]]
    BY <1>5 DEF EncodeHTTPWithReport
  <2>2. UNION {Validate(events[i]) : i \in DOMAIN events} = {}
    BY DEF AllValid, ValidEvent
  <2>3. j.err = Nil /\ j.value.body = Batch(docs) /\ j = [value |-> j.value, err |-> j.err]
    BY <2>2 DEF EncodeJSONBatchWithReport, Returns
  <2>4. r.err = Nil /\ r.value.message = posted(JSONBatchMediaType, Batch(docs))
        /\ r = [value |-> r.value, err |-> r.err]
    BY <2>1, <2>3
  <2>5. IsSequence(docs)
    BY SameIndices DEF AllValid
  <2>6. Batch(docs).docs = docs /\ DOMAIN docs = DOMAIN events
    BY DEF Batch
  <2> HIDE DEF docs
  <2>7. HTTPMessage(m, posted(JSONBatchMediaType, Batch(docs)))
    BY <1>5, <2>5, <2>6 DEF HTTPMessage
  <2> QED BY <2>4, <2>6, <2>7 DEF Encoded
<1>6. CASE m \in {"binary", "structured"} /\ Len(events) # 1
  BY <1>1, <1>6 DEF EncodeHTTPWithReport
<1>7. CASE m \notin {"binary", "structured", "batch"}
  BY <1>1, <1>7 DEF EncodeHTTPWithReport
<1> QED BY <1>3, <1>4, <1>5, <1>6, <1>7

LEMMA EncodeKafkaValid ==
  ASSUME NEW e, Validate(e) = {}, NEW m, NEW k, NEW r \in EncodeKafkaWithReport(e, m, k)
  PROVE  Encoded("kafka", m, <<e>>, r)
<1>1. CASE m = "binary"
  <2>1. \E v : r \in Returns(Validate(e), v)
    BY <1>1 DEF EncodeKafkaWithReport
  <2> QED BY <2>1 DEF Encoded, Returns
<1>2. CASE m = "structured"
  <2>1. PICK j \in EncodeJSONWithReport(e) :
          r = [j EXCEPT !.value = IF j.err # Nil THEN Nil
                 ELSE [message |-> [key |-> k, value |-> @.body,
                                    headers |-> <<Header("content-type", "", JSONMediaType)>>],
                       report |-> @.report]]
    BY <1>2 DEF EncodeKafkaWithReport
  <2>2. j = [value |-> [body |-> encodeJSON(e), report |-> jsonConversionReport(e)], err |-> Nil]
    BY EncodeJSONValid
  <2> QED BY <2>1, <2>2 DEF Encoded
<1>3. CASE m \notin {"binary", "structured"}
  <2>1. r \in Returns({ErrUnsupportedMode}, Nil)
    BY <1>3 DEF EncodeKafkaWithReport
  <2> QED BY <2>1 DEF Encoded, Returns
<1> QED BY <1>1, <1>2, <1>3

\* Valid events are refused for a conversion loss or an unsupported mode only.
LEMMA EncodeValid ==
  ASSUME NEW b, NEW m, NEW s, NEW events, AllValid(events),
         b # "http" => Len(events) = 1, NEW r \in encode(b, m, s, events)
  PROVE  Encoded(b, m, events, r)
<1> DEFINE results == IF b = "http" THEN EncodeHTTPWithReport(events, m)
                      ELSE EncodeKafkaWithReport(events[1], m, KafkaPartitionKey(events[1]))
<1>1. \A q \in results : Encoded(b, m, events, q)
  <2>1. CASE b = "http"
    BY <2>1, EncodeHTTPValid
  <2>2. CASE b # "http"
    <3>1. DOMAIN events = 1..1
      BY <2>2 DEF AllValid, IsSequence
    <3>2. Validate(events[1]) = {}
      BY <3>1 DEF AllValid, ValidEvent
    <3> QED BY <2>2, <3>2, EncodeKafkaValid DEF Encoded
  <2> QED BY <2>1, <2>2
<1>2. r \in (IF s THEN strictly(results) ELSE results)
  BY DEF encode
<1> HIDE DEF results
<1>3. CASE ~s
  BY <1>1, <1>2, <1>3
<1>4. CASE s
  <2>1. PICK q \in results :
          r \in (IF q.err # Nil THEN {q}
                 ELSE Returns(rejectConversionLoss(q.value.report), q.value))
    BY <1>2, <1>4 DEF strictly
  <2>2. Encoded(b, m, events, q)
    BY <1>1
  <2>3. CASE q.err # Nil
    BY <2>1, <2>2, <2>3
  <2>4. CASE q.err = Nil
    <3>1. r \in Returns(rejectConversionLoss(q.value.report), q.value)
      BY <2>1, <2>4
    <3>2. /\ r = [value |-> r.value, err |-> r.err]
          /\ r.err \in {Nil, ErrConversionLoss}
          /\ r.err = Nil => r.value = q.value
      <4>1. rejectConversionLoss(q.value.report) \in {{}, {ErrConversionLoss}}
        BY DEF rejectConversionLoss, When
      <4>2. Nil \notin rejectConversionLoss(q.value.report)
        BY <4>1, ErrorsAreNotNil DEF Errors
      <4> QED BY <3>1, <4>1, <4>2, ReturnsEither
    <3> QED BY <2>2, <2>4, <3>2 DEF Encoded
  <2> QED BY <2>3, <2>4
<1> QED BY <1>3, <1>4

\* A valid event arrives valid, if it arrives, whatever the route and the limits.
LEMMA CrossResult ==
  ASSUME NEW b, NEW m, NEW s, NEW e, ValidEvent(e), NEW lim, NEW r \in cross(b, m, s, e, lim),
         r.err = Nil
  PROVE  ValidEvent(r.value)
<1>1. PICK q \in encode(b, m, s, <<e>>) :
        r \in (IF q.err # Nil THEN {q}
               ELSE {[d EXCEPT !.value = IF d.err # Nil THEN Nil ELSE @[1]]
                     : d \in decode(b, q.value.message, lim)})
  BY DEF cross
<1>2. AllValid(<<e>>) /\ Len(<<e>>) = 1
  BY SingletonResult DEF AllValid
<1>3. Encoded(b, m, <<e>>, q)
  BY <1>2, EncodeValid
<1>4. q.err = Nil
  BY <1>1
<1>5. PICK d \in decode(b, q.value.message, lim) :
        r = [d EXCEPT !.value = IF d.err # Nil THEN Nil ELSE @[1]]
  BY <1>1, <1>4
<1>6. EventsResult(d, q.value.message.body)
  BY <1>3, <1>4, DecodeResult DEF Encoded, HTTPMessage
<1>7. d.err = Nil /\ r.value = d.value[1]
  BY <1>5, <1>6 DEF EventsResult
<1>8. 1 \in DOMAIN d.value
  <2>1. CASE b = "http"
    BY <1>2, <1>3, <1>4, <1>6, <1>7, <2>1 DEF EventsResult, Encoded, HTTPMessage
  <2>2. CASE b # "http"
    <3>1. PICK k \in DecodeKafka(q.value.message, lim) :
            d = [k EXCEPT !.value = IF k.err # Nil THEN Nil ELSE <<@.event>>]
      BY <2>2 DEF decode
    <3>2. k = [value |-> k.value, err |-> k.err]
      BY DecodeKafkaResult
    <3>3. d.value = <<k.value.event>>
      BY <1>7, <3>1, <3>2
    <3> QED BY <3>3
  <2> QED BY <2>1, <2>2
<1> QED BY <1>6, <1>7, <1>8 DEF EventsResult

-----------------------------------------------------------------------------
(* Crossings.                                                               *)

\* The strings of a Go program are closed under what the package does to them, and a
\* body is never nil.
\* The finite samples of the model checker are not, so this is a hypothesis of
\* the theorems that need it and not an assumption.
ClosedStrings ==
  /\ \A s \in Strings :
       /\ {Quote(s), TrimSpace(s), Base64(s), Escape(s)} \subseteq Strings
       /\ {Unquote(s), Unbase64(s), Unescape(s), ParseTime(s), Integer32(s)}
            \subseteq Strings \cup {Nil}
  /\ {"", "1.0", "true", "false", "application/json", "text/plain", "application/octet-stream",
      "application/cloudevents+json", "application/cloudevents-batch+json"} \subseteq Strings
  /\ \A s, members, duplicate : Bytes(s) # Nil /\ Doc(members, duplicate) # Nil
  /\ \A s \in Strings : Document(s) # Nil =>
       \A n \in DOMAIN Document(s).members :
         n \in Strings \cup reservedAttributeNames /\ Document(s).members[n] \in Strings

\* An event as an application holds it.
WholeEvent(e) == ValidEvent(e) /\ EventOfStrings(e)

\* The rules a valid event keeps.
LEMMA WholeEventRules ==
  ASSUME NEW e, WholeEvent(e)
  PROVE  CoreValid(e) /\ ExtensionsValid(e.extensions) /\ validData(e.data)
  BY ValidateRules, ValidAttributesRules DEF WholeEvent, ValidEvent

\* The text of a valid extension of any type is a Cloud string.
LEMMA ExtensionTexts ==
  ASSUME NEW e, WholeEvent(e), NEW n \in DOMAIN e.extensions
  PROVE  /\ e.extensions[n].kind \in AttributeKinds
         /\ e.extensions[n].text \in Strings
         /\ ValidCloudString(e.extensions[n].text)
         /\ e.extensions[n].kind = "boolean" => e.extensions[n].text \in {"true", "false"}
         /\ e.extensions[n].kind = "integer" => Integer32(e.extensions[n].text) = e.extensions[n].text
<1> DEFINE x == e.extensions[n]
           t == x.text
<1>1. validAttribute(x) /\ t \in Strings
  BY WholeEventRules DEF ExtensionsValid, WholeEvent, EventOfStrings
<1>2. t # Nil
  BY <1>1, NilAssumption
<1> HIDE DEF x
<1>3. x.kind \in AttributeKinds
  BY <1>1 DEF validAttribute, AttributeKinds
<1>4. x.kind = "boolean" => t \in {"true", "false"}
  BY <1>1 DEF validAttribute
<1>5. x.kind = "integer" => Integer32(t) = t
  BY <1>1 DEF validAttribute
<1>6. x.kind = "binary" => Unbase64(t) # Nil /\ Base64(Unbase64(t)) = t
  BY <1>1 DEF validAttribute
<1>7. x.kind = "timestamp" => ParseTime(t) = t
  BY <1>1 DEF validAttribute
<1>8. x.kind \in {"string", "uri", "urireference"} => ValidCloudString(t)
  BY <1>1 DEF validAttribute
<1>9. ValidCloudString(t)
  BY <1>1, <1>2, <1>3, <1>4, <1>5, <1>6, <1>7, <1>8, StringAssumption DEF AttributeKinds
<1> QED BY <1>1, <1>3, <1>4, <1>5, <1>9 DEF x

\* The core attributes an encoder writes: four always, three when there are any.
LEMMA CoreAttributesWritten ==
  ASSUME NEW e
  PROVE  LET c == coreAttributes(e) IN
         /\ DOMAIN c = {"specversion", "id", "source", "type"}
                       \cup (IF e.dataSchema # "" THEN {"dataschema"} ELSE {})
                       \cup (IF e.subject # "" THEN {"subject"} ELSE {})
                       \cup (IF e.time # "" THEN {"time"} ELSE {})
         /\ c = [n \in DOMAIN c |-> c[n]]
         /\ c["specversion"] = "1.0" /\ c["id"] = e.id /\ c["source"] = e.source
         /\ c["type"] = e.type
         /\ e.dataSchema # "" => c["dataschema"] = e.dataSchema
         /\ e.subject # "" => c["subject"] = e.subject
         /\ e.time # "" => c["time"] = e.time
<1> DEFINE named == [specversion |-> specVersion, id |-> e.id, source |-> e.source,
                     type |-> e.type, dataschema |-> e.dataSchema,
                     subject |-> e.subject, time |-> e.time]
           written == {"specversion", "id", "source", "type"}
                      \cup {n \in {"dataschema", "subject", "time"} : named[n] # ""}
<1>1. coreAttributes(e) = [n \in written |-> named[n]]
  BY DEF coreAttributes
<1>2. /\ named["specversion"] = "1.0" /\ named["id"] = e.id /\ named["source"] = e.source
      /\ named["type"] = e.type /\ named["dataschema"] = e.dataSchema
      /\ named["subject"] = e.subject /\ named["time"] = e.time
  BY DEF specVersion
<1> HIDE DEF named
<1>3. \A n : n \in written <=>
        \/ n \in {"specversion", "id", "source", "type"}
        \/ n = "dataschema" /\ e.dataSchema # ""
        \/ n = "subject" /\ e.subject # ""
        \/ n = "time" /\ e.time # ""
  BY <1>2
<1>4. written = {"specversion", "id", "source", "type"}
                \cup (IF e.dataSchema # "" THEN {"dataschema"} ELSE {})
                \cup (IF e.subject # "" THEN {"subject"} ELSE {})
                \cup (IF e.time # "" THEN {"time"} ELSE {})
  BY <1>3
<1> HIDE DEF written
<1> QED BY <1>1, <1>2, <1>4, ZenonT(40)

-----------------------------------------------------------------------------
(* Kafka headers: a finite set in some order.                               *)

Enumerates(q, S) ==
  /\ q \in Seq(S)
  /\ \A x \in S : \E i \in DOMAIN q : q[i] = x
  /\ \A i, j \in DOMAIN q : q[i] = q[j] => i = j

\* Appending every element of a finite set in turn enumerates the set.
LEMMA FoldEnumerates ==
  ASSUME NEW S, IsFiniteSet(S)
  PROVE  Enumerates(FoldSet(LAMBDA h, q : Append(q, h), <<>>, S), S)
<1> DEFINE some(T) == CHOOSE x \in T : TRUE
           step(g, T) == IF T = {} THEN <<>> ELSE Append(g[T \ {some(T)}], some(T))
           upTo(n) == {T \in SUBSET S : Cardinality(T) <= n}
           Solved(n) == \E g : g = [T \in upTo(n) |-> step(g, T)]
           iter == CHOOSE g : g = [T \in SUBSET S |-> step(g, T)]
<1>1. FoldSet(LAMBDA h, q : Append(q, h), <<>>, S) = iter[S]
  BY DEF FoldSet, MapThenFoldSet
<1>2. \A T \in SUBSET S : /\ IsFiniteSet(T) /\ Cardinality(T) \in Nat
                          /\ Cardinality(T) <= Cardinality(S)
  BY FS_Subset, FS_CardinalityType
<1>3. \A T \in SUBSET S : T # {} =>
        /\ some(T) \in T /\ T \ {some(T)} \in SUBSET S
        /\ Cardinality(T \ {some(T)}) = Cardinality(T) - 1 /\ Cardinality(T) > 0
  <2> SUFFICES ASSUME NEW T \in SUBSET S, T # {}
               PROVE  /\ some(T) \in T /\ T \ {some(T)} \in SUBSET S
                      /\ Cardinality(T \ {some(T)}) = Cardinality(T) - 1 /\ Cardinality(T) > 0
    OBVIOUS
  <2>1. some(T) \in T OBVIOUS
  <2> HIDE DEF some
  <2>2. Cardinality(T \ {some(T)}) = Cardinality(T) - 1
    BY <2>1, <1>2, FS_RemoveElement
  <2>3. Cardinality(T) # 0
    BY <1>2, FS_EmptySet
  <2> QED BY <2>1, <2>2, <2>3, <1>2
<1> HIDE DEF some
<1>4. Solved(0)
  <2> DEFINE g == [T \in upTo(0) |-> <<>>]
  <2>1. \A T \in upTo(0) : T = {}
    BY <1>2, FS_EmptySet
  <2>2. g = [T \in upTo(0) |-> step(g, T)]
    BY <2>1
  <2> QED BY <2>2
<1>5. ASSUME NEW n \in Nat, Solved(n) PROVE Solved(n + 1)
  <2>1. PICK g : g = [T \in upTo(n) |-> step(g, T)]
    BY <1>5
  <2> DEFINE k == [T \in upTo(n + 1) |-> step(g, T)]
  <2>2. \A T \in upTo(n) : T \in upTo(n + 1) /\ k[T] = g[T]
    <3> SUFFICES ASSUME NEW T \in upTo(n) PROVE T \in upTo(n + 1) /\ k[T] = g[T]
      OBVIOUS
    <3>1. T \in upTo(n + 1) BY <1>2
    <3>2. g[T] = step(g, T) BY <2>1
    <3> QED BY <3>1, <3>2
  <2>3. ASSUME NEW T \in upTo(n + 1) PROVE step(g, T) = step(k, T)
    <3>1. CASE T = {} BY <3>1
    <3>2. CASE T # {}
      <4>1. T \ {some(T)} \in upTo(n)
        BY <1>2, <1>3, <3>2
      <4> QED BY <2>2, <4>1
    <3> QED BY <3>1, <3>2
  <2>4. k = [T \in upTo(n + 1) |-> step(k, T)]
    BY <2>3
  <2> QED BY <2>4
<1>6. ASSUME NEW n \in Nat PROVE Solved(n)
  <2> HIDE DEF Solved
  <2> DEFINE bad == {m \in Nat : ~Solved(m)}
  <2> SUFFICES ASSUME bad # {} PROVE FALSE OBVIOUS
  <2>1. Min(bad) \in bad /\ \A y \in bad : Min(bad) <= y
    BY MinOfNaturals
  <2>2. Min(bad) # 0 BY <1>4, <2>1
  <2>3. Min(bad) - 1 \in Nat /\ Min(bad) - 1 \notin bad
    BY <2>1, <2>2
  <2>4. Solved((Min(bad) - 1) + 1)
    BY <1>5, <2>3
  <2> QED BY <2>1, <2>4
<1>7. iter = [T \in SUBSET S |-> step(iter, T)]
  <2>1. Cardinality(S) \in Nat /\ upTo(Cardinality(S)) = SUBSET S
    BY <1>2
  <2>2. \E g : g = [T \in SUBSET S |-> step(g, T)]
    BY <2>1, <1>6
  <2> QED BY <2>2
<1> HIDE DEF iter
<1>8. ASSUME NEW T \in SUBSET S PROVE Enumerates(iter[T], T)
  <2> DEFINE bad == {U \in SUBSET S : ~Enumerates(iter[U], U)}
             sizes == {Cardinality(U) : U \in bad}
  <2> SUFFICES ASSUME bad # {} PROVE FALSE OBVIOUS
  <2>1. sizes \subseteq Nat /\ sizes # {}
    BY <1>2
  <2>2. Min(sizes) \in sizes /\ \A y \in sizes : Min(sizes) <= y
    BY <2>1, MinOfNaturals
  <2>3. PICK U \in bad : Cardinality(U) = Min(sizes)
    BY <2>2
  <2>4. iter[U] = step(iter, U)
    BY <1>7
  <2>5. CASE U = {}
    <3>1. iter[U] = <<>> BY <2>4, <2>5
    <3>2. <<>> \in Seq({}) /\ DOMAIN <<>> = {} OBVIOUS
    <3>3. Enumerates(<<>>, {}) BY <3>2 DEF Enumerates
    <3> QED BY <2>3, <2>5, <3>1, <3>3
  <2>6. CASE U # {}
    <3> DEFINE x == some(U)
               V == U \ {x}
    <3>1. x \in U /\ V \in SUBSET S /\ Cardinality(V) = Cardinality(U) - 1 /\ Cardinality(V) \in Nat
      BY <1>2, <1>3, <2>6
    <3>2. iter[U] = Append(iter[V], x)
      BY <2>4, <2>6
    <3> HIDE DEF x
    <3>3. V \notin bad
      <4> SUFFICES ASSUME V \in bad PROVE FALSE OBVIOUS
      <4>1. Cardinality(V) \in sizes OBVIOUS
      <4>2. Cardinality(U) \in Nat BY <1>2, <2>3
      <4> HIDE DEF sizes, V, bad
      <4> QED BY <2>2, <2>3, <3>1, <4>1, <4>2
    <3>4. Enumerates(iter[V], V)
      BY <3>1, <3>3
    <3> DEFINE q == iter[V]
    <3> HIDE DEF q
    <3>5. q \in Seq(V) /\ x \in U /\ x \notin V /\ V \subseteq U
      BY <3>1, <3>4 DEF Enumerates, q
    <3>6. Append(q, x) \in Seq(U) /\ DOMAIN Append(q, x) = 1..(Len(q) + 1) /\ Len(q) \in Nat
          /\ DOMAIN q = 1..Len(q) /\ Append(q, x)[Len(q) + 1] = x
          /\ \A i \in 1..Len(q) : Append(q, x)[i] = q[i] /\ q[i] \in V
      <4> HIDE DEF V
      <4>1. q \in Seq(U) BY <3>5
      <4> QED BY <3>5, <4>1
    <3>7. \A y \in U : \E i \in DOMAIN Append(q, x) : Append(q, x)[i] = y
      <4> SUFFICES ASSUME NEW y \in U PROVE \E i \in DOMAIN Append(q, x) : Append(q, x)[i] = y
        OBVIOUS
      <4>1. CASE y = x BY <3>6, <4>1
      <4>2. CASE y # x
        <5>1. PICK i \in DOMAIN q : q[i] = y
          BY <3>4, <4>2 DEF Enumerates, q
        <5> QED BY <3>6, <5>1
      <4> QED BY <4>1, <4>2
    <3>8. \A i, j \in DOMAIN Append(q, x) : Append(q, x)[i] = Append(q, x)[j] => i = j
      <4>1. \A i, j \in DOMAIN q : q[i] = q[j] => i = j
        BY <3>4 DEF Enumerates, q
      <4> HIDE DEF V
      <4> QED BY <3>5, <3>6, <4>1
    <3>9. Enumerates(iter[U], U)
      BY <3>2, <3>6, <3>7, <3>8 DEF Enumerates, q
    <3> QED BY <2>3, <3>9
  <2> QED BY <2>5, <2>6
<1> QED BY <1>1, <1>8

-----------------------------------------------------------------------------
(* The JSON document of an event.                                           *)

wireType(e) ==
  IF e.data.kind = "text" /\ e.dataContentType = "" THEN "text/plain" ELSE e.dataContentType

wireExtension(x) == IF x.kind \in {"boolean", "integer"} THEN x.text ELSE Quote(x.text)

\* Where the data of an event goes.
LEMMA JSONDataWritten ==
  ASSUME NEW data
  PROVE  LET m == encodeJSONData(data) IN
         /\ m = [n \in DOMAIN m |-> m[n]]
         /\ data.kind = "json" => DOMAIN m = {"data"} /\ m["data"] = data.bytes
         /\ data.kind = "text" => DOMAIN m = {"data"} /\ m["data"] = Quote(data.bytes)
         /\ data.kind = "binary" => /\ DOMAIN m = {"data_base64"}
                                    /\ m["data_base64"] = Quote(Base64(data.bytes))
         /\ data.kind \notin {"json", "text", "binary"} => DOMAIN m = {}
<1>1. CASE data.kind = "json" BY <1>1 DEF encodeJSONData, Single
<1>2. CASE data.kind = "text" BY <1>2 DEF encodeJSONData, Single
<1>3. CASE data.kind = "binary" BY <1>3 DEF encodeJSONData, Single, newBinaryString
<1>4. CASE data.kind \notin {"json", "text", "binary"}
  <2>1. encodeJSONData(data) = <<>> BY <1>4 DEF encodeJSONData
  <2> QED BY <1>4, <2>1
<1> QED BY <1>1, <1>2, <1>3, <1>4

\* Its members, none of them written twice.
LEMMA JSONMembers ==
  ASSUME NEW e, WholeEvent(e)
  PROVE  LET d == encodeJSON(e)
             c == coreAttributes(e)
             data == encodeJSONData(e.data)
         IN  /\ d.form = "doc" /\ d.duplicate = FALSE
             /\ DOMAIN d.members = DOMAIN c \cup DOMAIN data \cup DOMAIN e.extensions
                  \cup (IF wireType(e) # "" THEN {"datacontenttype"} ELSE {})
             /\ \A n \in DOMAIN c : d.members[n] = Quote(c[n])
             /\ wireType(e) # "" => d.members["datacontenttype"] = Quote(wireType(e))
             /\ \A n \in DOMAIN data : d.members[n] = data[n]
             /\ \A n \in DOMAIN e.extensions :
                  d.members[n] = wireExtension(e.extensions[n]) /\ n \notin reservedAttributeNames
<1> DEFINE c == coreAttributes(e)
           data == encodeJSONData(e.data)
           strings == c ++ Optional("datacontenttype", wireType(e))
           exts == [n \in DOMAIN e.extensions |->
                     IF e.extensions[n].kind \in {"boolean", "integer"}
                     THEN e.extensions[n].text ELSE Quote(e.extensions[n].text)]
           quoted == [n \in DOMAIN strings |-> Quote(strings[n])]
           own == quoted ++ data
<1>1. encodeJSON(e) = Doc(own ++ exts, DOMAIN own \cap DOMAIN exts # {})
  BY DEF encodeJSON, wireType, implicitDataContentType
<1>2. DOMAIN c \subseteq {"specversion", "id", "source", "type", "dataschema", "subject", "time"}
  <2>1. DOMAIN coreAttributes(e) = {"specversion", "id", "source", "type"}
                       \cup (IF e.dataSchema # "" THEN {"dataschema"} ELSE {})
                       \cup (IF e.subject # "" THEN {"subject"} ELSE {})
                       \cup (IF e.time # "" THEN {"time"} ELSE {})
    BY CoreAttributesWritten
  <2> QED BY <2>1
<1>3. DOMAIN data \subseteq {"data", "data_base64"}
  BY JSONDataWritten
<1>4. DOMAIN exts \cap reservedAttributeNames = {} /\ DOMAIN exts = DOMAIN e.extensions
  BY WholeEventRules DEF ExtensionsValid
<1>5. \A n \in DOMAIN exts : exts[n] = wireExtension(e.extensions[n])
  BY DEF wireExtension
<1> HIDE DEF c, data, exts
<1>6. /\ DOMAIN strings = DOMAIN c \cup (IF wireType(e) # "" THEN {"datacontenttype"} ELSE {})
      /\ \A n \in DOMAIN c : strings[n] = c[n]
      /\ wireType(e) # "" => strings["datacontenttype"] = wireType(e)
  BY <1>2 DEF ++, Optional
<1> HIDE DEF strings
<1>7. /\ DOMAIN own = DOMAIN strings \cup DOMAIN data
      /\ \A n \in DOMAIN strings : own[n] = Quote(strings[n])
      /\ \A n \in DOMAIN data : n \notin DOMAIN strings => own[n] = data[n]
  BY DEF ++
<1>8. DOMAIN strings \cap DOMAIN data = {} /\ DOMAIN own \subseteq reservedAttributeNames
  BY <1>2, <1>3, <1>6, <1>7 DEF reservedAttributeNames
<1> HIDE DEF own
<1>9. DOMAIN own \cap DOMAIN exts = {}
  BY <1>4, <1>8
<1> DEFINE all == own ++ exts
<1>10. /\ DOMAIN all = DOMAIN own \cup DOMAIN exts
       /\ \A n \in DOMAIN own : all[n] = own[n]
       /\ \A n \in DOMAIN exts : all[n] = exts[n]
  BY <1>9 DEF ++
<1> HIDE DEF all
<1>11. encodeJSON(e).form = "doc" /\ encodeJSON(e).duplicate = FALSE /\ encodeJSON(e).members = all
  <2>1. (DOMAIN own \cap DOMAIN exts # {}) = FALSE
    BY <1>9
  <2>2. encodeJSON(e) = Doc(all, FALSE)
    BY <1>1, <2>1 DEF all
  <2> QED BY <2>2 DEF Doc
<1>12. DOMAIN all = DOMAIN c \cup DOMAIN data \cup DOMAIN e.extensions
                  \cup (IF wireType(e) # "" THEN {"datacontenttype"} ELSE {})
  BY <1>4, <1>6, <1>7, <1>10
<1>13. \A n \in DOMAIN c : all[n] = Quote(c[n])
  BY <1>6, <1>7, <1>10
<1>14. wireType(e) # "" => all["datacontenttype"] = Quote(wireType(e))
  BY <1>6, <1>7, <1>10
<1>15. \A n \in DOMAIN data : all[n] = data[n]
  BY <1>7, <1>8, <1>10
<1>16. \A n \in DOMAIN e.extensions :
         all[n] = wireExtension(e.extensions[n]) /\ n \notin reservedAttributeNames
  BY <1>4, <1>5, <1>10
<1> QED BY <1>11, <1>12, <1>13, <1>14, <1>15, <1>16 DEF c, data

-----------------------------------------------------------------------------
(* Reading a document that an encoder wrote.                                *)

\* A member that holds a quoted string is read back, whatever the limits.
LEMMA QuotedMember ==
  ASSUME NEW doc, NEW n \in DOMAIN doc.members, NEW s \in Strings, doc.members[n] = Quote(s)
  PROVE  /\ hasMember(doc, n)
         /\ memberText(doc, n) = Unquote(Quote(s)) /\ ValidUTF8(memberText(doc, n))
         /\ ValidUTF8(s) => memberText(doc, n) = s
         /\ \A required, lim : stringMember(doc, n, required, lim) \subseteq {ErrLimitExceeded}
<1>1. hasMember(doc, n)
  BY JSONTypeAssumption DEF hasMember
<1>2. memberText(doc, n) = Unquote(Quote(s)) /\ Unquote(Quote(s)) # Nil
  BY <1>1, StringAssumption DEF memberText
<1>3. ValidUTF8(memberText(doc, n)) /\ (ValidUTF8(s) => memberText(doc, n) = s)
  BY <1>2, StringAssumption
<1>4. ASSUME NEW required, NEW lim
      PROVE  stringMember(doc, n, required, lim) \subseteq {ErrLimitExceeded}
  BY <1>1, <1>2 DEF stringMember, When, ??
<1> QED BY <1>1, <1>2, <1>3, <1>4

\* A member that is not there reads as empty.
LEMMA MissingMember ==
  ASSUME NEW doc, NEW n, n \notin DOMAIN doc.members
  PROVE  /\ ~hasMember(doc, n) /\ memberText(doc, n) = ""
         /\ \A lim : stringMember(doc, n, FALSE, lim) = {}
  BY DEF hasMember, memberText, stringMember, When

\* The core texts of a whole event.
LEMMA CoreTexts ==
  ASSUME NEW e, WholeEvent(e), ClosedStrings
  PROVE  /\ {e.id, e.source, e.type, e.subject, e.time, e.dataSchema, e.dataContentType,
             wireType(e), "1.0", ""} \subseteq Strings
         /\ ValidCloudString(e.id) /\ ValidCloudString(e.source) /\ ValidCloudString(e.type)
         /\ ValidUTF8(e.id) /\ ValidUTF8(e.source) /\ ValidUTF8(e.type)
         /\ ValidUTF8(e.subject) /\ ValidUTF8(e.time) /\ ValidUTF8("1.0") /\ ValidUTF8("")
         /\ ValidCloudString("1.0")
         /\ e.id # "" /\ e.source # "" /\ e.type # ""
         /\ e.subject # "" => ValidCloudString(e.subject)
         /\ ValidUTF8(wireType(e)) <=> ValidUTF8(e.dataContentType)
<1>1. CoreValid(e) /\ EventOfStrings(e)
  BY WholeEventRules DEF WholeEvent
<1>2. /\ {e.id, e.source, e.type, e.subject, e.time, e.dataSchema, e.dataContentType} \subseteq Strings
      /\ {"1.0", "", "text/plain"} \subseteq Strings
  BY <1>1 DEF EventOfStrings, ClosedStrings
<1>3. /\ ValidCloudString(e.id) /\ ValidCloudString(e.source) /\ ValidCloudString(e.type)
      /\ e.id # "" /\ e.source # "" /\ e.type # ""
      /\ e.subject # "" => ValidCloudString(e.subject)
      /\ e.time # "" => ValidUTF8(e.time)
  BY <1>1 DEF CoreValid, EventOfStrings
<1>4. ValidCloudString("1.0") /\ ValidCloudString("") /\ ValidCloudString("text/plain")
  BY <1>2, StringAssumption
<1>5. \A s \in Strings : ValidCloudString(s) => ValidUTF8(s)
  BY StringAssumption
<1>6. wireType(e) \in Strings /\ (ValidUTF8(wireType(e)) <=> ValidUTF8(e.dataContentType))
  BY <1>2, <1>4, <1>5 DEF wireType
<1> QED BY <1>2, <1>3, <1>4, <1>5, <1>6

\* The context an encoder wrote is read back; a content type or a schema that is
\* not UTF-8 is not.
LEMMA JSONContextRead ==
  ASSUME NEW e, WholeEvent(e), ClosedStrings
  PROVE  LET d == encodeJSON(e) IN
         /\ memberText(d, "specversion") = "1.0" /\ memberText(d, "id") = e.id
         /\ memberText(d, "source") = e.source /\ memberText(d, "type") = e.type
         /\ memberText(d, "subject") = e.subject
         /\ hasMember(d, "time") <=> e.time # ""
         /\ e.time # "" => memberText(d, "time") = e.time
         /\ memberText(d, "datacontenttype") \in {"", Unquote(Quote(wireType(e)))}
         /\ ValidUTF8(memberText(d, "datacontenttype"))
         /\ ValidUTF8(e.dataContentType) => memberText(d, "datacontenttype") = wireType(e)
         /\ ValidUTF8(memberText(d, "dataschema"))
         /\ ValidUTF8(e.dataSchema) => memberText(d, "dataschema") = e.dataSchema
         /\ \A lim, n : n \in {"specversion", "id", "source", "type"} =>
              stringMember(d, n, TRUE, lim) \subseteq {ErrLimitExceeded}
         /\ \A lim, n : n \in {"datacontenttype", "dataschema", "subject", "time"} =>
              stringMember(d, n, FALSE, lim) \subseteq {ErrLimitExceeded}
<1> DEFINE d == encodeJSON(e)
           c == coreAttributes(e)
           data == encodeJSONData(e.data)
<1>1. /\ DOMAIN d.members = DOMAIN c \cup DOMAIN data \cup DOMAIN e.extensions
                  \cup (IF wireType(e) # "" THEN {"datacontenttype"} ELSE {})
      /\ \A n \in DOMAIN c : d.members[n] = Quote(c[n])
      /\ wireType(e) # "" => d.members["datacontenttype"] = Quote(wireType(e))
      /\ \A n \in DOMAIN e.extensions : n \notin reservedAttributeNames
  BY JSONMembers
<1>2. DOMAIN data \subseteq {"data", "data_base64"}
  BY JSONDataWritten
<1>3. /\ DOMAIN c = {"specversion", "id", "source", "type"}
                       \cup (IF e.dataSchema # "" THEN {"dataschema"} ELSE {})
                       \cup (IF e.subject # "" THEN {"subject"} ELSE {})
                       \cup (IF e.time # "" THEN {"time"} ELSE {})
      /\ c["specversion"] = "1.0" /\ c["id"] = e.id /\ c["source"] = e.source
      /\ c["type"] = e.type
      /\ e.dataSchema # "" => c["dataschema"] = e.dataSchema
      /\ e.subject # "" => c["subject"] = e.subject
      /\ e.time # "" => c["time"] = e.time
  BY CoreAttributesWritten
<1> HIDE DEF d, c, data
<1>4. /\ {"specversion", "id", "source", "type"} \subseteq DOMAIN d.members
      /\ "dataschema" \in DOMAIN d.members <=> e.dataSchema # ""
      /\ "subject" \in DOMAIN d.members <=> e.subject # ""
      /\ "time" \in DOMAIN d.members <=> e.time # ""
      /\ "datacontenttype" \in DOMAIN d.members <=> wireType(e) # ""
  BY <1>1, <1>2, <1>3 DEF reservedAttributeNames
<1>5. /\ d.members["specversion"] = Quote("1.0") /\ d.members["id"] = Quote(e.id)
      /\ d.members["source"] = Quote(e.source) /\ d.members["type"] = Quote(e.type)
      /\ e.dataSchema # "" => d.members["dataschema"] = Quote(e.dataSchema)
      /\ e.subject # "" => d.members["subject"] = Quote(e.subject)
      /\ e.time # "" => d.members["time"] = Quote(e.time)
  <2>1. /\ {"specversion", "id", "source", "type"} \subseteq DOMAIN c
        /\ e.dataSchema # "" => "dataschema" \in DOMAIN c
        /\ e.subject # "" => "subject" \in DOMAIN c
        /\ e.time # "" => "time" \in DOMAIN c
    BY <1>3
  <2>2. \A n \in DOMAIN c : d.members[n] = Quote(c[n]) BY <1>1
  <2> QED BY <1>3, <2>1, <2>2
<1>t. /\ "1.0" \in Strings /\ "" \in Strings /\ e.id \in Strings /\ e.source \in Strings
      /\ e.type \in Strings /\ e.subject \in Strings /\ e.time \in Strings
      /\ e.dataSchema \in Strings /\ wireType(e) \in Strings
      /\ ValidUTF8("1.0") /\ ValidUTF8("") /\ ValidUTF8(e.id) /\ ValidUTF8(e.source)
      /\ ValidUTF8(e.type) /\ ValidUTF8(e.subject) /\ ValidUTF8(e.time)
      /\ ValidUTF8(wireType(e)) <=> ValidUTF8(e.dataContentType)
  BY CoreTexts
<1>q. ASSUME NEW n \in DOMAIN d.members, NEW s \in Strings, d.members[n] = Quote(s)
      PROVE  /\ hasMember(d, n) /\ ValidUTF8(memberText(d, n))
             /\ memberText(d, n) = Unquote(Quote(s))
             /\ ValidUTF8(s) => memberText(d, n) = s
             /\ \A required, lim : stringMember(d, n, required, lim) \subseteq {ErrLimitExceeded}
  BY <1>q, QuotedMember
<1>6. /\ memberText(d, "specversion") = "1.0"
      /\ \A lim : stringMember(d, "specversion", TRUE, lim) \subseteq {ErrLimitExceeded}
  BY <1>4, <1>5, <1>t, <1>q
<1>7. /\ memberText(d, "id") = e.id
      /\ \A lim : stringMember(d, "id", TRUE, lim) \subseteq {ErrLimitExceeded}
  BY <1>4, <1>5, <1>t, <1>q
<1>8. /\ memberText(d, "source") = e.source
      /\ \A lim : stringMember(d, "source", TRUE, lim) \subseteq {ErrLimitExceeded}
  BY <1>4, <1>5, <1>t, <1>q
<1>9. /\ memberText(d, "type") = e.type
      /\ \A lim : stringMember(d, "type", TRUE, lim) \subseteq {ErrLimitExceeded}
  BY <1>4, <1>5, <1>t, <1>q
<1>10. /\ memberText(d, "subject") = e.subject
       /\ \A lim : stringMember(d, "subject", FALSE, lim) \subseteq {ErrLimitExceeded}
  <2>1. CASE e.subject = "" BY <1>4, <2>1, MissingMember
  <2>2. CASE e.subject # "" BY <1>4, <1>5, <2>2, <1>t, <1>q
  <2> QED BY <2>1, <2>2
<1>11. /\ hasMember(d, "time") <=> e.time # ""
       /\ e.time # "" => memberText(d, "time") = e.time
       /\ \A lim : stringMember(d, "time", FALSE, lim) \subseteq {ErrLimitExceeded}
  <2>1. CASE e.time = "" BY <1>4, <2>1, MissingMember
  <2>2. CASE e.time # "" BY <1>4, <1>5, <2>2, <1>t, <1>q
  <2> QED BY <2>1, <2>2
<1>12. /\ memberText(d, "datacontenttype") \in {"", Unquote(Quote(wireType(e)))}
       /\ ValidUTF8(memberText(d, "datacontenttype"))
       /\ ValidUTF8(e.dataContentType) => memberText(d, "datacontenttype") = wireType(e)
       /\ \A lim : stringMember(d, "datacontenttype", FALSE, lim) \subseteq {ErrLimitExceeded}
  <2>1. CASE wireType(e) = "" BY <1>4, <2>1, MissingMember, <1>t
  <2>2. CASE wireType(e) # "" BY <1>1, <1>4, <2>2, <1>t, <1>q
  <2> QED BY <2>1, <2>2
<1>13. /\ ValidUTF8(memberText(d, "dataschema"))
       /\ ValidUTF8(e.dataSchema) => memberText(d, "dataschema") = e.dataSchema
       /\ \A lim : stringMember(d, "dataschema", FALSE, lim) \subseteq {ErrLimitExceeded}
  <2>1. CASE e.dataSchema = "" BY <1>4, <2>1, MissingMember, <1>t
  <2>2. CASE e.dataSchema # "" BY <1>4, <1>5, <2>2, <1>t, <1>q
  <2> QED BY <2>1, <2>2
<1> QED BY <1>6, <1>7, <1>8, <1>9, <1>10, <1>11, <1>12, <1>13 DEF d

\* One stage after another: the first that fails decides.
LEMMA Stages ==
  ASSUME NEW A, NEW B
  PROVE  /\ \A X : A \subseteq X /\ B \subseteq X => (A ?? B) \subseteq X
         /\ (A ?? B) = {} <=> A = {} /\ B = {}
  BY DEF ??

\* Only limits refuse the context an encoder wrote, unless its time does not parse.
LEMMA JSONContextAccepted ==
  ASSUME NEW e, WholeEvent(e), ClosedStrings, NEW lim
  PROVE  /\ ~UnparsedTime(e) => decodeContext(encodeJSON(e), lim) \subseteq {ErrLimitExceeded}
         /\ UnparsedTime(e) => decodeContext(encodeJSON(e), lim) # {}
<1> DEFINE d == encodeJSON(e)
           a == stringMember(d, "specversion", TRUE, lim)
           b == When(memberText(d, "specversion") # specVersion, ErrInvalidEvent)
           f == stringMember(d, "id", TRUE, lim)
           g == stringMember(d, "source", TRUE, lim)
           h == stringMember(d, "type", TRUE, lim)
           i == stringMember(d, "datacontenttype", FALSE, lim)
           j == stringMember(d, "dataschema", FALSE, lim)
           k == stringMember(d, "subject", FALSE, lim)
           l == stringMember(d, "time", FALSE, lim)
           m == When(hasMember(d, "time") /\ ParseTime(memberText(d, "time")) = Nil, ErrInvalidEvent)
<1>1. decodeContext(d, lim) = (a ?? b ?? f ?? g ?? h ?? i ?? j ?? k ?? l ?? m)
  BY DEF decodeContext
<1>2. /\ a \subseteq {ErrLimitExceeded} /\ f \subseteq {ErrLimitExceeded}
      /\ g \subseteq {ErrLimitExceeded} /\ h \subseteq {ErrLimitExceeded}
  BY JSONContextRead
<1>3. /\ i \subseteq {ErrLimitExceeded} /\ j \subseteq {ErrLimitExceeded}
      /\ k \subseteq {ErrLimitExceeded} /\ l \subseteq {ErrLimitExceeded}
  BY JSONContextRead
<1>4. b = {}
  BY JSONContextRead DEF When, specVersion
<1>5. m = IF UnparsedTime(e) THEN {ErrInvalidEvent} ELSE {}
  BY JSONContextRead DEF When, UnparsedTime
<1> HIDE DEF a, b, f, g, h, i, j, k, l, m
<1>6. ~UnparsedTime(e) =>
        (a ?? b ?? f ?? g ?? h ?? i ?? j ?? k ?? l ?? m) \subseteq {ErrLimitExceeded}
  BY <1>2, <1>3, <1>4, <1>5 DEF ??
<1>7. UnparsedTime(e) => (a ?? b ?? f ?? g ?? h ?? i ?? j ?? k ?? l ?? m) # {}
  BY <1>5 DEF ??
<1> QED BY <1>1, <1>6, <1>7

\* The extensions of an event whose types outside kept were lost.
stringly(extensions, kept) ==
  [n \in DOMAIN extensions |->
     Attribute(IF extensions[n].kind \in kept THEN extensions[n].kind ELSE "string",
               extensions[n].text)]

JSONKinds == {"string", "boolean", "integer"}

\* An extension is read back with its text, as a string unless it is a boolean or an
\* integer.
LEMMA JSONExtensionRead ==
  ASSUME NEW e, WholeEvent(e), NEW n \in DOMAIN e.extensions
  PROVE  LET raw == wireExtension(e.extensions[n]) IN
         /\ JSONType(raw) # "null"
         /\ decodeJSONAttribute(raw)
              = {[value |-> stringly(e.extensions, JSONKinds)[n], err |-> Nil]}
<1> DEFINE x == e.extensions[n]
           raw == wireExtension(x)
           kind == IF x.kind \in JSONKinds THEN x.kind ELSE "string"
<1>1. /\ x.kind \in AttributeKinds /\ x.text \in Strings /\ ValidCloudString(x.text)
      /\ x.kind = "boolean" => x.text \in {"true", "false"}
      /\ x.kind = "integer" => Integer32(x.text) = x.text
  BY ExtensionTexts
<1>2. stringly(e.extensions, JSONKinds)[n] = Attribute(kind, x.text)
  BY DEF stringly
<1> HIDE DEF x
<1>3. CASE x.kind = "boolean"
  <2>1. raw = x.text /\ JSONType(raw) = "bool" /\ kind = "boolean"
    BY <1>1, <1>3, JSONTypeAssumption DEF wireExtension, JSONKinds
  <2>2. decodeJSONAttribute(raw) = Returns({}, Attribute("boolean", raw))
    BY <2>1 DEF decodeJSONAttribute
  <2>3. decodeJSONAttribute(raw) = {[value |-> Attribute(kind, x.text), err |-> Nil]}
    BY <2>1, <2>2 DEF Returns
  <2> QED BY <1>2, <2>1, <2>3 DEF x
<1>4. CASE x.kind = "integer"
  <2>1. raw = x.text /\ JSONType(raw) = "number" /\ kind = "integer" /\ Integer32(raw) = raw
    BY <1>1, <1>4, JSONTypeAssumption DEF wireExtension, JSONKinds
  <2>2. raw # Nil
    BY <1>1, <2>1, NilAssumption
  <2>3. decodeJSONAttribute(raw)
          = Returns(When(Integer32(raw) = Nil, ErrInvalidAttribute), Attribute("integer", Integer32(raw)))
    BY <2>1 DEF decodeJSONAttribute
  <2>4. When(Integer32(raw) = Nil, ErrInvalidAttribute) = {}
    BY <2>1, <2>2 DEF When
  <2>5. decodeJSONAttribute(raw) = {[value |-> Attribute(kind, x.text), err |-> Nil]}
    BY <2>1, <2>3, <2>4 DEF Returns
  <2> QED BY <1>2, <2>1, <2>5 DEF x
<1>5. CASE x.kind \notin {"boolean", "integer"}
  <2>1. raw = Quote(x.text) /\ JSONType(raw) = "string" /\ kind = "string"
    BY <1>1, <1>5, JSONTypeAssumption DEF wireExtension, JSONKinds
  <2>2. Unquote(raw) = x.text
    BY <1>1, <2>1, StringAssumption
  <2>3. decodeJSONAttribute(raw)
          = Returns(When(~ValidCloudString(Unquote(raw)), ErrInvalidAttribute),
                    Attribute("string", Unquote(raw)))
    BY <2>1 DEF decodeJSONAttribute
  <2>4. When(~ValidCloudString(Unquote(raw)), ErrInvalidAttribute) = {}
    BY <1>1, <2>2 DEF When
  <2>5. decodeJSONAttribute(raw) = {[value |-> Attribute(kind, x.text), err |-> Nil]}
    BY <2>1, <2>2, <2>3, <2>4 DEF Returns
  <2> QED BY <1>2, <2>1, <2>5 DEF x
<1> QED BY <1>3, <1>4, <1>5

\* So are all of them, and only limits refuse them.
LEMMA JSONExtensionsRead ==
  ASSUME NEW e, WholeEvent(e), NEW lim
  PROVE  LET d == encodeJSON(e) IN
         /\ extensionMembers(d) = DOMAIN e.extensions
         /\ decodedExtensions(d) = stringly(e.extensions, JSONKinds)
         /\ \A n \in DOMAIN e.extensions : extensionFailure(d, n, lim) \subseteq {ErrLimitExceeded}
<1> DEFINE d == encodeJSON(e)
           c == coreAttributes(e)
           data == encodeJSONData(e.data)
           ext == stringly(e.extensions, JSONKinds)
<1>1. /\ DOMAIN d.members = DOMAIN c \cup DOMAIN data \cup DOMAIN e.extensions
                  \cup (IF wireType(e) # "" THEN {"datacontenttype"} ELSE {})
      /\ \A n \in DOMAIN e.extensions :
           d.members[n] = wireExtension(e.extensions[n]) /\ n \notin reservedAttributeNames
  BY JSONMembers
<1>2. DOMAIN data \subseteq {"data", "data_base64"}
  BY JSONDataWritten
<1>3. DOMAIN c \subseteq {"specversion", "id", "source", "type", "dataschema", "subject", "time"}
  <2>1. DOMAIN coreAttributes(e) = {"specversion", "id", "source", "type"}
                       \cup (IF e.dataSchema # "" THEN {"dataschema"} ELSE {})
                       \cup (IF e.subject # "" THEN {"subject"} ELSE {})
                       \cup (IF e.time # "" THEN {"time"} ELSE {})
    BY CoreAttributesWritten
  <2> QED BY <2>1
<1> HIDE DEF c, data
<1>4. extensionMembers(d) = DOMAIN e.extensions
  BY <1>1, <1>2, <1>3 DEF extensionMembers, reservedAttributeNames
<1>5. \A n \in DOMAIN e.extensions :
        /\ hasMember(d, n)
        /\ decodeJSONAttribute(d.members[n]) = {[value |-> ext[n], err |-> Nil]}
  BY <1>1, JSONExtensionRead DEF hasMember
<1> HIDE DEF d
<1>6. ASSUME NEW n \in DOMAIN e.extensions
      PROVE  /\ (CHOOSE r \in decodeJSONAttribute(d.members[n]) : TRUE).value = ext[n]
             /\ (CHOOSE r \in decodeJSONAttribute(d.members[n]) : TRUE).err = Nil
  <2> HIDE DEF ext
  <2> DEFINE got == CHOOSE r \in decodeJSONAttribute(d.members[n]) : TRUE
  <2>1. got \in decodeJSONAttribute(d.members[n])
    BY <1>5
  <2> HIDE DEF got
  <2>2. got = [value |-> ext[n], err |-> Nil]
    BY <1>5, <2>1
  <2>3. got.value = ext[n] /\ got.err = Nil
    BY <2>2
  <2> QED BY <2>3 DEF got
<1>7. decodedExtensions(d) = ext
  <2>1. {m \in extensionMembers(d) : hasMember(d, m)} = DOMAIN e.extensions
    BY <1>4, <1>5
  <2>2. decodedExtensions(d) = [n \in DOMAIN e.extensions |->
          (CHOOSE r \in decodeJSONAttribute(d.members[n]) : TRUE).value]
    BY <2>1 DEF decodedExtensions
  <2>3. \A n \in DOMAIN e.extensions :
          (CHOOSE r \in decodeJSONAttribute(d.members[n]) : TRUE).value = ext[n]
    <3> HIDE DEF ext
    <3> QED BY <1>6
  <2>4. ext = [n \in DOMAIN e.extensions |-> ext[n]]
    BY DEF stringly
  <2> HIDE DEF ext
  <2> QED BY <2>2, <2>3, <2>4
<1>8. ASSUME NEW n \in DOMAIN e.extensions
      PROVE  extensionFailure(d, n, lim) \subseteq {ErrLimitExceeded}
  <2> HIDE DEF ext
  <2>1. (CHOOSE r \in decodeJSONAttribute(d.members[n]) : TRUE).err = Nil
    BY <1>6
  <2> QED BY <2>1 DEF extensionFailure, When, ??
<1> QED BY <1>4, <1>7, <1>8 DEF d, ext

-----------------------------------------------------------------------------
(* What a crossing changes and what a report names.                         *)

\* Whether the JSON form loses the data.
JSONLosesData(e) ==
  \/ e.data.kind = "json" /\ (TrimSpace(e.data.bytes) # e.data.bytes \/ ~isJSONMediaType(e.dataContentType))
  \/ e.data.kind = "text" /\ e.dataContentType # "" /\ isJSONMediaType(e.dataContentType)

LEMMA JSONReportFields ==
  ASSUME NEW e
  PROVE  jsonConversionReport(e)
           = When(wireType(e) # e.dataContentType, Core("datacontenttype"))
             \cup When(JSONLosesData(e), Core("data")) \cup lostExtensions(e, JSONKinds)
<1>1. wireType(e) # e.dataContentType <=> e.data.kind = "text" /\ e.dataContentType = ""
  BY DEF wireType
<1> DEFINE lost == lostExtensions(e, {"string", "boolean", "integer"})
           ct == e.dataContentType
           trim == e.data.kind = "json" /\ TrimSpace(e.data.bytes) # e.data.bytes
           typed == e.data.kind = "text" /\ ct = ""
           kind == \/ e.data.kind = "text" /\ isJSONMediaType(ct)
                   \/ e.data.kind = "json" /\ ~isJSONMediaType(ct)
<1>2. jsonConversionReport(e)
        = When(trim, Core("data"))
          \cup (IF typed THEN {Core("datacontenttype")} ELSE When(kind, Core("data"))) \cup lost
  BY DEF jsonConversionReport
<1>3. JSONLosesData(e) <=> trim \/ (~typed /\ kind)
  BY DEF JSONLosesData
<1>4. typed => ~trim /\ (wireType(e) # e.dataContentType)
  BY <1>1
<1>5. ~typed => ~(wireType(e) # e.dataContentType)
  BY <1>1
<1> HIDE DEF lost, trim, typed, kind
<1>6. lost = lostExtensions(e, JSONKinds)
  BY DEF lost, JSONKinds
<1> QED BY <1>2, <1>3, <1>4, <1>5, <1>6 DEF When

\* An event that kept everything but a content type, its data and the types of some
\* extensions.
Image(e, ct, kept, data) ==
  withData(Attributes(e.id, e.source, e.type, ct, e.dataSchema, e.subject, e.time,
                      stringly(e.extensions, kept)), data)

LEMMA ImageFields ==
  ASSUME NEW e, NEW ct, NEW kept, NEW data
  PROVE  LET f == Image(e, ct, kept, data) IN
         /\ f.id = e.id /\ f.source = e.source /\ f.type = e.type /\ f.dataContentType = ct
         /\ f.dataSchema = e.dataSchema /\ f.subject = e.subject /\ f.time = e.time
         /\ f.extensions = stringly(e.extensions, kept) /\ f.data = data
  BY DEF Image, withData, Attributes

\* The extensions whose types were lost are the ones that differ.
LEMMA ChangedExtensions ==
  ASSUME NEW e, NEW f, NEW kept, "string" \in kept, f.extensions = stringly(e.extensions, kept)
  PROVE  {Ext(n) : n \in {m \in DOMAIN e.extensions \cup DOMAIN f.extensions :
                            extensionOf(e, m) # extensionOf(f, m)}} = lostExtensions(e, kept)
<1>1. DOMAIN f.extensions = DOMAIN e.extensions
  BY DEF stringly
<1>2. ASSUME NEW m \in DOMAIN e.extensions
      PROVE  extensionOf(e, m) # extensionOf(f, m) <=> e.extensions[m].kind \notin kept
  <2> DEFINE x == e.extensions[m]
             y == f.extensions[m]
  <2>1. /\ y = Attribute(IF x.kind \in kept THEN x.kind ELSE "string", x.text)
    BY DEF stringly
  <2>2. y.kind = (IF x.kind \in kept THEN x.kind ELSE "string") /\ y.text = x.text
    BY <2>1 DEF Attribute
  <2>3. /\ extensionOf(e, m) = {Attribute(x.kind, x.text)}
        /\ extensionOf(f, m) = {Attribute(y.kind, y.text)}
    BY <1>1 DEF extensionOf
  <2> HIDE DEF x, y
  <2>4. Attribute(x.kind, x.text) = Attribute(y.kind, y.text) <=> x.kind = y.kind
    BY <2>2 DEF Attribute
  <2>5. x.kind = y.kind <=> x.kind \in kept
    BY <2>2
  <2> QED BY <2>3, <2>4, <2>5 DEF x
<1>3. {m \in DOMAIN e.extensions \cup DOMAIN f.extensions : extensionOf(e, m) # extensionOf(f, m)}
        = {m \in DOMAIN e.extensions : e.extensions[m].kind \notin kept}
  BY <1>1, <1>2
<1> QED BY <1>3 DEF lostExtensions

\* What differs in it.
LEMMA ImageChanges ==
  ASSUME NEW e, NEW ct, NEW kept, NEW data, "string" \in kept
  PROVE  changed(e, Image(e, ct, kept, data))
           = When(ct # e.dataContentType, Core("datacontenttype"))
             \cup When(data # e.data, Core("data")) \cup lostExtensions(e, kept)
<1> DEFINE f == Image(e, ct, kept, data)
           exts == {Ext(n) : n \in {m \in DOMAIN e.extensions \cup DOMAIN f.extensions :
                            extensionOf(e, m) # extensionOf(f, m)}}
<1>1. /\ f.id = e.id /\ f.source = e.source /\ f.type = e.type /\ f.dataContentType = ct
      /\ f.dataSchema = e.dataSchema /\ f.subject = e.subject /\ f.time = e.time
      /\ f.extensions = stringly(e.extensions, kept) /\ f.data = data
  BY ImageFields
<1> HIDE DEF f
<1>2. exts = lostExtensions(e, kept)
  BY <1>1, ChangedExtensions
<1>3. changed(e, f)
        = When(e.id # f.id, Core("id")) \cup When(e.source # f.source, Core("source"))
          \cup When(e.type # f.type, Core("type"))
          \cup When(e.dataContentType # f.dataContentType, Core("datacontenttype"))
          \cup When(e.dataSchema # f.dataSchema, Core("dataschema"))
          \cup When(e.subject # f.subject, Core("subject"))
          \cup When(e.time # f.time, Core("time"))
          \cup When(e.data # f.data, Core("data"))
          \cup exts
  BY DEF changed
<1> HIDE DEF exts
<1>4. /\ When(e.id # f.id, Core("id")) = {} /\ When(e.source # f.source, Core("source")) = {}
      /\ When(e.type # f.type, Core("type")) = {}
      /\ When(e.dataSchema # f.dataSchema, Core("dataschema")) = {}
      /\ When(e.subject # f.subject, Core("subject")) = {}
      /\ When(e.time # f.time, Core("time")) = {}
      /\ When(e.dataContentType # f.dataContentType, Core("datacontenttype"))
           = When(ct # e.dataContentType, Core("datacontenttype"))
      /\ When(e.data # f.data, Core("data")) = When(data # e.data, Core("data"))
  BY <1>1 DEF When
<1> QED BY <1>2, <1>3, <1>4 DEF f

\* It is the event itself exactly when nothing differs.
LEMMA ImageUnchanged ==
  ASSUME NEW e, WholeEvent(e), NEW ct, NEW kept, NEW data, "string" \in kept
  PROVE  Image(e, ct, kept, data) = e <=> changed(e, Image(e, ct, kept, data)) = {}
<1> DEFINE f == Image(e, ct, kept, data)
<1>1. changed(e, f) = When(ct # e.dataContentType, Core("datacontenttype"))
             \cup When(data # e.data, Core("data")) \cup lostExtensions(e, kept)
  BY ImageChanges
<1>2. /\ f.dataContentType = ct /\ f.extensions = stringly(e.extensions, kept) /\ f.data = data
  BY ImageFields
<1>3. e.extensions = [n \in DOMAIN e.extensions |->
                       Attribute(e.extensions[n].kind, e.extensions[n].text)]
  BY DEF WholeEvent, EventOfStrings
<1>4. ASSUME f = e PROVE changed(e, f) = {}
  <2> DEFINE g == [n \in DOMAIN e.extensions |->
                     Attribute(IF e.extensions[n].kind \in kept THEN e.extensions[n].kind ELSE "string",
                               e.extensions[n].text)]
  <2>1. ct = e.dataContentType /\ data = e.data /\ e.extensions = stringly(e.extensions, kept)
    BY <1>2, <1>4
  <2>2. ASSUME NEW n \in DOMAIN e.extensions PROVE e.extensions[n].kind \in kept
    <3>1. stringly(e.extensions, kept)[n]
            = Attribute(IF e.extensions[n].kind \in kept THEN e.extensions[n].kind ELSE "string",
                               e.extensions[n].text)
      BY DEF stringly
    <3>2. e.extensions[n].kind = stringly(e.extensions, kept)[n].kind
      BY <2>1
    <3> QED BY <3>1, <3>2 DEF Attribute
  <2>3. lostExtensions(e, kept) = {}
    BY <2>2 DEF lostExtensions
  <2> QED BY <1>1, <2>1, <2>3 DEF When
<1>5. ASSUME changed(e, f) = {} PROVE f = e
  <2>1. ct = e.dataContentType /\ data = e.data /\ lostExtensions(e, kept) = {}
    BY <1>1, <1>5 DEF When
  <2>2. \A n \in DOMAIN e.extensions : e.extensions[n].kind \in kept
    BY <2>1 DEF lostExtensions
  <2>3. stringly(e.extensions, kept) = e.extensions
    BY <1>3, <2>2 DEF stringly
  <2>4. e = withData(e, e.data)
    BY DEF WholeEvent, ValidEvent
  <2>5. f = withData(e, e.data)
    BY <2>1, <2>3 DEF Image, withData, Attributes
  <2> QED BY <2>4, <2>5
<1> QED BY <1>4, <1>5

\* The members that hold the data.
LEMMA JSONDataMembers ==
  ASSUME NEW e, WholeEvent(e)
  PROVE  LET d == encodeJSON(e) IN
         /\ "data" \in DOMAIN d.members <=> e.data.kind \in {"json", "text"}
         /\ "data_base64" \in DOMAIN d.members <=> e.data.kind = "binary"
         /\ e.data.kind = "json" => d.members["data"] = e.data.bytes
         /\ e.data.kind = "text" => d.members["data"] = Quote(e.data.bytes)
         /\ e.data.kind = "binary" => d.members["data_base64"] = Quote(Base64(e.data.bytes))
<1> DEFINE d == encodeJSON(e)
           c == coreAttributes(e)
           data == encodeJSONData(e.data)
<1>1. /\ DOMAIN d.members = DOMAIN c \cup DOMAIN data \cup DOMAIN e.extensions
                  \cup (IF wireType(e) # "" THEN {"datacontenttype"} ELSE {})
      /\ \A n \in DOMAIN data : d.members[n] = data[n]
      /\ \A n \in DOMAIN e.extensions : n \notin reservedAttributeNames
  BY JSONMembers
<1>2. /\ e.data.kind = "json" => DOMAIN data = {"data"} /\ data["data"] = e.data.bytes
      /\ e.data.kind = "text" => DOMAIN data = {"data"} /\ data["data"] = Quote(e.data.bytes)
      /\ e.data.kind = "binary" => /\ DOMAIN data = {"data_base64"}
                                   /\ data["data_base64"] = Quote(Base64(e.data.bytes))
      /\ e.data.kind \notin {"json", "text", "binary"} => DOMAIN data = {}
  BY JSONDataWritten
<1>3. DOMAIN c \subseteq {"specversion", "id", "source", "type", "dataschema", "subject", "time"}
  <2>1. DOMAIN coreAttributes(e) = {"specversion", "id", "source", "type"}
                       \cup (IF e.dataSchema # "" THEN {"dataschema"} ELSE {})
                       \cup (IF e.subject # "" THEN {"subject"} ELSE {})
                       \cup (IF e.time # "" THEN {"time"} ELSE {})
    BY CoreAttributesWritten
  <2> QED BY <2>1
<1> HIDE DEF d, c, data
<1>4. \A n \in {"data", "data_base64"} : n \in DOMAIN d.members <=> n \in DOMAIN data
  BY <1>1, <1>3 DEF reservedAttributeNames
<1> QED BY <1>1, <1>2, <1>4 DEF d

\* The data an encoder wrote: only limits refuse it, and it comes back as it was,
\* unless the report names it.
LEMMA JSONDataRead ==
  ASSUME NEW e, WholeEvent(e), ClosedStrings, NEW lim,
         NEW r \in decodeJSONData(encodeJSON(e), wireType(e), lim)
  PROVE  /\ r.err # Nil => r.err = ErrLimitExceeded \/ JSONLosesData(e)
         /\ r.err = Nil => (r.value = e.data <=> ~JSONLosesData(e))
<1> DEFINE d == encodeJSON(e)
           b == e.data.bytes
           limit == lim.MaxDataBytes
           base64 == Unquote(d.members["data_base64"])
           raw    == TrimSpace(d.members["data"])
           text   == IF JSONType(raw) = "null" THEN "" ELSE Unquote(raw)
           binaryFailures ==
                When(~hasMember(d, "data_base64") \/ base64 = Nil, ErrInvalidEvent)
             ?? When(limit <= 0 \/ Base64Length(base64) > limit, ErrLimitExceeded)
             ?? When(Unbase64(base64) = Nil \/ Base64(Unbase64(base64)) # base64, ErrInvalidEvent)
           textFailures ==
                When(exceedsJSONEncodedStringLimit(Size(raw), limit), ErrLimitExceeded)
             ?? When(text = Nil, ErrInvalidEvent)
             ?? When(Size(text) > limit, ErrLimitExceeded)
<1>1. /\ "data" \in DOMAIN d.members <=> e.data.kind \in {"json", "text"}
      /\ "data_base64" \in DOMAIN d.members <=> e.data.kind = "binary"
      /\ e.data.kind = "json" => d.members["data"] = b
      /\ e.data.kind = "text" => d.members["data"] = Quote(b)
      /\ e.data.kind = "binary" => d.members["data_base64"] = Quote(Base64(b))
  BY JSONDataMembers
<1>2. /\ validData(e.data) /\ b \in Strings /\ e.data = [kind |-> e.data.kind, bytes |-> b]
      /\ e.data.kind = "absent" => b = ""
      /\ e.data.kind \in DataKinds
  BY WholeEventRules DEF WholeEvent, EventOfStrings, validData
<1>3. r \in (IF {"data", "data_base64"} \subseteq DOMAIN d.members THEN Returns({ErrInvalidEvent}, Nil)
      ELSE IF "data_base64" \in DOMAIN d.members
      THEN Returns(binaryFailures, NewBinaryData(Unbase64(base64)))
      ELSE IF "data" \notin DOMAIN d.members THEN Returns({}, NoData)
      ELSE IF isJSONMediaType(wireType(e))
      THEN IF limit <= 0 \/ Size(raw) > limit THEN Returns({ErrLimitExceeded}, Nil)
           ELSE NewJSONData(raw)
      ELSE IF textFailures # {} THEN Returns(textFailures, Nil)
      ELSE NewTextData(text))
  BY DEF decodeJSONData
<1>n. Nil \notin {ErrLimitExceeded, ErrInvalidEvent, ErrInvalidData}
  BY ErrorsAreNotNil DEF Errors
<1> HIDE DEF d, b, limit
<1>4. CASE e.data.kind = "absent"
  <2>1. r \in Returns({}, NoData)
    BY <1>1, <1>3, <1>4
  <2>2. r = [value |-> NoData, err |-> Nil]
    BY <2>1 DEF Returns
  <2>3. e.data = NoData
    BY <1>2, <1>4 DEF NoData
  <2> QED BY <1>4, <2>2, <2>3 DEF JSONLosesData
<1>5. CASE e.data.kind = "binary"
  <2>1. r \in Returns(binaryFailures, NewBinaryData(Unbase64(base64)))
    BY <1>1, <1>3, <1>5
  <2>2. Base64(b) \in Strings /\ b # Nil /\ Unbase64(Base64(b)) = b
    BY <1>2, NilAssumption, StringAssumption DEF ClosedStrings
  <2>3. ValidUTF8(Base64(b)) /\ Base64(b) # Nil
    BY <2>2, NilAssumption, StringAssumption
  <2>4. hasMember(d, "data_base64")
    BY <1>1, <1>5, <2>2, JSONTypeAssumption DEF hasMember
  <2>5. base64 = Base64(b)
    BY <1>1, <1>5, <2>2, <2>3, StringAssumption
  <2> HIDE DEF base64
  <2>6. binaryFailures \subseteq {ErrLimitExceeded}
    BY <2>2, <2>3, <2>4, <2>5 DEF When, ??
  <2> HIDE DEF binaryFailures
  <2>7. NewBinaryData(Unbase64(base64)) = e.data
    BY <1>2, <1>5, <2>2, <2>5 DEF NewBinaryData
  <2>8. Nil \notin binaryFailures BY <1>n, <2>6
  <2>9. /\ r.err = Nil => r.value = e.data
        /\ r.err # Nil => r.err \in binaryFailures
    BY <2>1, <2>7, <2>8, ReturnsEither
  <2> QED BY <1>5, <2>6, <2>9 DEF JSONLosesData
<1>6. CASE e.data.kind = "json"
  <2>1. r \in (IF isJSONMediaType(wireType(e))
                THEN IF limit <= 0 \/ Size(raw) > limit THEN Returns({ErrLimitExceeded}, Nil)
                     ELSE NewJSONData(raw)
                ELSE IF textFailures # {} THEN Returns(textFailures, Nil)
                ELSE NewTextData(text))
    BY <1>1, <1>3, <1>6
  <2>2. wireType(e) = e.dataContentType /\ raw = TrimSpace(b)
    BY <1>1, <1>6 DEF wireType
  <2> HIDE DEF raw
  <2>3. CASE isJSONMediaType(wireType(e)) /\ (limit <= 0 \/ Size(raw) > limit)
    <3>1. r \in Returns({ErrLimitExceeded}, Nil) BY <2>1, <2>3
    <3>2. r.err = ErrLimitExceeded BY <3>1 DEF Returns
    <3> QED BY <1>n, <3>2
  <2>4. CASE isJSONMediaType(wireType(e)) /\ ~(limit <= 0 \/ Size(raw) > limit)
    <3>1. r \in NewJSONData(raw) BY <2>1, <2>4
    <3>2. ValidJSON(raw)
      BY <1>2, <1>6, <2>2, StringAssumption DEF validData, b
    <3>3. r = [value |-> [kind |-> "json", bytes |-> raw], err |-> Nil]
      BY <3>1, <3>2 DEF NewJSONData, Returns, When
    <3>4. r.value = e.data <=> raw = b
      BY <1>2, <1>6, <3>3
    <3>5. JSONLosesData(e) <=> raw # b
      BY <1>6, <2>2, <2>4 DEF JSONLosesData, b
    <3> QED BY <3>3, <3>4, <3>5
  <2>5. CASE ~isJSONMediaType(wireType(e))
    <3>1. JSONLosesData(e)
      BY <1>6, <2>2, <2>5 DEF JSONLosesData
    <3>2. ASSUME r.err = Nil PROVE r.value # e.data
      <4>1. CASE textFailures # {}
        <5>1. Nil \notin textFailures
          BY <1>n DEF When, ??
        <5>2. r \in Returns(textFailures, Nil) BY <2>1, <2>5, <4>1
        <5> HIDE DEF textFailures
        <5> QED BY <3>2, <4>1, <5>1, <5>2, ReturnsEither
      <4>2. CASE textFailures = {}
        <5>1. r \in NewTextData(text) BY <2>1, <2>5, <4>2
        <5>2. Nil \notin When(~ValidUTF8(text), ErrInvalidData)
          BY <1>n DEF When
        <5> HIDE DEF text
        <5>3. r.value = [kind |-> "text", bytes |-> text]
          BY <3>2, <5>1, <5>2, ReturnsEither DEF NewTextData
        <5> QED BY <1>6, <5>3
      <4> QED BY <4>1, <4>2
    <3> QED BY <3>1, <3>2
  <2> QED BY <2>3, <2>4, <2>5
<1>7. CASE e.data.kind = "text"
  <2>1. r \in (IF isJSONMediaType(wireType(e))
                THEN IF limit <= 0 \/ Size(raw) > limit THEN Returns({ErrLimitExceeded}, Nil)
                     ELSE NewJSONData(raw)
                ELSE IF textFailures # {} THEN Returns(textFailures, Nil)
                ELSE NewTextData(text))
    BY <1>1, <1>3, <1>7
  <2>2. raw = Quote(b) /\ JSONType(raw) = "string"
    BY <1>1, <1>2, <1>7, JSONTypeAssumption
  <2> HIDE DEF raw
  <2>3. text = b /\ b # Nil /\ ValidUTF8(b)
    BY <1>2, <1>7, <2>2, StringAssumption, NilAssumption DEF validData, b
  <2> HIDE DEF text
  <2>4. JSONLosesData(e) <=> isJSONMediaType(wireType(e))
    BY <1>7, ImplicitTypeAssumption DEF JSONLosesData, wireType, isJSONMediaType
  <2>5. CASE isJSONMediaType(wireType(e))
    <3>1. ASSUME r.err = Nil PROVE r.value # e.data
      <4>1. CASE limit <= 0 \/ Size(raw) > limit
        <5>1. r \in Returns({ErrLimitExceeded}, Nil) BY <2>1, <2>5, <4>1
        <5>2. r.err = ErrLimitExceeded BY <5>1 DEF Returns
        <5> QED BY <1>n, <3>1, <5>2
      <4>2. CASE ~(limit <= 0 \/ Size(raw) > limit)
        <5>1. r \in NewJSONData(raw) BY <2>1, <2>5, <4>2
        <5>2. Nil \notin When(~ValidJSON(raw), ErrInvalidData)
          BY <1>n DEF When
        <5>3. r.value = [kind |-> "json", bytes |-> raw]
          BY <3>1, <5>1, <5>2, ReturnsEither DEF NewJSONData
        <5> QED BY <1>7, <5>3
      <4> QED BY <4>1, <4>2
    <3> QED BY <2>4, <2>5, <3>1
  <2>6. CASE ~isJSONMediaType(wireType(e))
    <3>1. textFailures \subseteq {ErrLimitExceeded}
      BY <2>3 DEF When, ??
    <3> HIDE DEF textFailures
    <3>2. CASE textFailures # {}
      <4>1. r \in Returns(textFailures, Nil) BY <2>1, <2>6, <3>2
      <4>2. Nil \notin textFailures BY <1>n, <3>1
      <4>3. r.err = ErrLimitExceeded BY <3>1, <3>2, <4>1, <4>2, ReturnsEither
      <4> QED BY <1>n, <4>3
    <3>3. CASE textFailures = {}
      <4>1. r \in NewTextData(text) BY <2>1, <2>6, <3>3
      <4>2. r = [value |-> [kind |-> "text", bytes |-> b], err |-> Nil]
        BY <2>3, <4>1 DEF NewTextData, Returns, When
      <4>3. r.value = e.data BY <1>2, <1>7, <4>2
      <4> QED BY <2>4, <2>6, <4>2, <4>3
    <3> QED BY <3>2, <3>3
  <2> QED BY <2>5, <2>6
<1> QED BY <1>2, <1>4, <1>5, <1>6, <1>7 DEF DataKinds

-----------------------------------------------------------------------------
(* DecodeJSON stage by stage.                                               *)

\* The attributes a document gives an event.
jsonAttributes(doc) ==
  Attributes(memberText(doc, "id"), memberText(doc, "source"), memberText(doc, "type"),
             memberText(doc, "datacontenttype"), memberText(doc, "dataschema"),
             memberText(doc, "subject"),
             IF hasMember(doc, "time") THEN ParseTime(memberText(doc, "time")) ELSE "",
             decodedExtensions(doc))

\* A document that is decoded passed every stage; one that is not was turned away by
\* a limit, or some stage had another reason.
LEMMA DecodeJSONStages ==
  ASSUME NEW body, NEW lim, NEW r \in DecodeJSON(body, lim)
  PROVE  LET doc == asDocument(body) IN
         /\ r.err = Nil =>
              /\ ~(lim.MaxEventBytes <= 0 \/ BodySize(body) > lim.MaxEventBytes)
              /\ inspectJSON(doc, lim.MaxDepth) = {} /\ doc.form = "doc"
              /\ ~(lim.MaxAttributes <= 0 \/ countJSONAttributes(doc) > lim.MaxAttributes)
              /\ decodeContext(doc, lim) = {}
              /\ \A n \in extensionMembers(doc) : extensionFailure(doc, n, lim) = {}
              /\ \E q \in decodeJSONData(doc, memberText(doc, "datacontenttype"), lim) :
                   q.err = Nil /\ r.value = withData(jsonAttributes(doc), q.value)
         /\ r.err # Nil =>
              \/ r.err = ErrLimitExceeded
              \/ ~(inspectJSON(doc, lim.MaxDepth) \subseteq {ErrLimitExceeded})
              \/ doc.form # "doc"
              \/ ~(decodeContext(doc, lim) \subseteq {ErrLimitExceeded})
              \/ \E n \in extensionMembers(doc) :
                   ~(extensionFailure(doc, n, lim) \subseteq {ErrLimitExceeded})
              \/ \E q \in decodeJSONData(doc, memberText(doc, "datacontenttype"), lim) :
                   q.err \notin {Nil, ErrLimitExceeded}
              \/ validateAttributes(jsonAttributes(doc)) # {}
<1> DEFINE doc == asDocument(body)
           results == decodeJSONData(doc, memberText(doc, "datacontenttype"), lim)
           q     == CHOOSE x \in results : TRUE
           size  == When(lim.MaxEventBytes <= 0 \/ BodySize(body) > lim.MaxEventBytes, ErrLimitExceeded)
           inspect == inspectJSON(doc, lim.MaxDepth)
           form  == When(doc.form # "doc", ErrInvalidEvent)
           count == When(lim.MaxAttributes <= 0 \/ countJSONAttributes(doc) > lim.MaxAttributes,
                         ErrLimitExceeded)
           context == decodeContext(doc, lim)
           extensions == UNION {extensionFailure(doc, n, lim) : n \in extensionMembers(doc)}
           data  == When(q.err # Nil, q.err)
           failures == size ?? inspect ?? form ?? count ?? context ?? extensions ?? data
<1>1. DecodeJSON(body, lim) = IF failures # {} THEN Returns(failures, Nil)
                              ELSE NewEvent(jsonAttributes(doc), q.value)
  BY DEF DecodeJSON, jsonAttributes
<1>2. q \in results
  BY JSONDataResult
<1>3. /\ size \subseteq {ErrLimitExceeded} /\ count \subseteq {ErrLimitExceeded}
      /\ size = {} <=> ~(lim.MaxEventBytes <= 0 \/ BodySize(body) > lim.MaxEventBytes)
      /\ count = {} <=> ~(lim.MaxAttributes <= 0 \/ countJSONAttributes(doc) > lim.MaxAttributes)
      /\ form = {} <=> doc.form = "doc"
      /\ data = {} <=> q.err = Nil
      /\ data \subseteq {q.err}
      /\ Nil \notin size /\ Nil \notin form /\ Nil \notin count /\ Nil \notin data
  BY ErrorsAreNotNil DEF When, Errors
<1>4. Nil \notin extensions /\ Nil \notin inspect /\ Nil \notin context
  BY MemberFailures, ContextFailures
<1>5. extensions = {} => \A n \in extensionMembers(doc) : extensionFailure(doc, n, lim) = {}
  OBVIOUS
<1>6. \A x \in extensions : \E n \in extensionMembers(doc) : x \in extensionFailure(doc, n, lim)
  OBVIOUS
<1> HIDE DEF results, q, size, inspect, form, count, context, extensions, data
<1>7. /\ Nil \notin failures
      /\ failures = {} <=> /\ size = {} /\ inspect = {} /\ form = {} /\ count = {}
                           /\ context = {} /\ extensions = {} /\ data = {}
      /\ failures \subseteq size \cup inspect \cup form \cup count \cup context \cup extensions \cup data
  BY <1>3, <1>4 DEF ??
<1> HIDE DEF failures
<1>8. CASE failures # {}
  <2>1. r.err # Nil /\ r.err \in failures
    BY <1>1, <1>7, <1>8, ReturnsEither
  <2>2. \/ r.err \in size \/ r.err \in inspect \/ r.err \in form \/ r.err \in count
        \/ r.err \in context \/ r.err \in extensions \/ r.err \in data
    BY <1>7, <2>1
  <2>3. r.err \in size \/ r.err \in count => r.err = ErrLimitExceeded BY <1>3
  <2>4. r.err \in inspect => r.err = ErrLimitExceeded \/ ~(inspect \subseteq {ErrLimitExceeded})
    OBVIOUS
  <2>5. r.err \in form => doc.form # "doc" BY <1>3
  <2>6. r.err \in context => r.err = ErrLimitExceeded \/ ~(context \subseteq {ErrLimitExceeded})
    OBVIOUS
  <2>7. r.err \in extensions => \/ r.err = ErrLimitExceeded
                                \/ \E n \in extensionMembers(doc) :
                                     ~(extensionFailure(doc, n, lim) \subseteq {ErrLimitExceeded})
    BY <1>6
  <2>8. r.err \in data => r.err = ErrLimitExceeded \/ \E p \in results : p.err \notin {Nil, ErrLimitExceeded}
    BY <1>2, <1>3, <2>1
  <2> QED BY <2>1, <2>2, <2>3, <2>4, <2>5, <2>6, <2>7, <2>8 DEF inspect, context, results
<1>9. CASE failures = {}
  <2>1. r \in NewEvent(jsonAttributes(doc), q.value)
    BY <1>1, <1>9
  <2>2. /\ r.err = Nil <=> validateAttributes(jsonAttributes(doc)) = {}
        /\ r.err = Nil => r.value = withData(jsonAttributes(doc), q.value)
    BY <2>1, NewEventResult
  <2>3. /\ ~(lim.MaxEventBytes <= 0 \/ BodySize(body) > lim.MaxEventBytes)
        /\ inspectJSON(doc, lim.MaxDepth) = {} /\ doc.form = "doc"
        /\ ~(lim.MaxAttributes <= 0 \/ countJSONAttributes(doc) > lim.MaxAttributes)
        /\ decodeContext(doc, lim) = {}
        /\ \A n \in extensionMembers(doc) : extensionFailure(doc, n, lim) = {}
    BY <1>3, <1>5, <1>7, <1>9 DEF inspect, context
  <2>4. r.err = Nil => \E p \in results : p.err = Nil /\ r.value = withData(jsonAttributes(doc), p.value)
    BY <1>2, <1>3, <1>7, <1>9, <2>2
  <2> QED BY <2>2, <2>3, <2>4 DEF results
<1> QED BY <1>8, <1>9

\* A body that is a document is its own Document.
LEMMA DecodeJSONParts ==
  ASSUME NEW body, body.form = "doc", NEW lim, NEW r \in DecodeJSON(body, lim)
  PROVE  /\ r.err = Nil =>
              /\ ~(lim.MaxEventBytes <= 0 \/ BodySize(body) > lim.MaxEventBytes)
              /\ inspectJSON(body, lim.MaxDepth) = {}
              /\ ~(lim.MaxAttributes <= 0 \/ countJSONAttributes(body) > lim.MaxAttributes)
              /\ decodeContext(body, lim) = {}
              /\ \A n \in extensionMembers(body) : extensionFailure(body, n, lim) = {}
              /\ \E q \in decodeJSONData(body, memberText(body, "datacontenttype"), lim) :
                   q.err = Nil /\ r.value = withData(jsonAttributes(body), q.value)
         /\ r.err # Nil =>
              \/ r.err = ErrLimitExceeded
              \/ ~(inspectJSON(body, lim.MaxDepth) \subseteq {ErrLimitExceeded})
              \/ ~(decodeContext(body, lim) \subseteq {ErrLimitExceeded})
              \/ \E n \in extensionMembers(body) :
                   ~(extensionFailure(body, n, lim) \subseteq {ErrLimitExceeded})
              \/ \E q \in decodeJSONData(body, memberText(body, "datacontenttype"), lim) :
                   q.err \notin {Nil, ErrLimitExceeded}
              \/ validateAttributes(jsonAttributes(body)) # {}
<1>1. asDocument(body) = body
  BY DEF asDocument
<1> QED BY <1>1, DecodeJSONStages

-----------------------------------------------------------------------------
(* The crossing of the JSON form.                                           *)

\* An event that kept everything but a content type and the types of some extensions
\* is accepted again.
LEMMA ImageValid ==
  ASSUME NEW e, WholeEvent(e), NEW ct, MediaClass(ct) # "malformed", NEW kept
  PROVE  validateAttributes(Attributes(e.id, e.source, e.type, ct, e.dataSchema, e.subject,
                                       e.time, stringly(e.extensions, kept))) = {}
<1> DEFINE ext == stringly(e.extensions, kept)
           a == Attributes(e.id, e.source, e.type, ct, e.dataSchema, e.subject, e.time, ext)
<1>1. CoreValid(e) /\ ExtensionsValid(e.extensions)
  BY WholeEventRules
<1>2. CoreValid(a)
  BY <1>1 DEF CoreValid, Attributes
<1>3. DOMAIN ext = DOMAIN e.extensions
  BY DEF stringly
<1>4. ASSUME NEW n \in DOMAIN ext
      PROVE  /\ ValidName(n) /\ n \notin reservedAttributeNames /\ validAttribute(ext[n])
             /\ ext[n].text = e.extensions[n].text
             /\ e.extensions[n].kind = "string" => ext[n].kind = "string"
  <2> DEFINE x == e.extensions[n]
  <2>1. ext[n] = Attribute(IF x.kind \in kept THEN x.kind ELSE "string", x.text)
    BY <1>3 DEF stringly
  <2>2. ValidName(n) /\ n \notin reservedAttributeNames /\ validAttribute(x) /\ ValidCloudString(x.text)
    BY <1>1, <1>3, ExtensionTexts DEF ExtensionsValid
  <2> HIDE DEF x
  <2>3. /\ ext[n].text = x.text /\ (ext[n].kind = x.kind \/ ext[n].kind = "string")
        /\ x.kind = "string" => ext[n].kind = "string"
    BY <2>1 DEF Attribute
  <2> HIDE DEF ext
  <2>4. validAttribute(ext[n])
    BY <2>2, <2>3 DEF validAttribute
  <2> QED BY <2>2, <2>3, <2>4 DEF x
<1> HIDE DEF ext
<1>5. ExtensionsValid(ext)
  BY <1>1, <1>3, <1>4 DEF ExtensionsValid
<1>6. a.extensions = ext
  BY DEF Attributes
<1> QED BY <1>2, <1>5, <1>6, ValidAttributesRules DEF ext

\* What no JSON report names.
JSONUnreported(e) == UnparsedTime(e) \/ NonUTF8Schema(e) \/ NonUTF8Type(e)

\* The document of an event is turned away by a limit, or for data the report names, or
\* comes back as the report says; an event of JSONUnreported never comes back.
LEMMA JSONCrossing ==
  ASSUME NEW e, WholeEvent(e), ClosedStrings, NEW lim, NEW r \in DecodeJSON(encodeJSON(e), lim)
  PROVE  /\ r.err # Nil => r.err = ErrLimitExceeded \/ JSONUnreported(e) \/ JSONLosesData(e)
         /\ r.err = Nil /\ ~JSONUnreported(e) =>
              \E data : /\ r.value = Image(e, wireType(e), JSONKinds, data)
                        /\ data = e.data <=> ~JSONLosesData(e)
         /\ r.err = Nil /\ JSONUnreported(e) => r.value # e
         /\ r.err = Nil => r.value.extensions = stringly(e.extensions, JSONKinds)
<1> DEFINE d == encodeJSON(e)
           a == jsonAttributes(d)
           ct == memberText(d, "datacontenttype")
<1>1. /\ memberText(d, "id") = e.id /\ memberText(d, "source") = e.source
      /\ memberText(d, "type") = e.type /\ memberText(d, "subject") = e.subject
      /\ hasMember(d, "time") <=> e.time # ""
      /\ e.time # "" => memberText(d, "time") = e.time
      /\ ValidUTF8(ct) /\ (ValidUTF8(e.dataContentType) => ct = wireType(e))
      /\ ValidUTF8(memberText(d, "dataschema"))
      /\ ValidUTF8(e.dataSchema) => memberText(d, "dataschema") = e.dataSchema
  BY JSONContextRead
<1>2. d.form = "doc" /\ d.duplicate = FALSE
  BY JSONMembers
<1>3. /\ ~UnparsedTime(e) => decodeContext(d, lim) \subseteq {ErrLimitExceeded}
      /\ UnparsedTime(e) => decodeContext(d, lim) # {}
  BY JSONContextAccepted
<1>4. /\ extensionMembers(d) = DOMAIN e.extensions
      /\ decodedExtensions(d) = stringly(e.extensions, JSONKinds)
      /\ \A n \in DOMAIN e.extensions : extensionFailure(d, n, lim) \subseteq {ErrLimitExceeded}
  BY JSONExtensionsRead
<1>5. inspectJSON(d, lim.MaxDepth) \subseteq {ErrLimitExceeded}
  BY <1>2 DEF inspectJSON, When, ??
<1>6. e.time # "" /\ ~UnparsedTime(e) => ParseTime(e.time) = e.time
  BY DEF WholeEvent, EventOfStrings, UnparsedTime
<1>7. ASSUME ~JSONUnreported(e)
      PROVE  /\ ct = wireType(e)
             /\ a = Attributes(e.id, e.source, e.type, wireType(e), e.dataSchema, e.subject, e.time,
                               stringly(e.extensions, JSONKinds))
             /\ validateAttributes(a) = {}
  <2>1. ct = wireType(e)
    BY <1>1, <1>7 DEF JSONUnreported, NonUTF8Type
  <2>2. memberText(d, "dataschema") = e.dataSchema
    BY <1>1, <1>7 DEF JSONUnreported, NonUTF8Schema
  <2>3. (IF hasMember(d, "time") THEN ParseTime(memberText(d, "time")) ELSE "") = e.time
    BY <1>1, <1>6, <1>7 DEF JSONUnreported
  <2>4. a = Attributes(e.id, e.source, e.type, wireType(e), e.dataSchema, e.subject, e.time,
                       stringly(e.extensions, JSONKinds))
    <3> HIDE DEF d
    <3> QED BY <1>1, <1>4, <2>1, <2>2, <2>3 DEF jsonAttributes
  <2>5. MediaClass(wireType(e)) # "malformed"
    BY WholeEventRules, ImplicitTypeAssumption DEF CoreValid, wireType
  <2>6. validateAttributes(a) = {}
    BY <2>4, <2>5, ImageValid
  <2> QED BY <2>1, <2>4, <2>6
<1> HIDE DEF d
<1>8. ASSUME r.err # Nil, r.err # ErrLimitExceeded, ~JSONUnreported(e) PROVE JSONLosesData(e)
  <2>1. ~UnparsedTime(e) BY <1>8 DEF JSONUnreported
  <2>2. \/ ~(inspectJSON(d, lim.MaxDepth) \subseteq {ErrLimitExceeded})
        \/ d.form # "doc"
        \/ ~(decodeContext(d, lim) \subseteq {ErrLimitExceeded})
        \/ \E n \in extensionMembers(d) : ~(extensionFailure(d, n, lim) \subseteq {ErrLimitExceeded})
        \/ \E q \in decodeJSONData(d, ct, lim) : q.err \notin {Nil, ErrLimitExceeded}
        \/ validateAttributes(a) # {}
    <3>1. r \in DecodeJSON(d, lim) BY DEF d
    <3> QED BY <1>8, <3>1, DecodeJSONParts
  <2>3. PICK q \in decodeJSONData(d, ct, lim) : q.err \notin {Nil, ErrLimitExceeded}
    BY <1>2, <1>3, <1>4, <1>5, <1>7, <1>8, <2>1, <2>2
  <2>4. ct = wireType(e) BY <1>7, <1>8
  <2>5. q \in decodeJSONData(encodeJSON(e), wireType(e), lim)
    BY <2>3, <2>4 DEF d
  <2> QED BY <2>3, <2>5, JSONDataRead
<1>9. ASSUME r.err = Nil
      PROVE  /\ decodeContext(d, lim) = {}
             /\ \E q \in decodeJSONData(d, ct, lim) : q.err = Nil /\ r.value = withData(a, q.value)
  <2>1. r \in DecodeJSON(d, lim) BY DEF d
  <2> QED BY <1>2, <1>9, <2>1, DecodeJSONParts
<1>10. ASSUME r.err = Nil, ~JSONUnreported(e)
       PROVE  \E data : /\ r.value = Image(e, wireType(e), JSONKinds, data)
                        /\ data = e.data <=> ~JSONLosesData(e)
  <2>1. PICK q \in decodeJSONData(d, ct, lim) : q.err = Nil /\ r.value = withData(a, q.value)
    BY <1>9, <1>10
  <2>2. r.value = Image(e, wireType(e), JSONKinds, q.value)
    BY <1>7, <1>10, <2>1 DEF Image
  <2>3. ct = wireType(e) BY <1>7, <1>10
  <2>4. q \in decodeJSONData(encodeJSON(e), wireType(e), lim)
    BY <2>1, <2>3 DEF d
  <2>5. q.value = e.data <=> ~JSONLosesData(e)
    BY <2>1, <2>4, JSONDataRead
  <2> QED BY <2>2, <2>5
<1>11. ASSUME r.err = Nil, JSONUnreported(e) PROVE r.value # e
  <2>1. ~UnparsedTime(e)
    BY <1>3, <1>9, <1>11
  <2>2. PICK q : r.value = withData(a, q.value)
    BY <1>9, <1>11
  <2>3. r.value.dataContentType = ct /\ r.value.dataSchema = memberText(d, "dataschema")
    <3>1. a.dataContentType = ct /\ a.dataSchema = memberText(d, "dataschema")
      BY DEF jsonAttributes, Attributes
    <3> HIDE DEF a
    <3>2. r.value.dataContentType = a.dataContentType /\ r.value.dataSchema = a.dataSchema
      BY <2>2 DEF withData
    <3> QED BY <3>1, <3>2
  <2>4. ValidUTF8(r.value.dataContentType) /\ ValidUTF8(r.value.dataSchema)
    BY <1>1, <2>3
  <2> QED BY <1>11, <2>1, <2>4 DEF JSONUnreported, NonUTF8Schema, NonUTF8Type
<1>12. ASSUME r.err = Nil PROVE r.value.extensions = stringly(e.extensions, JSONKinds)
  <2>1. PICK q : r.value = withData(a, q.value)
    BY <1>9, <1>12
  <2>2. a.extensions = decodedExtensions(d)
    BY DEF jsonAttributes, Attributes
  <2> HIDE DEF a
  <2>3. r.value.extensions = a.extensions
    BY <2>1 DEF withData
  <2> QED BY <1>4, <2>2, <2>3 DEF d
<1> QED BY <1>8, <1>10, <1>11, <1>12

-----------------------------------------------------------------------------
(* The binary form.                                                         *)

\* The content type a binary message carries.
binaryType(e) ==
  IF e.dataContentType # "" THEN e.dataContentType
  ELSE IF present(e.data) THEN implicitDataContentType(e.data.kind) ELSE ""

BinaryLosesData(e) ==
  /\ present(e.data) /\ e.dataContentType # ""
  /\ ~dataKindMatchesContentType(e.data.kind, e.dataContentType)

LEMMA ImplicitTypes ==
  ASSUME NEW kind
  PROVE  /\ implicitDataContentType(kind) \in {"application/json", "text/plain", "application/octet-stream"}
         /\ implicitDataContentType(kind) # ""
         /\ dataKindMatchesContentType(kind, implicitDataContentType(kind))
         /\ isJSONMediaType(implicitDataContentType(kind)) => kind = "json"
  BY ImplicitTypeAssumption DEF implicitDataContentType, dataKindMatchesContentType,
     isJSONMediaType, isTextMediaType

LEMMA BinaryReportFields ==
  ASSUME NEW e
  PROVE  binaryConversionReport(e)
           = When(binaryType(e) # e.dataContentType, Core("datacontenttype"))
             \cup When(BinaryLosesData(e), Core("data")) \cup lostExtensions(e, {"string"})
<1> DEFINE lost == lostExtensions(e, {"string"})
           typed == present(e.data) /\ e.dataContentType = ""
           kind == present(e.data) /\ ~dataKindMatchesContentType(e.data.kind, e.dataContentType)
<1>1. binaryConversionReport(e)
        = (IF typed THEN {Core("datacontenttype")} ELSE When(kind, Core("data"))) \cup lost
  BY DEF binaryConversionReport
<1>2. binaryType(e) # e.dataContentType <=> typed
  BY ImplicitTypes DEF binaryType
<1>3. BinaryLosesData(e) <=> ~typed /\ kind
  BY DEF BinaryLosesData
<1> HIDE DEF lost, typed, kind
<1> QED BY <1>1, <1>2, <1>3 DEF When, lost

\* The data a declared content type selects is of a kind that matches it.
LEMMA DataOfMatches ==
  ASSUME NEW ct, NEW value, NEW r \in dataOf(ct, value)
  PROVE  /\ r.err # Nil => r.err = ErrInvalidData
         /\ r.err = Nil => /\ r.value = [kind |-> r.value.kind, bytes |-> value]
                           /\ r.value.kind \in {"json", "text", "binary"}
                           /\ r.value.kind = "json" <=> isJSONMediaType(ct)
                           /\ r.value.kind = "text" <=> ~isJSONMediaType(ct) /\ isTextMediaType(ct)
                           /\ dataKindMatchesContentType(r.value.kind, ct)
<1>n. Nil # ErrInvalidData
  BY ErrorsAreNotNil DEF Errors
<1>1. CASE isJSONMediaType(ct)
  <2>1. r \in Returns(When(~ValidJSON(value), ErrInvalidData), [kind |-> "json", bytes |-> value])
    BY <1>1 DEF dataOf, NewJSONData
  <2> QED BY <1>1, <1>n, <2>1 DEF Returns, When, dataKindMatchesContentType
<1>2. CASE ~isJSONMediaType(ct) /\ isTextMediaType(ct)
  <2>1. r \in Returns(When(~ValidUTF8(value), ErrInvalidData), [kind |-> "text", bytes |-> value])
    BY <1>2 DEF dataOf, NewTextData
  <2> QED BY <1>2, <1>n, <2>1 DEF Returns, When, dataKindMatchesContentType
<1>3. CASE ~isJSONMediaType(ct) /\ ~isTextMediaType(ct)
  <2>1. r \in Returns({}, [kind |-> "binary", bytes |-> value])
    BY <1>3 DEF dataOf, NewBinaryData
  <2> QED BY <1>3, <1>n, <2>1 DEF Returns, When, dataKindMatchesContentType
<1> QED BY <1>1, <1>2, <1>3

\* Data that is there comes back as it was, unless the report names it or it is text
\* under a JSON type.
LEMMA BinaryDataRead ==
  ASSUME NEW e, WholeEvent(e), present(e.data), NEW r \in dataOf(binaryType(e), e.data.bytes)
  PROVE  /\ r.err # Nil => r.err = ErrInvalidData /\ (BinaryLosesData(e) \/ TextJSON(e))
         /\ r.err = Nil /\ ~TextJSON(e) => (r.value = e.data <=> ~BinaryLosesData(e))
         /\ r.err = Nil /\ TextJSON(e) => r.value # e.data
<1> DEFINE ct == binaryType(e)
           b == e.data.bytes
<1>1. /\ validData(e.data) /\ e.data = [kind |-> e.data.kind, bytes |-> b]
      /\ e.data.kind \in {"json", "text", "binary"}
  BY WholeEventRules DEF WholeEvent, EventOfStrings, validData, present, DataKinds
<1>2. /\ r.err # Nil => r.err = ErrInvalidData
      /\ r.err = Nil => /\ r.value = [kind |-> r.value.kind, bytes |-> b]
                        /\ r.value.kind = "json" <=> isJSONMediaType(ct)
                        /\ r.value.kind = "text" <=> ~isJSONMediaType(ct) /\ isTextMediaType(ct)
                        /\ r.value.kind \in {"json", "text", "binary"}
  BY DataOfMatches
<1>3. TextJSON(e) <=> e.data.kind = "text" /\ e.dataContentType # "" /\ isJSONMediaType(e.dataContentType)
                      /\ isTextMediaType(e.dataContentType)
  BY ImplicitTypeAssumption DEF TextJSON, isJSONMediaType, isTextMediaType
<1>4. ~BinaryLosesData(e) <=> dataKindMatchesContentType(e.data.kind, ct)
  <2>1. CASE e.dataContentType = ""
    BY <2>1, ImplicitTypes DEF BinaryLosesData, binaryType
  <2>2. CASE e.dataContentType # ""
    BY <2>2 DEF BinaryLosesData, binaryType
  <2> QED BY <2>1, <2>2
<1>5. TextJSON(e) <=> e.data.kind = "text" /\ isJSONMediaType(ct) /\ isTextMediaType(ct)
  <2>1. CASE e.dataContentType = ""
    BY <1>3, <2>1, ImplicitTypes DEF binaryType
  <2>2. CASE e.dataContentType # ""
    BY <1>3, <2>2 DEF binaryType
  <2> QED BY <2>1, <2>2
<1>6. isJSONMediaType(ct) /\ e.data.kind = "json" => r.err = Nil
  <2> SUFFICES ASSUME isJSONMediaType(ct), e.data.kind = "json" PROVE r.err = Nil
    OBVIOUS
  <2>1. ValidJSON(b) BY <1>1 DEF validData
  <2> QED BY <2>1 DEF dataOf, NewJSONData, Returns, When
<1>7. ~isJSONMediaType(ct) /\ isTextMediaType(ct) /\ e.data.kind = "text" => r.err = Nil
  <2> SUFFICES ASSUME ~isJSONMediaType(ct), isTextMediaType(ct), e.data.kind = "text" PROVE r.err = Nil
    OBVIOUS
  <2>1. ValidUTF8(b) BY <1>1 DEF validData
  <2> QED BY <2>1 DEF dataOf, NewTextData, Returns, When
<1>8. ~isJSONMediaType(ct) /\ ~isTextMediaType(ct) => r.err = Nil
  BY DEF dataOf, Returns
<1>9. r.err = Nil => (r.value = e.data <=> r.value.kind = e.data.kind)
  BY <1>1, <1>2
<1> HIDE DEF ct, b
<1>10. CASE e.data.kind = "json"
  BY <1>2, <1>4, <1>5, <1>6, <1>7, <1>8, <1>9, <1>10 DEF dataKindMatchesContentType
<1>11. CASE e.data.kind = "text"
  BY <1>2, <1>4, <1>5, <1>6, <1>7, <1>8, <1>9, <1>11 DEF dataKindMatchesContentType
<1>12. CASE e.data.kind = "binary"
  BY <1>2, <1>4, <1>5, <1>6, <1>7, <1>8, <1>9, <1>12 DEF dataKindMatchesContentType
<1> QED BY <1>1, <1>10, <1>11, <1>12

\* The context of an event by wire name.
LEMMA ContextWritten ==
  ASSUME NEW e, WholeEvent(e), ClosedStrings
  PROVE  LET c == contextAttributes(e) IN
         /\ DOMAIN c = DOMAIN coreAttributes(e) \cup DOMAIN e.extensions
         /\ \A n \in DOMAIN coreAttributes(e) : c[n] = coreAttributes(e)[n]
         /\ \A n \in DOMAIN e.extensions : c[n] = e.extensions[n].text
         /\ c = [n \in DOMAIN c |-> c[n]]
         /\ "datacontenttype" \notin DOMAIN c
         /\ DOMAIN c \ reservedAttributeNames = DOMAIN e.extensions
         /\ "specversion" \in DOMAIN c /\ c["specversion"] = "1.0"
         /\ "id" \in DOMAIN c /\ c["id"] = e.id
         /\ "source" \in DOMAIN c /\ c["source"] = e.source
         /\ "type" \in DOMAIN c /\ c["type"] = e.type
         /\ "dataschema" \in DOMAIN c <=> e.dataSchema # ""
         /\ e.dataSchema # "" => c["dataschema"] = e.dataSchema
         /\ "subject" \in DOMAIN c <=> e.subject # ""
         /\ e.subject # "" => c["subject"] = e.subject
         /\ "time" \in DOMAIN c <=> e.time # ""
         /\ e.time # "" => c["time"] = e.time
<1> DEFINE c == contextAttributes(e)
           k == coreAttributes(e)
           x == [n \in DOMAIN e.extensions |-> e.extensions[n].text]
<1>1. c = k ++ x
  BY DEF contextAttributes
<1>2. /\ DOMAIN k = {"specversion", "id", "source", "type"}
                       \cup (IF e.dataSchema # "" THEN {"dataschema"} ELSE {})
                       \cup (IF e.subject # "" THEN {"subject"} ELSE {})
                       \cup (IF e.time # "" THEN {"time"} ELSE {})
      /\ k["specversion"] = "1.0" /\ k["id"] = e.id /\ k["source"] = e.source
      /\ k["type"] = e.type
      /\ e.dataSchema # "" => k["dataschema"] = e.dataSchema
      /\ e.subject # "" => k["subject"] = e.subject
      /\ e.time # "" => k["time"] = e.time
  BY CoreAttributesWritten
<1>3. \A n \in DOMAIN e.extensions : n \notin reservedAttributeNames
  BY WholeEventRules DEF ExtensionsValid
<1>4. DOMAIN x = DOMAIN e.extensions /\ \A n \in DOMAIN e.extensions : x[n] = e.extensions[n].text
  OBVIOUS
<1> HIDE DEF k, x
<1>5. DOMAIN k \subseteq reservedAttributeNames \ {"datacontenttype", "data", "data_base64"}
  BY <1>2 DEF reservedAttributeNames
<1>6. /\ DOMAIN c = DOMAIN k \cup DOMAIN e.extensions
      /\ c = [n \in DOMAIN c |-> c[n]]
      /\ \A n \in DOMAIN k : c[n] = k[n]
      /\ \A n \in DOMAIN e.extensions : c[n] = e.extensions[n].text
  <2>1. c = [n \in DOMAIN k \cup DOMAIN x |-> IF n \in DOMAIN k THEN k[n] ELSE x[n]]
    BY <1>1 DEF ++
  <2> HIDE DEF c
  <2>2. \A n \in DOMAIN e.extensions : n \notin DOMAIN k
    BY <1>3, <1>5
  <2> QED BY <1>4, <2>1, <2>2
<1> HIDE DEF c
<1>7. "datacontenttype" \notin DOMAIN c
  BY <1>3, <1>5, <1>6 DEF reservedAttributeNames
<1>8. DOMAIN c \ reservedAttributeNames = DOMAIN e.extensions
  BY <1>3, <1>5, <1>6
<1>9. \A n \in reservedAttributeNames : n \in DOMAIN c <=> n \in DOMAIN k
  BY <1>3, <1>6
<1>10. /\ "specversion" \in DOMAIN c /\ c["specversion"] = "1.0"
       /\ "id" \in DOMAIN c /\ c["id"] = e.id
       /\ "source" \in DOMAIN c /\ c["source"] = e.source
       /\ "type" \in DOMAIN c /\ c["type"] = e.type
  BY <1>2, <1>6
<1>11. /\ "dataschema" \in DOMAIN c <=> e.dataSchema # ""
       /\ e.dataSchema # "" => c["dataschema"] = e.dataSchema
  BY <1>2, <1>6, <1>9 DEF reservedAttributeNames
<1>12. /\ "subject" \in DOMAIN c <=> e.subject # ""
       /\ e.subject # "" => c["subject"] = e.subject
  BY <1>2, <1>6, <1>9 DEF reservedAttributeNames
<1>13. /\ "time" \in DOMAIN c <=> e.time # ""
       /\ e.time # "" => c["time"] = e.time
  BY <1>2, <1>6, <1>9 DEF reservedAttributeNames
<1> QED BY <1>6, <1>7, <1>8, <1>10, <1>11, <1>12, <1>13 DEF c, k

\* Its texts are strings, and all but the schema are known to be UTF-8.
LEMMA ContextTexts ==
  ASSUME NEW e, WholeEvent(e), ClosedStrings, NEW n \in DOMAIN contextAttributes(e)
  PROVE  LET t == contextAttributes(e)[n] IN
         /\ t \in Strings
         /\ n # "dataschema" => ValidUTF8(t)
         /\ n = "dataschema" => t = e.dataSchema
         /\ n \notin reservedAttributeNames => ValidCloudString(t)
<1> DEFINE c == contextAttributes(e)
           k == coreAttributes(e)
<1>1. /\ DOMAIN c = DOMAIN k \cup DOMAIN e.extensions
      /\ \A m \in DOMAIN k : c[m] = k[m]
      /\ \A m \in DOMAIN e.extensions : c[m] = e.extensions[m].text
      /\ DOMAIN c \ reservedAttributeNames = DOMAIN e.extensions
  BY ContextWritten
<1>2. /\ DOMAIN k = {"specversion", "id", "source", "type"}
                       \cup (IF e.dataSchema # "" THEN {"dataschema"} ELSE {})
                       \cup (IF e.subject # "" THEN {"subject"} ELSE {})
                       \cup (IF e.time # "" THEN {"time"} ELSE {})
      /\ k["specversion"] = "1.0" /\ k["id"] = e.id /\ k["source"] = e.source
      /\ k["type"] = e.type
      /\ e.dataSchema # "" => k["dataschema"] = e.dataSchema
      /\ e.subject # "" => k["subject"] = e.subject
      /\ e.time # "" => k["time"] = e.time
  BY CoreAttributesWritten
<1>t. /\ "1.0" \in Strings /\ e.id \in Strings /\ e.source \in Strings
      /\ e.type \in Strings /\ e.subject \in Strings /\ e.time \in Strings /\ e.dataSchema \in Strings
      /\ ValidUTF8("1.0") /\ ValidUTF8(e.id) /\ ValidUTF8(e.source)
      /\ ValidUTF8(e.type) /\ ValidUTF8(e.subject) /\ ValidUTF8(e.time)
  BY CoreTexts
<1>3. \A m \in DOMAIN e.extensions : e.extensions[m].text \in Strings /\ ValidCloudString(e.extensions[m].text)
  BY ExtensionTexts
<1>4. \A s \in Strings : ValidCloudString(s) => ValidUTF8(s)
  BY StringAssumption
<1>5. n \in DOMAIN c OBVIOUS
<1> HIDE DEF c, k
<1>6. CASE n \in DOMAIN e.extensions
  <2>1. n \notin reservedAttributeNames BY <1>1, <1>6
  <2> QED BY <1>1, <1>3, <1>4, <1>6, <2>1 DEF c, reservedAttributeNames
<1>7. CASE n \in DOMAIN k
  <2>1. c[n] = k[n] BY <1>1, <1>7
  <2>2. n \in reservedAttributeNames BY <1>2, <1>7 DEF reservedAttributeNames
  <2>3. /\ k[n] \in Strings
        /\ n # "dataschema" => ValidUTF8(k[n])
        /\ n = "dataschema" => k[n] = e.dataSchema
    BY <1>2, <1>7, <1>t
  <2> QED BY <2>1, <2>2, <2>3 DEF c
<1> QED BY <1>1, <1>5, <1>6, <1>7

\* Read back unchanged, it is refused only for a time that does not parse, and gives
\* the attributes of the event with every extension a string.
LEMMA ContextReadBack ==
  ASSUME NEW e, WholeEvent(e), ClosedStrings
  PROVE  LET c == contextAttributes(e) IN
         /\ ~UnparsedTime(e) => contextFailures(c) = {}
         /\ UnparsedTime(e) => contextFailures(c) # {}
         /\ ~UnparsedTime(e) => \A ct :
              AttributesFrom(c, ct) = Attributes(e.id, e.source, e.type, ct, e.dataSchema, e.subject,
                                                 e.time, stringly(e.extensions, {"string"}))
         /\ [n \in DOMAIN c \ reservedAttributeNames |-> Attribute("string", c[n])]
              = stringly(e.extensions, {"string"})
<1> DEFINE c == contextAttributes(e)
           get(name) == IF name \in DOMAIN c THEN c[name] ELSE ""
           exts == [n \in DOMAIN c \ reservedAttributeNames |-> Attribute("string", c[n])]
<1>1. /\ DOMAIN c \ reservedAttributeNames = DOMAIN e.extensions
      /\ \A n \in DOMAIN e.extensions : c[n] = e.extensions[n].text
      /\ "specversion" \in DOMAIN c /\ c["specversion"] = "1.0"
      /\ "id" \in DOMAIN c /\ c["id"] = e.id
      /\ "source" \in DOMAIN c /\ c["source"] = e.source
      /\ "type" \in DOMAIN c /\ c["type"] = e.type
      /\ "dataschema" \in DOMAIN c <=> e.dataSchema # ""
      /\ e.dataSchema # "" => c["dataschema"] = e.dataSchema
      /\ "subject" \in DOMAIN c <=> e.subject # ""
      /\ e.subject # "" => c["subject"] = e.subject
      /\ "time" \in DOMAIN c <=> e.time # ""
      /\ e.time # "" => c["time"] = e.time
  BY ContextWritten
<1>2. \A n \in DOMAIN c \ reservedAttributeNames : ValidCloudString(c[n])
  BY ContextTexts
<1>3. e.time # "" /\ ~UnparsedTime(e) => ParseTime(e.time) = e.time
  BY DEF WholeEvent, EventOfStrings, UnparsedTime
<1> HIDE DEF c
<1>4. contextFailures(c) = When(UnparsedTime(e), ErrInvalidEvent)
  <2>1. ~("specversion" \in DOMAIN c /\ c["specversion"] = specVersion) <=> FALSE
    BY <1>1 DEF specVersion
  <2>2. ("time" \in DOMAIN c /\ ParseTime(c["time"]) = Nil) <=> UnparsedTime(e)
    BY <1>1 DEF UnparsedTime
  <2>3. (\E n \in DOMAIN c \ reservedAttributeNames : ~ValidCloudString(c[n])) <=> FALSE
    BY <1>2
  <2> QED BY <2>1, <2>2, <2>3 DEF contextFailures, When, ??
<1>5. exts = stringly(e.extensions, {"string"})
  <2>1. exts = [n \in DOMAIN e.extensions |-> Attribute("string", e.extensions[n].text)]
    BY <1>1
  <2>2. \A n \in DOMAIN e.extensions :
          (IF e.extensions[n].kind \in {"string"} THEN e.extensions[n].kind ELSE "string") = "string"
    OBVIOUS
  <2> QED BY <2>1, <2>2 DEF stringly
<1>6. ASSUME ~UnparsedTime(e), NEW ct
      PROVE  AttributesFrom(c, ct) = Attributes(e.id, e.source, e.type, ct, e.dataSchema, e.subject,
                                                 e.time, stringly(e.extensions, {"string"}))
  <2>1. AttributesFrom(c, ct)
          = Attributes(get("id"), get("source"), get("type"), ct, get("dataschema"), get("subject"),
                       IF "time" \in DOMAIN c THEN ParseTime(c["time"]) ELSE "", exts)
    BY DEF AttributesFrom
  <2>2. /\ get("id") = e.id /\ get("source") = e.source /\ get("type") = e.type
        /\ get("dataschema") = e.dataSchema /\ get("subject") = e.subject
        /\ (IF "time" \in DOMAIN c THEN ParseTime(c["time"]) ELSE "") = e.time
    BY <1>1, <1>3, <1>6
  <2> HIDE DEF get, exts
  <2> QED BY <1>5, <2>1, <2>2
<1> QED BY <1>4, <1>5, <1>6 DEF When, c

\* The data of a binary HTTP message.
httpData(ct, body) ==
  IF body # "" \/ ct # "" THEN dataOf(ct, body) ELSE Returns({}, NoData)

\* A binary message that is decoded passed every stage; one that is not was turned away
\* by a limit, or some stage had another reason.
LEMMA DecodeHTTPBinaryParts ==
  ASSUME NEW header, NEW ct, NEW body, NEW lim, NEW r \in decodeHTTPBinary(header, ct, body, lim)
  PROVE  /\ r.err = Nil =>
              /\ respelled(header) = {}
              /\ DOMAIN header # {} => ~(Cardinality(headerNames(header)) > lim.MaxAttributes)
              /\ \A k \in DOMAIN header : binaryHeaderFailure(k, header[k], lim) = {}
              /\ contextFailures(decodedHeader(header)) = {}
              /\ \E q \in httpData(ct, body) :
                   q.err = Nil /\ r.value = withData(AttributesFrom(decodedHeader(header), ct), q.value)
         /\ r.err # Nil =>
              \/ r.err = ErrLimitExceeded
              \/ respelled(header) # {}
              \/ \E k \in DOMAIN header :
                   ~(binaryHeaderFailure(k, header[k], lim) \subseteq {ErrLimitExceeded})
              \/ contextFailures(decodedHeader(header)) # {}
              \/ \E q \in httpData(ct, body) : q.err # Nil
              \/ validateAttributes(AttributesFrom(decodedHeader(header), ct)) # {}
<1> DEFINE decoded == decodedHeader(header)
           results == httpData(ct, body)
           q == CHOOSE x \in results : TRUE
           a == respelled(header)
           b == When(DOMAIN header # {} /\ Cardinality(headerNames(header)) > lim.MaxAttributes, ErrLimitExceeded)
           c == UNION {binaryHeaderFailure(k, header[k], lim) : k \in DOMAIN header}
           d == contextFailures(decoded)
           f == When(q.err # Nil, q.err)
           failures == (a \cup b \cup c) ?? d ?? f
<1>1. decodeHTTPBinary(header, ct, body, lim)
        = IF failures # {} THEN Returns(failures, Nil) ELSE NewEvent(AttributesFrom(decoded, ct), q.value)
  BY DEF decodeHTTPBinary, httpData
<1>2. q \in results
  <2>1. results # {}
    BY DataOfResult, ReturnsSomething DEF httpData
  <2> HIDE DEF results
  <2> QED BY <2>1
<1>3. /\ b = {} <=> ~(DOMAIN header # {} /\ Cardinality(headerNames(header)) > lim.MaxAttributes)
      /\ b \subseteq {ErrLimitExceeded} /\ f \subseteq {q.err} /\ Nil \notin b /\ Nil \notin f
      /\ f = {} <=> q.err = Nil
  BY ErrorsAreNotNil DEF When, Errors
<1>4. Nil \notin a /\ Nil \notin c /\ Nil \notin d
  BY MetadataFailures
<1>5. c = {} => \A k \in DOMAIN header : binaryHeaderFailure(k, header[k], lim) = {}
  OBVIOUS
<1>6. \A x \in c : \E k \in DOMAIN header : x \in binaryHeaderFailure(k, header[k], lim)
  OBVIOUS
<1> HIDE DEF decoded, results, q, a, b, c, d, f
<1>7. /\ Nil \notin failures
      /\ failures = {} <=> a = {} /\ b = {} /\ c = {} /\ d = {} /\ f = {}
      /\ failures \subseteq a \cup b \cup c \cup d \cup f
  BY <1>3, <1>4 DEF ??
<1> HIDE DEF failures
<1>8. CASE failures # {}
  <2>1. r.err # Nil /\ r.err \in failures
    BY <1>1, <1>7, <1>8, ReturnsEither
  <2>2. r.err \in a \/ r.err \in b \/ r.err \in c \/ r.err \in d \/ r.err \in f
    BY <1>7, <2>1
  <2>3. r.err \in b => r.err = ErrLimitExceeded BY <1>3
  <2>4. r.err \in c => \/ r.err = ErrLimitExceeded
                       \/ \E k \in DOMAIN header :
                            ~(binaryHeaderFailure(k, header[k], lim) \subseteq {ErrLimitExceeded})
    BY <1>6
  <2>5. r.err \in f => \E p \in results : p.err # Nil
    BY <1>2, <1>3, <2>1
  <2> QED BY <2>1, <2>2, <2>3, <2>4, <2>5 DEF a, d, decoded, results
<1>9. CASE failures = {}
  <2>1. r \in NewEvent(AttributesFrom(decoded, ct), q.value)
    BY <1>1, <1>9
  <2>2. /\ r.err = Nil <=> validateAttributes(AttributesFrom(decoded, ct)) = {}
        /\ r.err = Nil => r.value = withData(AttributesFrom(decoded, ct), q.value)
    BY <2>1, NewEventResult
  <2>3. /\ respelled(header) = {}
        /\ DOMAIN header # {} => ~(Cardinality(headerNames(header)) > lim.MaxAttributes)
        /\ \A k \in DOMAIN header : binaryHeaderFailure(k, header[k], lim) = {}
        /\ contextFailures(decodedHeader(header)) = {}
    BY <1>3, <1>5, <1>7, <1>9 DEF a, d, decoded
  <2>4. r.err = Nil => \E p \in results : p.err = Nil /\ r.value = withData(AttributesFrom(decoded, ct), p.value)
    BY <1>2, <1>3, <1>7, <1>9, <2>2
  <2> QED BY <2>2, <2>3, <2>4 DEF results, decoded
<1> QED BY <1>8, <1>9

\* The headers of an event as the encoder writes them.
httpContext(c) == [k \in {Canonical(n) : n \in DOMAIN c} |-> <<Escape(c[k[2]])>>]

\* Each is read back by its name.
LEMMA HTTPContextRead ==
  ASSUME NEW c, c = [n \in DOMAIN c |-> c[n]]
  PROVE  /\ respelled(httpContext(c)) = {}
         /\ DOMAIN decodedHeader(httpContext(c)) = DOMAIN c
         /\ headerNames(httpContext(c)) = DOMAIN c
         /\ decodedHeader(httpContext(c)) = [n \in DOMAIN c |-> Unescape(Escape(c[n]))]
         /\ DOMAIN httpContext(c) = {Canonical(n) : n \in DOMAIN c}
         /\ \A n \in DOMAIN c : httpContext(c)[Canonical(n)] = <<Escape(c[n])>>
<1> DEFINE h == httpContext(c)
<1>1. DOMAIN h = {Canonical(n) : n \in DOMAIN c}
  BY DEF httpContext
<1>2. \A n : Canonical(n)[2] = n
  BY DEF Canonical
<1>3. \A n \in DOMAIN c : h[Canonical(n)] = <<Escape(c[n])>>
  <2> SUFFICES ASSUME NEW n \in DOMAIN c PROVE h[Canonical(n)] = <<Escape(c[n])>>
    OBVIOUS
  <2>1. h[Canonical(n)] = <<Escape(c[Canonical(n)[2]])>>
    BY DEF httpContext
  <2> QED BY <1>2, <2>1
<1> HIDE DEF h
<1>4. \A k \in DOMAIN h : k = Canonical(k[2]) /\ k[2] \in DOMAIN c
  BY <1>1, <1>2
<1>5. respelled(h) = {}
  BY <1>4 DEF respelled, When
<1>6. headerNames(h) = DOMAIN c
  BY <1>1, <1>2, <1>4 DEF headerNames
<1>7. ASSUME NEW n \in DOMAIN c PROVE Unescape(h[CHOOSE k \in DOMAIN h : k[2] = n][1]) = Unescape(Escape(c[n]))
  <2> DEFINE k == CHOOSE k \in DOMAIN h : k[2] = n
  <2>1. Canonical(n) \in DOMAIN h /\ Canonical(n)[2] = n
    BY <1>1, <1>2
  <2>2. k \in DOMAIN h /\ k[2] = n
    BY <2>1
  <2> HIDE DEF k
  <2>3. k = Canonical(n) BY <1>4, <2>2
  <2>4. h[k] = <<Escape(c[n])>> BY <1>3, <2>3
  <2>5. h[k][1] = Escape(c[n]) BY <2>4
  <2> QED BY <2>5 DEF k
<1>8. decodedHeader(h) = [n \in DOMAIN c |-> Unescape(Escape(c[n]))]
  BY <1>6, <1>7 DEF decodedHeader
<1> QED BY <1>1, <1>3, <1>5, <1>6, <1>8 DEF h

\* One header of an event: only a limit refuses a text that is UTF-8; any other text is
\* refused or read as another.
LEMMA HTTPHeaderRead ==
  ASSUME NEW n, n # "datacontenttype", NEW t \in Strings, ClosedStrings, NEW lim
  PROVE  LET f == binaryHeaderFailure(Canonical(n), <<Escape(t)>>, lim) IN
         /\ ValidUTF8(t) => f \subseteq {ErrLimitExceeded} /\ Unescape(Escape(t)) = t
         /\ f = {} => Unescape(Escape(t)) # Nil /\ ValidUTF8(Unescape(Escape(t)))
<1> DEFINE v == Unescape(Escape(t))
<1>1. Canonical(n)[2] = n /\ Len(<<Escape(t)>>) = 1 /\ <<Escape(t)>>[1] = Escape(t)
  BY DEF Canonical
<1>2. Escape(t) \in Strings /\ t # Nil
  BY NilAssumption DEF ClosedStrings
<1>3. (ValidUTF8(t) => v = t) /\ (v # Nil => ValidUTF8(v))
  BY <1>2, EscapeAssumption
<1>4. binaryHeaderFailure(Canonical(n), <<Escape(t)>>, lim)
        = (When(nameTooLong(n, lim), ErrLimitExceeded)
           ?? When(FALSE, ErrInvalidEvent)
           ?? When(FALSE, ErrInvalidEvent)
           ?? When(exceedsHTTPEncodedAttributeLimit(Size(Escape(t)), lim.MaxAttributeValueBytes),
                   ErrLimitExceeded)
           ?? When(v = Nil, ErrInvalidEvent)
           ?? When(Size(v) > lim.MaxAttributeValueBytes, ErrLimitExceeded))
  <2>1. (Len(<<Escape(t)>>) # 1) = FALSE /\ (n = "datacontenttype") = FALSE
    BY <1>1
  <2> QED BY <1>1, <2>1 DEF binaryHeaderFailure
<1> HIDE DEF v
<1> QED BY <1>2, <1>3, <1>4 DEF When, ??, v

-----------------------------------------------------------------------------
(* What becomes of an event: it arrives as the report says, or is turned    *)
(* away by a limit or for data the report names; an event that no report    *)
(* can describe does not arrive as it was.                                  *)

\* Every extension of type String is there as it was, and the content type declares
\* an event only if it did.
KeepsStrings(e, f) ==
  /\ \A n \in DOMAIN e.extensions : e.extensions[n].kind = "string" =>
       n \in DOMAIN f.extensions /\ f.extensions[n] = e.extensions[n]
  /\ Shadowed(f) => Shadowed(e)

\* A shadowed event may arrive as another altogether.
Arrives(e, unreported, losses, f) ==
  /\ Shadowed(e) \/ KeepsStrings(e, f)
  /\ unreported => f # e \/ losses # {}
  /\ ~unreported => changed(e, f) = losses /\ (f = e <=> losses = {})

TurnedAway(unreported, losses, error) ==
  error = ErrLimitExceeded \/ unreported \/ Core("data") \in losses

LEMMA WithDataFields ==
  ASSUME NEW a, NEW data
  PROVE  LET f == withData(a, data) IN
         /\ f.id = a.id /\ f.source = a.source /\ f.type = a.type
         /\ f.dataContentType = a.dataContentType /\ f.dataSchema = a.dataSchema
         /\ f.subject = a.subject /\ f.time = a.time /\ f.extensions = a.extensions
         /\ f.data = data
  BY DEF withData

LEMMA JSONTypeKept ==
  ASSUME NEW e, WholeEvent(e), ClosedStrings, NEW lim, NEW r \in DecodeJSON(encodeJSON(e), lim), r.err = Nil
  PROVE  Shadowed(r.value) => Shadowed(e)
<1> DEFINE d == encodeJSON(e)
           ct == memberText(d, "datacontenttype")
           ce == {"ce+json", "ce-batch+json", "ce-other", "ce-other+json"}
<1>1. d.form = "doc" BY JSONMembers
<1>2. \E q \in decodeJSONData(d, ct, lim) : r.value = withData(jsonAttributes(d), q.value)
  BY <1>1, DecodeJSONParts
<1>3. PICK q : r.value = withData(jsonAttributes(d), q.value)
  BY <1>2
<1>4. jsonAttributes(d).dataContentType = ct
  BY DEF jsonAttributes, Attributes
<1> HIDE DEF d, ct
<1>5. r.value.dataContentType = ct
  BY <1>3, <1>4, WithDataFields
<1>6. ct \in {"", Unquote(Quote(wireType(e)))} /\ wireType(e) \in Strings
  BY JSONContextRead, CoreTexts DEF d, ct
<1>7. MediaClass(ct) \in ce => MediaClass(wireType(e)) \in ce
  BY <1>6, RepairedTypeAssumption, ImplicitTypeAssumption
<1>8. MediaClass(wireType(e)) \in ce => MediaClass(e.dataContentType) \in ce
  BY ImplicitTypeAssumption DEF wireType
<1> QED BY <1>5, <1>7, <1>8 DEF Shadowed

LEMMA StringsKept ==
  ASSUME NEW e, WholeEvent(e), NEW kept, "string" \in kept, NEW f,
         f.extensions = stringly(e.extensions, kept), Shadowed(f) => Shadowed(e)
  PROVE  KeepsStrings(e, f)
<1>1. e.extensions = [n \in DOMAIN e.extensions |->
                       Attribute(e.extensions[n].kind, e.extensions[n].text)]
  BY DEF WholeEvent, EventOfStrings
<1>2. ASSUME NEW n \in DOMAIN e.extensions, e.extensions[n].kind = "string"
      PROVE  n \in DOMAIN f.extensions /\ f.extensions[n] = e.extensions[n]
  <2>1. n \in DOMAIN f.extensions /\ f.extensions[n] = Attribute("string", e.extensions[n].text)
    BY <1>2 DEF stringly
  <2>2. e.extensions[n] = Attribute(e.extensions[n].kind, e.extensions[n].text)
    BY <1>1
  <2> QED BY <1>2, <2>1, <2>2
<1> QED BY <1>2 DEF KeepsStrings

LEMMA ImageArrives ==
  ASSUME NEW e, WholeEvent(e), NEW ct, NEW kept, NEW data, NEW loses, "string" \in kept,
         data = e.data <=> ~loses, NEW losses,
         losses = When(ct # e.dataContentType, Core("datacontenttype"))
                    \cup When(loses, Core("data")) \cup lostExtensions(e, kept)
  PROVE  LET f == Image(e, ct, kept, data) IN changed(e, f) = losses /\ (f = e <=> losses = {})
<1>1. changed(e, Image(e, ct, kept, data))
        = When(ct # e.dataContentType, Core("datacontenttype"))
             \cup When(data # e.data, Core("data")) \cup lostExtensions(e, kept)
  BY ImageChanges
<1>2. When(data # e.data, Core("data")) = When(loses, Core("data"))
  BY DEF When
<1>3. changed(e, Image(e, ct, kept, data)) = losses
  BY <1>1, <1>2
<1>4. Image(e, ct, kept, data) = e <=> changed(e, Image(e, ct, kept, data)) = {}
  BY ImageUnchanged
<1> QED BY <1>3, <1>4

\* The body of a binary HTTP message.
binaryBody(e) == IF present(e.data) THEN e.data.bytes ELSE ""

\* The data of a binary HTTP message.
LEMMA HTTPDataRead ==
  ASSUME NEW e, WholeEvent(e),
         NEW q \in httpData(binaryType(e), binaryBody(e))
  PROVE  /\ q.err # Nil => TextJSON(e) \/ DatalessType(e) \/ BinaryLosesData(e)
         /\ q.err = Nil /\ (TextJSON(e) \/ DatalessType(e)) => q.value # e.data
         /\ q.err = Nil /\ ~TextJSON(e) /\ ~DatalessType(e) => (q.value = e.data <=> ~BinaryLosesData(e))
<1>1. CASE present(e.data)
  <2>1. binaryType(e) # ""
    BY <1>1, ImplicitTypes DEF binaryType
  <2>2. q \in dataOf(binaryType(e), e.data.bytes)
    BY <1>1, <2>1 DEF httpData, binaryBody
  <2>3. ~DatalessType(e)
    BY <1>1 DEF DatalessType
  <2> QED BY <1>1, <2>2, <2>3, BinaryDataRead
<1>2. CASE ~present(e.data)
  <2>1. binaryType(e) = e.dataContentType /\ ~BinaryLosesData(e) /\ e.data.kind = "absent"
    BY <1>2 DEF binaryType, BinaryLosesData, present
  <2>2. CASE e.dataContentType # ""
    <3>1. q \in dataOf(e.dataContentType, "") /\ DatalessType(e)
      BY <1>2, <2>1, <2>2 DEF httpData, binaryBody, DatalessType
    <3>2. q.err = Nil => q.value.kind \in {"json", "text", "binary"}
      BY <3>1, DataOfMatches
    <3> QED BY <2>1, <3>1, <3>2
  <2>3. CASE e.dataContentType = ""
    <3>1. q \in Returns({}, NoData) /\ ~DatalessType(e)
      BY <1>2, <2>1, <2>3 DEF httpData, binaryBody, DatalessType
    <3>2. q = [value |-> NoData, err |-> Nil]
      BY <3>1 DEF Returns
    <3>3. e.data = NoData
      BY <2>1 DEF WholeEvent, EventOfStrings, NoData
    <3>4. ~TextJSON(e)
      BY <2>1 DEF TextJSON
    <3> QED BY <2>1, <3>1, <3>2, <3>3, <3>4
  <2> QED BY <2>2, <2>3
<1> QED BY <1>1, <1>2

\* Data of kind json that a document gives is its trimmed data member.
LEMMA JSONDataTaken ==
  ASSUME NEW doc, NEW ct, NEW lim, NEW r \in decodeJSONData(doc, ct, lim), r.err = Nil,
         r.value.kind = "json"
  PROVE  "data" \in DOMAIN doc.members /\ r.value.bytes = TrimSpace(doc.members["data"])
<1> DEFINE limit  == lim.MaxDataBytes
           base64 == Unquote(doc.members["data_base64"])
           raw    == TrimSpace(doc.members["data"])
           text   == IF JSONType(raw) = "null" THEN "" ELSE Unquote(raw)
           textFailures ==
                When(exceedsJSONEncodedStringLimit(Size(raw), limit), ErrLimitExceeded)
             ?? When(text = Nil, ErrInvalidEvent)
             ?? When(Size(text) > limit, ErrLimitExceeded)
           base64Failures ==
                When(~hasMember(doc, "data_base64") \/ base64 = Nil, ErrInvalidEvent)
             ?? When(limit <= 0 \/ Base64Length(base64) > limit, ErrLimitExceeded)
             ?? When(Unbase64(base64) = Nil \/ Base64(Unbase64(base64)) # base64, ErrInvalidEvent)
<1>1. r \in (IF {"data", "data_base64"} \subseteq DOMAIN doc.members THEN Returns({ErrInvalidEvent}, Nil)
             ELSE IF "data_base64" \in DOMAIN doc.members
             THEN Returns(base64Failures, NewBinaryData(Unbase64(base64)))
             ELSE IF "data" \notin DOMAIN doc.members THEN Returns({}, NoData)
             ELSE IF isJSONMediaType(ct)
             THEN IF limit <= 0 \/ Size(raw) > limit THEN Returns({ErrLimitExceeded}, Nil)
                  ELSE NewJSONData(raw)
             ELSE IF textFailures # {} THEN Returns(textFailures, Nil)
             ELSE NewTextData(text))
  BY DEF decodeJSONData
<1>2. Nil \notin base64Failures /\ Nil \notin textFailures
  BY ErrorsAreNotNil DEF ??, When, Errors
<1> HIDE DEF limit, base64, raw, text, textFailures, base64Failures
<1>3. r \notin Returns({ErrInvalidEvent}, Nil) /\ r \notin Returns({ErrLimitExceeded}, Nil)
  BY ErrorsAreNotNil DEF Returns, Errors
<1>4. r \notin Returns(base64Failures, NewBinaryData(Unbase64(base64)))
  <2>1. NewBinaryData(Unbase64(base64)).kind = "binary" BY DEF NewBinaryData
  <2>2. "binary" # "json" OBVIOUS
  <2> QED BY <1>2, <2>1, <2>2, ReturnsEither
<1>5. r \notin Returns({}, NoData)
  <2>1. NoData.kind = "absent" /\ "absent" # "json" BY DEF NoData
  <2> QED BY <2>1, ReturnsEither
<1>6. textFailures # {} => r \notin Returns(textFailures, Nil)
  BY <1>2, ReturnsEither
<1>7. r \notin NewTextData(text)
  <2>1. [kind |-> "text", bytes |-> text].kind = "text" /\ "text" # "json" OBVIOUS
  <2> QED BY <2>1, NewData
<1>8. "data" \in DOMAIN doc.members /\ r \in NewJSONData(raw)
  BY <1>1, <1>3, <1>4, <1>5, <1>6, <1>7
<1>9. r.value.bytes = raw
  <2>1. r.value = [kind |-> "json", bytes |-> raw] BY <1>8, NewData
  <2> QED BY <2>1
<1> QED BY <1>8, <1>9 DEF raw

\* Data that is read as an event is not the data of that event, which is in it.
LEMMA InnerEventDiffers ==
  ASSUME NEW e, WholeEvent(e), MediaClass(e.dataContentType) = "ce+json",
         binaryConversionReport(e) = {}, NEW lim,
         NEW r \in DecodeJSON(Bytes(binaryBody(e)), lim), r.err = Nil
  PROVE  r.value # e
<1> DEFINE s == binaryBody(e)
           doc == asDocument(Bytes(s))
<1>1. Bytes(s).form = "bytes" /\ Bytes(s).bytes = s
  BY DEF Bytes
<1>2. doc.form = "doc" /\ \E q \in decodeJSONData(doc, memberText(doc, "datacontenttype"), lim) :
                            q.err = Nil /\ r.value = withData(jsonAttributes(doc), q.value)
  BY DecodeJSONStages
<1>3. Document(s) # Nil /\ doc = Document(s)
  <2>1. "bytes" # "doc" OBVIOUS
  <2> QED BY <1>1, <1>2, <2>1 DEF asDocument
<1>4. present(e.data) /\ s = e.data.bytes /\ s \in Strings
  BY <1>3, DocumentAssumption DEF binaryBody, WholeEvent, EventOfStrings
<1>5. e.data.kind = "json"
  <2>1. e.dataContentType # "" BY ImplicitTypeAssumption
  <2>2. ~BinaryLosesData(e) BY BinaryReportFields DEF When
  <2>3. dataKindMatchesContentType(e.data.kind, e.dataContentType)
    BY <1>4, <2>1, <2>2 DEF BinaryLosesData
  <2> QED BY <2>3 DEF dataKindMatchesContentType, isJSONMediaType, isTextMediaType
<1> HIDE DEF doc, s
<1>6. PICK q \in decodeJSONData(doc, memberText(doc, "datacontenttype"), lim) :
        q.err = Nil /\ r.value = withData(jsonAttributes(doc), q.value)
  BY <1>2
<1>7. \A n \in DOMAIN doc.members : TrimSpace(doc.members[n]) # s
  BY <1>3, <1>4, DocumentAssumption
<1>8. r.value.data = q.value
  BY <1>6, WithDataFields
<1>9. q.value # e.data
  BY <1>4, <1>5, <1>6, <1>7, JSONDataTaken
<1> QED BY <1>8, <1>9

LEMMA BinaryTypeClass ==
  ASSUME NEW e, WholeEvent(e), ClosedStrings
  PROVE  /\ binaryType(e) \in Strings /\ MediaClass(binaryType(e)) # "malformed"
         /\ MediaClass(binaryType(e)) \in {"ce+json", "ce-batch+json", "ce-other", "ce-other+json"} <=> Shadowed(e)
<1>1. e.dataContentType \in Strings /\ MediaClass(e.dataContentType) # "malformed"
  BY WholeEventRules DEF CoreValid, WholeEvent, EventOfStrings
<1>2. CASE e.dataContentType # ""
  BY <1>1, <1>2 DEF binaryType, Shadowed
<1>3. CASE e.dataContentType = ""
  <2>1. binaryType(e) \in {"", "application/json", "text/plain", "application/octet-stream"}
    BY <1>3, ImplicitTypes DEF binaryType
  <2>2. binaryType(e) \in Strings
    BY <2>1 DEF ClosedStrings
  <2>3. ~Shadowed(e)
    BY <1>3, ImplicitTypeAssumption DEF Shadowed
  <2> QED BY <2>1, <2>2, <2>3, ImplicitTypeAssumption
<1> QED BY <1>2, <1>3

\* Only a content type of its own shadows an event.
LEMMA ShadowedType ==
  ASSUME NEW e, Shadowed(e) PROVE binaryType(e) = e.dataContentType
  BY ImplicitTypeAssumption DEF Shadowed, binaryType

\* The headers and the body of a binary message, decoded as such.
LEMMA HTTPBinaryRead ==
  ASSUME NEW e, WholeEvent(e), ClosedStrings, NEW lim,
         NEW r \in decodeHTTPBinary(httpContext(contextAttributes(e)), binaryType(e),
                                    binaryBody(e), lim)
  PROVE  LET U == TextJSON(e) \/ DatalessType(e) \/ UnparsedTime(e) \/ NonUTF8Schema(e) IN
         /\ r.err = Nil => Arrives(e, U, binaryConversionReport(e), r.value)
         /\ r.err # Nil => TurnedAway(U, binaryConversionReport(e), r.err)
<1> DEFINE U == TextJSON(e) \/ DatalessType(e) \/ UnparsedTime(e) \/ NonUTF8Schema(e)
           c == contextAttributes(e)
           h == httpContext(c)
           ct == binaryType(e)
           body == binaryBody(e)
           x == decodedHeader(h)
           attrs == AttributesFrom(x, ct)
<1>1. /\ c = [n \in DOMAIN c |-> c[n]] /\ "datacontenttype" \notin DOMAIN c
      /\ "dataschema" \in DOMAIN c <=> e.dataSchema # ""
      /\ e.dataSchema # "" => c["dataschema"] = e.dataSchema
  BY ContextWritten
<1>2. \A n \in DOMAIN c : c[n] \in Strings /\ (n # "dataschema" => ValidUTF8(c[n]))
  BY ContextTexts
<1>3. /\ respelled(h) = {}
      /\ x = [n \in DOMAIN c |-> Unescape(Escape(c[n]))]
      /\ DOMAIN h = {Canonical(n) : n \in DOMAIN c}
      /\ \A n \in DOMAIN c : h[Canonical(n)] = <<Escape(c[n])>>
  BY <1>1, HTTPContextRead
<1>4. /\ ~UnparsedTime(e) => contextFailures(c) = {}
      /\ UnparsedTime(e) => contextFailures(c) # {}
      /\ ~UnparsedTime(e) => AttributesFrom(c, ct)
           = Attributes(e.id, e.source, e.type, ct, e.dataSchema, e.subject, e.time,
                        stringly(e.extensions, {"string"}))
      /\ [n \in DOMAIN c \ reservedAttributeNames |-> Attribute("string", c[n])]
           = stringly(e.extensions, {"string"})
  BY ContextReadBack
<1>p. /\ r.err = Nil =>
              /\ \A k \in DOMAIN h : binaryHeaderFailure(k, h[k], lim) = {}
              /\ contextFailures(x) = {}
              /\ \E q \in httpData(ct, body) : q.err = Nil /\ r.value = withData(attrs, q.value)
      /\ r.err # Nil =>
              \/ r.err = ErrLimitExceeded
              \/ respelled(h) # {}
              \/ \E k \in DOMAIN h : ~(binaryHeaderFailure(k, h[k], lim) \subseteq {ErrLimitExceeded})
              \/ contextFailures(x) # {}
              \/ \E q \in httpData(ct, body) : q.err # Nil
              \/ validateAttributes(attrs) # {}
  <2>1. r \in decodeHTTPBinary(h, ct, body, lim) OBVIOUS
  <2> HIDE DEF h, ct, body
  <2> QED BY <2>1, DecodeHTTPBinaryParts
<1>d. ASSUME NEW q \in httpData(ct, body)
      PROVE  /\ q.err # Nil => TextJSON(e) \/ DatalessType(e) \/ BinaryLosesData(e)
             /\ q.err = Nil /\ (TextJSON(e) \/ DatalessType(e)) => q.value # e.data
             /\ q.err = Nil /\ ~TextJSON(e) /\ ~DatalessType(e) => (q.value = e.data <=> ~BinaryLosesData(e))
  BY HTTPDataRead
<1>m. MediaClass(ct) # "malformed" BY BinaryTypeClass
<1>b. binaryConversionReport(e) = When(ct # e.dataContentType, Core("datacontenttype"))
             \cup When(BinaryLosesData(e), Core("data")) \cup lostExtensions(e, {"string"})
  BY BinaryReportFields
<1>h. ASSUME NEW n \in DOMAIN c
      PROVE  LET f == binaryHeaderFailure(Canonical(n), <<Escape(c[n])>>, lim) IN
             /\ ValidUTF8(c[n]) => f \subseteq {ErrLimitExceeded} /\ Unescape(Escape(c[n])) = c[n]
             /\ f = {} => Unescape(Escape(c[n])) # Nil /\ ValidUTF8(Unescape(Escape(c[n])))
  <2>1. n # "datacontenttype" /\ c[n] \in Strings BY <1>1, <1>2
  <2> QED BY <2>1, HTTPHeaderRead
<1>u. ValidUTF8("") BY CoreTexts
<1> HIDE DEF c, h, ct, body
<1>5. ASSUME ~NonUTF8Schema(e)
      PROVE  x = c /\ \A k \in DOMAIN h : binaryHeaderFailure(k, h[k], lim) \subseteq {ErrLimitExceeded}
  <2>1. \A n \in DOMAIN c : ValidUTF8(c[n])
    BY <1>1, <1>2, <1>5 DEF NonUTF8Schema
  <2>2. \A n \in DOMAIN c : Unescape(Escape(c[n])) = c[n]
    BY <1>h, <2>1
  <2>3. x = c
    BY <1>1, <1>3, <2>2
  <2>4. \A n \in DOMAIN c : binaryHeaderFailure(Canonical(n), h[Canonical(n)], lim) \subseteq {ErrLimitExceeded}
    BY <1>h, <1>3, <2>1
  <2> QED BY <1>3, <2>3, <2>4
<1>6. ASSUME r.err = Nil, NonUTF8Schema(e) PROVE r.value # e
  <2>1. e.dataSchema # "" /\ "dataschema" \in DOMAIN c /\ c["dataschema"] = e.dataSchema
    BY <1>1, <1>6, <1>u DEF NonUTF8Schema
  <2>2. binaryHeaderFailure(Canonical("dataschema"), <<Escape(c["dataschema"])>>, lim) = {}
    BY <1>3, <1>6, <1>p, <2>1
  <2>3. ValidUTF8(Unescape(Escape(c["dataschema"])))
    BY <1>h, <2>1, <2>2
  <2>4. "dataschema" \in DOMAIN x /\ ValidUTF8(x["dataschema"])
    BY <1>3, <2>1, <2>3
  <2> HIDE DEF x
  <2>5. attrs.dataSchema = x["dataschema"]
    BY <2>4 DEF AttributesFrom, Attributes
  <2>6. PICK q : r.value = withData(attrs, q.value)
    BY <1>6, <1>p DEF x
  <2> HIDE DEF attrs
  <2>7. r.value.dataSchema = attrs.dataSchema
    BY <2>6, WithDataFields
  <2> QED BY <1>6, <2>4, <2>5, <2>7 DEF NonUTF8Schema
<1>k. ASSUME r.err = Nil PROVE KeepsStrings(e, r.value)
  <2>1. \A n \in DOMAIN c \ reservedAttributeNames : Unescape(Escape(c[n])) = c[n]
    BY <1>2, <1>h DEF reservedAttributeNames
  <2>2. DOMAIN x = DOMAIN c /\ \A n \in DOMAIN c \ reservedAttributeNames : x[n] = c[n]
    BY <1>3, <2>1
  <2> HIDE DEF x
  <2>3. [n \in DOMAIN x \ reservedAttributeNames |-> Attribute("string", x[n])]
          = [n \in DOMAIN c \ reservedAttributeNames |-> Attribute("string", c[n])]
    BY <2>2
  <2>4. attrs.extensions = [n \in DOMAIN x \ reservedAttributeNames |-> Attribute("string", x[n])]
    BY DEF AttributesFrom, Attributes
  <2>5. PICK q : r.value = withData(attrs, q.value)
    BY <1>k, <1>p DEF x
  <2> HIDE DEF attrs
  <2>6. r.value.extensions = stringly(e.extensions, {"string"})
    BY <1>4, <2>3, <2>4, <2>5, WithDataFields
  <2>7. r.value.dataContentType = ct
    <3>1. attrs.dataContentType = ct BY DEF attrs, AttributesFrom, Attributes
    <3> QED BY <2>5, <3>1, WithDataFields
  <2>8. Shadowed(r.value) => Shadowed(e)
    <3>1. MediaClass(ct) \in {"ce+json", "ce-batch+json", "ce-other", "ce-other+json"} <=> Shadowed(e)
      BY BinaryTypeClass DEF ct
    <3>2. Shadowed(r.value) <=> MediaClass(r.value.dataContentType) \in {"ce+json", "ce-batch+json", "ce-other", "ce-other+json"}
      BY DEF Shadowed
    <3> HIDE DEF ct
    <3> QED BY <2>7, <3>1, <3>2
  <2> QED BY <2>6, <2>8, StringsKept
<1> HIDE DEF x
<1>7. ASSUME ~NonUTF8Schema(e), ~UnparsedTime(e)
      PROVE  /\ attrs = Attributes(e.id, e.source, e.type, ct, e.dataSchema, e.subject, e.time,
                        stringly(e.extensions, {"string"}))
             /\ validateAttributes(attrs) = {}
             /\ contextFailures(x) = {}
  BY <1>4, <1>5, <1>7, <1>m, ImageValid
<1> HIDE DEF attrs
<1>8. ASSUME r.err = Nil PROVE Arrives(e, U, binaryConversionReport(e), r.value)
  <2>1. PICK q \in httpData(ct, body) : q.err = Nil /\ r.value = withData(attrs, q.value)
    BY <1>8, <1>p
  <2>2. r.value.data = q.value
    BY <2>1, WithDataFields
  <2>3. CASE UnparsedTime(e) /\ ~NonUTF8Schema(e)
    BY <1>4, <1>5, <1>8, <1>p, <2>3
  <2>4. CASE NonUTF8Schema(e)
    BY <1>6, <1>8, <1>k, <2>4 DEF Arrives
  <2>5. CASE ~NonUTF8Schema(e) /\ ~UnparsedTime(e)
    <3>1. r.value = Image(e, ct, {"string"}, q.value)
      BY <1>7, <2>1, <2>5 DEF Image
    <3>2. CASE TextJSON(e) \/ DatalessType(e)
      BY <1>8, <1>d, <1>k, <2>1, <2>2, <3>2 DEF Arrives
    <3>3. CASE ~TextJSON(e) /\ ~DatalessType(e)
      <4>1. q.value = e.data <=> ~BinaryLosesData(e)
        BY <1>d, <2>1, <3>3
      <4>2. changed(e, r.value) = binaryConversionReport(e) /\ (r.value = e <=> binaryConversionReport(e) = {})
        <5>1. LET f == Image(e, ct, {"string"}, q.value) IN
                changed(e, f) = binaryConversionReport(e) /\ (f = e <=> binaryConversionReport(e) = {})
          BY <1>b, <4>1, ImageArrives
        <5> QED BY <3>1, <5>1
      <4> QED BY <1>8, <1>k, <2>5, <3>3, <4>2 DEF Arrives
    <3> QED BY <3>2, <3>3
  <2> QED BY <2>3, <2>4, <2>5
<1>9. ASSUME r.err # Nil PROVE TurnedAway(U, binaryConversionReport(e), r.err)
  <2> SUFFICES ASSUME r.err # ErrLimitExceeded, ~U PROVE Core("data") \in binaryConversionReport(e)
    BY DEF TurnedAway
  <2>1. \E q \in httpData(ct, body) : q.err # Nil
    BY <1>3, <1>5, <1>7, <1>9, <1>p
  <2>2. BinaryLosesData(e)
    BY <1>d, <2>1
  <2> QED BY <1>b, <2>2 DEF When
<1> QED BY <1>8, <1>9

\* How an HTTP message is taken: refused by its content type, read under a limit, and
\* decoded in the mode its content type selects.
LEMMA DecodeHTTPParts ==
  ASSUME NEW msg, NEW lim, NEW r \in DecodeHTTP(msg, lim)
  PROVE  LET ct == contentTypeOf(msg) IN
         \/ /\ r.err # Nil
            /\ \/ r.err = ErrLimitExceeded
               \/ Len(msg.contentType) > 1 \/ MediaClass(ct) \in {"malformed", "ce-other", "ce-other+json"}
         \/ /\ ~(Len(msg.contentType) > 1) /\ MediaClass(ct) \notin {"malformed", "ce-other", "ce-other+json"}
            /\ ~(ct # "" /\ Size(ct) > lim.MaxAttributeValueBytes)
            /\ readHTTPBody(BodySize(msg.body), bodyLimit(httpMode(ct), lim)) = {}
            /\ r \in decodeHTTPMessage(httpMode(ct), msg, lim)
<1> DEFINE ct == contentTypeOf(msg)
           class == MediaClass(ct)
           a == When(Len(msg.contentType) > 1, ErrInvalidEvent)
           b == When(ct # "" /\ Size(ct) > lim.MaxAttributeValueBytes, ErrLimitExceeded)
           c == When(class = "malformed", ErrInvalidEvent)
           d == When(class \in {"ce-other", "ce-other+json"}, ErrUnsupportedMode)
           failures == a ?? b ?? c ?? d
<1>1. detectHTTPMode(msg, lim) = Returns(failures, httpMode(ct))
  BY DEF detectHTTPMode, httpMode
<1>n. Nil \notin {ErrLimitExceeded, ErrInvalidEvent, ErrUnsupportedMode}
  BY ErrorsAreNotNil DEF Errors
<1>2. PICK m \in detectHTTPMode(msg, lim) :
        r \in (IF m.err # Nil THEN {m}
               ELSE LET oversize == readHTTPBody(BodySize(msg.body), bodyLimit(m.value, lim))
                    IN  IF oversize # {} THEN Returns(oversize, Nil)
                        ELSE decodeHTTPMessage(m.value, msg, lim))
  BY DEF DecodeHTTP
<1>3. /\ failures = {} <=> /\ ~(Len(msg.contentType) > 1) /\ class \notin {"malformed", "ce-other", "ce-other+json"}
                           /\ ~(ct # "" /\ Size(ct) > lim.MaxAttributeValueBytes)
      /\ Nil \notin failures
      /\ \A x \in failures : \/ x = ErrLimitExceeded
                             \/ Len(msg.contentType) > 1 \/ class \in {"malformed", "ce-other", "ce-other+json"}
  BY <1>n DEF When, ??
<1> HIDE DEF failures, ct, class
<1>4. /\ m.err = Nil => failures = {} /\ m.value = httpMode(ct)
      /\ m.err # Nil => m.err \in failures
  <2>1. m \in Returns(failures, httpMode(ct)) BY <1>1
  <2> QED BY <1>3, <2>1, ReturnsEither
<1>5. CASE m.err # Nil
  BY <1>2, <1>3, <1>4, <1>5 DEF ct, class
<1>6. CASE m.err = Nil
  <2> DEFINE oversize == readHTTPBody(BodySize(msg.body), bodyLimit(httpMode(ct), lim))
  <2>1. r \in (IF oversize # {} THEN Returns(oversize, Nil) ELSE decodeHTTPMessage(httpMode(ct), msg, lim))
    BY <1>2, <1>4, <1>6
  <2>2. oversize \subseteq {ErrLimitExceeded}
    BY DEF readHTTPBody, When, ??
  <2>3. oversize # {} => r.err = ErrLimitExceeded
    <3> HIDE DEF oversize
    <3>1. Nil \notin oversize BY <1>n, <2>2
    <3> QED BY <2>1, <2>2, <3>1, ReturnsEither
  <2>4. oversize = {} => r \in decodeHTTPMessage(httpMode(ct), msg, lim)
    <3> HIDE DEF oversize
    <3> QED BY <2>1
  <2> QED BY <1>3, <1>4, <1>6, <1>n, <2>3, <2>4 DEF ct, class
<1> QED BY <1>5, <1>6

\* The crossing of a binary HTTP message.
LEMMA HTTPBinaryCrossing ==
  ASSUME NEW e, WholeEvent(e), ClosedStrings, NEW lim, NEW r \in DecodeHTTP(encodeHTTPBinary(e), lim)
  PROVE  LET U == Unreported(e, "http", "binary") IN
         /\ r.err = Nil => \E f : r.value = <<f>> /\ Arrives(e, U, binaryConversionReport(e), f)
         /\ r.err # Nil => TurnedAway(U, binaryConversionReport(e), r.err)
<1> DEFINE U == Unreported(e, "http", "binary")
           msg == encodeHTTPBinary(e)
           ct == binaryType(e)
<1>1. /\ ct # "" => msg.contentType = <<ct>>
      /\ ct = "" => msg.contentType = <<>>
      /\ msg.header = httpContext(contextAttributes(e)) /\ msg.body = Bytes(binaryBody(e))
  <2> DEFINE t == IF e.dataContentType # "" THEN <<e.dataContentType>>
                  ELSE IF present(e.data) THEN <<implicitDataContentType(e.data.kind)>>
                  ELSE <<>>
  <2>1. msg = [contentType |-> t, header |-> httpContext(contextAttributes(e)),
               body |-> Bytes(binaryBody(e))]
    BY DEF encodeHTTPBinary, httpContext, binaryBody
  <2>2. ct # "" => t = <<ct>>
    BY ImplicitTypes DEF binaryType
  <2>3. ct = "" => t = <<>>
    BY ImplicitTypes DEF binaryType
  <2> HIDE DEF t
  <2>4. msg.contentType = t /\ msg.header = httpContext(contextAttributes(e))
        /\ msg.body = Bytes(binaryBody(e))
    BY <2>1
  <2> QED BY <2>2, <2>3, <2>4
<1>b. msg.body = Bytes(binaryBody(e)) /\ msg.body.bytes = binaryBody(e)
  <2>1. Bytes(binaryBody(e)).bytes = binaryBody(e)
    BY DEF Bytes
  <2> QED BY <1>1, <2>1
<1> HIDE DEF msg
<1>2. contentTypeOf(msg) = ct /\ ~(Len(msg.contentType) > 1)
  <2>1. CASE ct = ""
    <3>1. msg.contentType = <<>> BY <1>1, <2>1
    <3>2. Len(<<>>) = 0 OBVIOUS
    <3>3. contentTypeOf(msg) = "" BY <3>1, Zenon DEF contentTypeOf
    <3>4. ~(Len(msg.contentType) > 1) BY <3>1, <3>2
    <3> QED BY <2>1, <3>3, <3>4
  <2>2. CASE ct # ""
    <3>1. msg.contentType = <<ct>> BY <1>1, <2>2
    <3>2. <<ct>> # <<>> /\ <<ct>>[1] = ct /\ Len(<<ct>>) = 1 OBVIOUS
    <3> QED BY <3>1, <3>2 DEF contentTypeOf
  <2> QED BY <2>1, <2>2
<1>3. /\ MediaClass(ct) # "malformed"
      /\ MediaClass(ct) \in {"ce+json", "ce-batch+json", "ce-other", "ce-other+json"} <=> Shadowed(e)
  BY BinaryTypeClass
<1>4. Shadowed(e) => U
  BY DEF Unreported
<1>5. ~Shadowed(e) => (U <=> TextJSON(e) \/ DatalessType(e) \/ UnparsedTime(e) \/ NonUTF8Schema(e))
  BY DEF Unreported
<1> HIDE DEF U, ct
<1>6. CASE r.err # Nil /\ (r.err = ErrLimitExceeded \/ MediaClass(ct) \in {"malformed", "ce-other", "ce-other+json"})
  BY <1>3, <1>4, <1>6 DEF TurnedAway, U
<1>7. CASE r \in decodeHTTPMessage(httpMode(ct), msg, lim) /\ Shadowed(e) /\ MediaClass(ct) \notin {"ce-other", "ce-other+json"}
  <2>1. CASE MediaClass(ct) = "ce+json"
    <3>1. r \in UNION {IF p.err # Nil THEN {p}
                       ELSE Returns(validateStructuredHTTPMetadata(msg.header, p.value, lim), <<p.value>>)
                       : p \in DecodeJSON(msg.body, lim)}
      BY <1>7, <2>1 DEF httpMode, decodeHTTPMessage
    <3>2. PICK p \in DecodeJSON(msg.body, lim) :
            r \in (IF p.err # Nil THEN {p}
                   ELSE Returns(validateStructuredHTTPMetadata(msg.header, p.value, lim), <<p.value>>))
      BY <3>1
    <3>3. CASE r.err # Nil BY <1>4, <1>7, <3>3 DEF TurnedAway, U
    <3>4. CASE r.err = Nil
      <4>1. p.err = Nil BY <3>2, <3>4
      <4>2. r.value = <<p.value>>
        BY <3>2, <3>4, <4>1, MetadataFailures, ReturnsEither
      <4>3. MediaClass(e.dataContentType) = "ce+json"
        BY <1>7, <2>1, ShadowedType DEF ct
      <4>4. p.value # e \/ binaryConversionReport(e) # {}
        BY <1>b, <4>1, <4>3, InnerEventDiffers
      <4> QED BY <1>4, <1>7, <3>4, <4>2, <4>4 DEF Arrives, U
    <3> QED BY <3>3, <3>4
  <2>2. CASE MediaClass(ct) = "ce-batch+json"
    <3>1. "id" \in DOMAIN contextAttributes(e) BY ContextWritten
    <3>2. DOMAIN msg.header # {} BY <1>1, <3>1 DEF httpContext
    <3>3. r \in Returns({ErrInvalidEvent}, Nil)
      BY <1>7, <2>2, <3>2 DEF httpMode, decodeHTTPMessage
    <3>4. r.err # Nil BY <3>3, ErrorsAreNotNil DEF Returns, Errors
    <3> QED BY <1>4, <1>7, <3>4 DEF TurnedAway, U
  <2> QED BY <1>3, <1>7, <2>1, <2>2
<1>8. CASE r \in decodeHTTPMessage(httpMode(ct), msg, lim) /\ ~Shadowed(e)
  <2>1. httpMode(ct) = "binary"
    BY <1>3, <1>8 DEF httpMode
  <2>2. r \in single(decodeHTTPBinary(msg.header, contentTypeOf(msg), msg.body.bytes, lim))
    BY <1>8, <2>1 DEF decodeHTTPMessage
  <2>3. msg.body.bytes = binaryBody(e) BY <1>b
  <2>4. PICK p \in decodeHTTPBinary(httpContext(contextAttributes(e)), ct, binaryBody(e), lim) :
          r = [p EXCEPT !.value = IF p.err # Nil THEN Nil ELSE <<p.value>>]
    BY <1>1, <1>2, <2>2, <2>3 DEF single
  <2>5. p = [value |-> p.value, err |-> p.err]
    BY DecodeHTTPBinaryResult DEF EventResult
  <2>6. r.err = p.err /\ (p.err = Nil => r.value = <<p.value>>)
    BY <2>4, <2>5
  <2>7. /\ p.err = Nil => Arrives(e, TextJSON(e) \/ DatalessType(e) \/ UnparsedTime(e) \/ NonUTF8Schema(e),
                                  binaryConversionReport(e), p.value)
        /\ p.err # Nil => TurnedAway(TextJSON(e) \/ DatalessType(e) \/ UnparsedTime(e) \/ NonUTF8Schema(e),
                                     binaryConversionReport(e), p.err)
    BY HTTPBinaryRead DEF ct
  <2>8. /\ p.err = Nil => Arrives(e, U, binaryConversionReport(e), p.value)
        /\ p.err # Nil => TurnedAway(U, binaryConversionReport(e), p.err)
    BY <1>5, <1>8, <2>7 DEF Arrives, TurnedAway
  <2> QED BY <2>6, <2>8 DEF U
<1>9. \/ r.err # Nil /\ (r.err = ErrLimitExceeded \/ MediaClass(ct) \in {"malformed", "ce-other", "ce-other+json"})
      \/ r \in decodeHTTPMessage(httpMode(ct), msg, lim) /\ MediaClass(ct) \notin {"malformed", "ce-other", "ce-other+json"}
  <2>1. r \in DecodeHTTP(msg, lim) BY DEF msg
  <2> QED BY <1>2, <2>1, DecodeHTTPParts
<1> QED BY <1>6, <1>7, <1>8, <1>9

\* The crossing of the JSON form, as the report tells it.
LEMMA JSONArrives ==
  ASSUME NEW e, WholeEvent(e), ClosedStrings, NEW lim, NEW r \in DecodeJSON(encodeJSON(e), lim)
  PROVE  /\ r.err = Nil => Arrives(e, JSONUnreported(e), jsonConversionReport(e), r.value)
         /\ r.err # Nil => TurnedAway(JSONUnreported(e), jsonConversionReport(e), r.err)
<1>b. jsonConversionReport(e)
           = When(wireType(e) # e.dataContentType, Core("datacontenttype"))
             \cup When(JSONLosesData(e), Core("data")) \cup lostExtensions(e, JSONKinds)
  BY JSONReportFields
<1>1. /\ r.err # Nil => r.err = ErrLimitExceeded \/ JSONUnreported(e) \/ JSONLosesData(e)
      /\ r.err = Nil /\ ~JSONUnreported(e) =>
              \E data : /\ r.value = Image(e, wireType(e), JSONKinds, data)
                        /\ data = e.data <=> ~JSONLosesData(e)
      /\ r.err = Nil /\ JSONUnreported(e) => r.value # e
      /\ r.err = Nil => r.value.extensions = stringly(e.extensions, JSONKinds)
  BY JSONCrossing
<1>2. ASSUME r.err # Nil PROVE TurnedAway(JSONUnreported(e), jsonConversionReport(e), r.err)
  BY <1>1, <1>2, <1>b DEF TurnedAway, When
<1>3. ASSUME r.err = Nil, ~JSONUnreported(e)
      PROVE  changed(e, r.value) = jsonConversionReport(e) /\ (r.value = e <=> jsonConversionReport(e) = {})
  <2>1. PICK data : /\ r.value = Image(e, wireType(e), JSONKinds, data)
                    /\ data = e.data <=> ~JSONLosesData(e)
    BY <1>1, <1>3
  <2>2. "string" \in JSONKinds BY DEF JSONKinds
  <2>3. LET f == Image(e, wireType(e), JSONKinds, data) IN
          changed(e, f) = jsonConversionReport(e) /\ (f = e <=> jsonConversionReport(e) = {})
    BY <1>b, <2>1, <2>2, ImageArrives
  <2> QED BY <2>1, <2>3
<1>4. r.err = Nil => KeepsStrings(e, r.value)
  BY <1>1, JSONTypeKept, StringsKept DEF JSONKinds
<1> QED BY <1>1, <1>2, <1>3, <1>4 DEF Arrives

\* An HTTP message without context headers.
posted(ct, body) == [contentType |-> <<ct>>, header |-> <<>>, body |-> body]

LEMMA PostedParts ==
  ASSUME NEW ct, NEW body
  PROVE  /\ posted(ct, body).body = body /\ DOMAIN posted(ct, body).header = {}
         /\ contentTypeOf(posted(ct, body)) = ct /\ ~(Len(posted(ct, body).contentType) > 1)
<1>1. <<ct>> # <<>> /\ <<ct>>[1] = ct /\ Len(<<ct>>) = 1
  OBVIOUS
<1>2. posted(ct, body).body = body /\ posted(ct, body).header = <<>> /\ posted(ct, body).contentType = <<ct>>
  BY DEF posted
<1>3. DOMAIN <<>> = {}
  OBVIOUS
<1>4. contentTypeOf(posted(ct, body)) = ct
  BY <1>1, <1>2 DEF contentTypeOf
<1> QED BY <1>1, <1>2, <1>3, <1>4

\* Without headers there is nothing to disagree with.
LEMMA NothingBeside ==
  ASSUME NEW header, DOMAIN header = {}, NEW e, NEW lim
  PROVE  validateStructuredHTTPMetadata(header, e, lim) = {}
  BY DEF validateStructuredHTTPMetadata, respelled, When

LEMMA HTTPStructuredCrossing ==
  ASSUME NEW e, WholeEvent(e), ClosedStrings, NEW lim,
         NEW r \in DecodeHTTP(posted(JSONMediaType, encodeJSON(e)), lim)
  PROVE  LET U == Unreported(e, "http", "structured") IN
         /\ r.err = Nil => \E f : r.value = <<f>> /\ Arrives(e, U, jsonConversionReport(e), f)
         /\ r.err # Nil => TurnedAway(U, jsonConversionReport(e), r.err)
<1> DEFINE U == Unreported(e, "http", "structured")
           msg == posted(JSONMediaType, encodeJSON(e))
<1>1. U <=> JSONUnreported(e)
  BY DEF Unreported, JSONUnreported
<1>2. /\ msg.body = encodeJSON(e) /\ DOMAIN msg.header = {}
      /\ contentTypeOf(msg) = JSONMediaType /\ ~(Len(msg.contentType) > 1)
  BY PostedParts
<1>3. httpMode(JSONMediaType) = "structured" /\ MediaClass(JSONMediaType) \notin {"malformed", "ce-other", "ce-other+json"}
  BY ModeTypeAssumption DEF httpMode
<1>4. r \in DecodeHTTP(msg, lim) OBVIOUS
<1> HIDE DEF msg
<1>5. \/ r.err = ErrLimitExceeded
      \/ r \in decodeHTTPMessage("structured", msg, lim)
  BY <1>2, <1>3, <1>4, DecodeHTTPParts
<1>6. ASSUME r \in decodeHTTPMessage("structured", msg, lim)
      PROVE  /\ r.err = Nil => \E f : r.value = <<f>> /\ Arrives(e, JSONUnreported(e), jsonConversionReport(e), f)
             /\ r.err # Nil => TurnedAway(JSONUnreported(e), jsonConversionReport(e), r.err)
  <2>1. r \in UNION {IF p.err # Nil THEN {p}
                     ELSE Returns(validateStructuredHTTPMetadata(msg.header, p.value, lim), <<p.value>>)
                     : p \in DecodeJSON(msg.body, lim)}
    BY <1>6 DEF decodeHTTPMessage
  <2>2. PICK p \in DecodeJSON(encodeJSON(e), lim) :
          r \in (IF p.err # Nil THEN {p}
                 ELSE Returns(validateStructuredHTTPMetadata(msg.header, p.value, lim), <<p.value>>))
    BY <1>2, <2>1
  <2>3. validateStructuredHTTPMetadata(msg.header, p.value, lim) = {}
    BY <1>2, NothingBeside
  <2>4. /\ p.err = Nil => Arrives(e, JSONUnreported(e), jsonConversionReport(e), p.value)
        /\ p.err # Nil => TurnedAway(JSONUnreported(e), jsonConversionReport(e), p.err)
    BY JSONArrives
  <2>5. CASE p.err # Nil
    BY <2>2, <2>4, <2>5
  <2>6. CASE p.err = Nil
    <3>1. r = [value |-> <<p.value>>, err |-> Nil]
      BY <2>2, <2>3, <2>6 DEF Returns
    <3>2. r.value = <<p.value>> /\ r.err = Nil
      BY <3>1
    <3> QED BY <2>4, <2>6, <3>2
  <2> QED BY <2>5, <2>6
<1>7. CASE r.err = ErrLimitExceeded
  <2>1. r.err # Nil BY <1>7, ErrorsAreNotNil DEF Errors
  <2> QED BY <1>7, <2>1 DEF TurnedAway
<1>8. CASE r \in decodeHTTPMessage("structured", msg, lim)
  BY <1>1, <1>6, <1>8 DEF Arrives, TurnedAway
<1> QED BY <1>5, <1>7, <1>8

\* A batch is decoded document by document; the first that fails decides.
LEMMA DecodeJSONBatchParts ==
  ASSUME NEW body, NEW lim, body.form = "batch", IsSequence(body.docs),
         NEW r \in DecodeJSONBatch(body, lim)
  PROVE  /\ r.err = Nil =>
              /\ ~(lim.MaxBatchEvents <= 0 \/ Len(body.docs) > lim.MaxBatchEvents)
              /\ r.value = [i \in DOMAIN body.docs |-> r.value[i]]
              /\ \A i \in DOMAIN body.docs :
                   \E p \in DecodeJSON(body.docs[i], lim) : p.err = Nil /\ r.value[i] = p.value
         /\ r.err # Nil =>
              \/ r.err = ErrLimitExceeded
              \/ \E i \in DOMAIN body.docs :
                   \E p \in DecodeJSON(body.docs[i], lim) : p.err = r.err
<1> DEFINE decoded(i) == DecodeJSON(body.docs[i], lim)
           failing == {i \in DOMAIN body.docs : \E q \in decoded(i) : q.err # Nil}
           size  == When(lim.MaxEventBytes <= 0 \/ BodySize(body) > lim.MaxEventBytes, ErrLimitExceeded)
           depth == When(lim.MaxDepth <= 0 \/ lim.MaxDepth = MaxInt, ErrLimitExceeded)
           inspect == inspectJSON(body, lim.MaxDepth + 1)
           form  == When(body.form # "batch", ErrInvalidEvent)
           count == When(lim.MaxBatchEvents <= 0 \/ Len(body.docs) > lim.MaxBatchEvents,
                         ErrLimitExceeded)
           first == IF failing = {} THEN {} ELSE {q.err : q \in decoded(Min(failing))}
           failures == size ?? depth ?? inspect ?? form ?? count ?? first
           value == [i \in DOMAIN body.docs |-> (CHOOSE q \in decoded(i) : TRUE).value]
<1>1. r \in Returns(failures, value)
  BY DEF DecodeJSONBatch
<1>n. Nil # ErrLimitExceeded
  BY ErrorsAreNotNil DEF Errors
<1>2. /\ size \subseteq {ErrLimitExceeded} /\ depth \subseteq {ErrLimitExceeded} /\ form = {}
      /\ count \subseteq {ErrLimitExceeded}
      /\ count = {} <=> ~(lim.MaxBatchEvents <= 0 \/ Len(body.docs) > lim.MaxBatchEvents)
  BY DEF When
<1>3. inspect \subseteq {ErrLimitExceeded}
  BY DEF inspectJSON, When, ??
<1>4. \A i : decoded(i) # {} /\ \A p, q \in decoded(i) : p.err = Nil => q.err = Nil
  BY DecodeJSONResult
<1>5. DOMAIN body.docs \subseteq Nat
  BY DEF IsSequence
<1> HIDE DEF size, depth, inspect, form, count, decoded
<1>6. failing # {} => first # {} /\ Nil \notin first
                      /\ \A x \in first : \E i \in DOMAIN body.docs : \E p \in decoded(i) : p.err = x
  <2> SUFFICES ASSUME failing # {}
               PROVE  first # {} /\ Nil \notin first
                      /\ \A x \in first : \E i \in DOMAIN body.docs : \E p \in decoded(i) : p.err = x
    OBVIOUS
  <2> DEFINE least == Min(failing)
  <2>1. least \in failing
    BY <1>5, MinOfNaturals
  <2>2. PICK q \in decoded(least) : q.err # Nil
    BY <2>1
  <2>3. \A p \in decoded(least) : p.err # Nil
    BY <1>4, <2>2
  <2>4. first = {p.err : p \in decoded(least)} /\ least \in DOMAIN body.docs
    BY <2>1
  <2> HIDE DEF least, first
  <2> QED BY <2>2, <2>3, <2>4
<1>7. failing = {} => first = {}
  OBVIOUS
<1>8. failing = {} => \A i \in DOMAIN body.docs : \E p \in decoded(i) :
                        p.err = Nil /\ (CHOOSE q \in decoded(i) : TRUE).value = p.value
  <2> SUFFICES ASSUME failing = {}, NEW i \in DOMAIN body.docs
               PROVE  \E p \in decoded(i) : p.err = Nil /\ (CHOOSE q \in decoded(i) : TRUE).value = p.value
    OBVIOUS
  <2> DEFINE p == CHOOSE q \in decoded(i) : TRUE
  <2>1. p \in decoded(i) BY <1>4
  <2>2. p.err = Nil BY <2>1
  <2> QED BY <2>1, <2>2
<1> HIDE DEF failing, first
<1>9. /\ Nil \notin failures
      /\ failures = {} => first = {} /\ count = {}
      /\ \A x \in failures : x = ErrLimitExceeded \/ x \in first
  BY <1>2, <1>3, <1>6, <1>7, <1>n DEF ??
<1> HIDE DEF failures, value
<1>10. ASSUME r.err = Nil
       PROVE  /\ ~(lim.MaxBatchEvents <= 0 \/ Len(body.docs) > lim.MaxBatchEvents)
              /\ r.value = [i \in DOMAIN body.docs |-> r.value[i]]
              /\ \A i \in DOMAIN body.docs :
                   \E p \in DecodeJSON(body.docs[i], lim) : p.err = Nil /\ r.value[i] = p.value
  <2>1. failures = {} /\ r.value = value
    BY <1>1, <1>9, <1>10, ReturnsEither
  <2>2. failing = {} /\ count = {}
    BY <1>6, <1>9, <2>1
  <2>3. value = [i \in DOMAIN body.docs |-> value[i]]
        /\ \A i \in DOMAIN body.docs : value[i] = (CHOOSE q \in decoded(i) : TRUE).value
    BY DEF value
  <2>4. \A i \in DOMAIN body.docs : \E p \in decoded(i) : p.err = Nil /\ value[i] = p.value
    BY <1>8, <2>2, <2>3
  <2> QED BY <1>2, <2>1, <2>2, <2>3, <2>4 DEF decoded
<1>11. ASSUME r.err # Nil
       PROVE  \/ r.err = ErrLimitExceeded
              \/ \E i \in DOMAIN body.docs : \E p \in DecodeJSON(body.docs[i], lim) : p.err = r.err
  <2>1. r.err \in failures
    BY <1>1, <1>9, <1>11, ReturnsEither
  <2>2. r.err = ErrLimitExceeded \/ (failing # {} /\ r.err \in first)
    BY <1>7, <1>9, <2>1
  <2> QED BY <1>6, <2>2 DEF decoded
<1> QED BY <1>10, <1>11

-----------------------------------------------------------------------------
(* Kafka records.                                                           *)

LEMMA SoleValue ==
  ASSUME NEW i, NEW v PROVE soleValue({<<i, v>>}) = v /\ ~repeated({<<i, v>>})
<1>1. (CHOOSE x \in {<<i, v>>} : TRUE) = <<i, v>>
  OBVIOUS
<1>2. <<i, v>>[2] = v
  OBVIOUS
<1> QED BY <1>1, <1>2 DEF soleValue, repeated

\* The headers of a binary record of context c, with at most one content type.
contextHeaders(c, types) ==
  {Header("ce", n, c[n]) : n \in DOMAIN c} \cup {Header("content-type", "", t) : t \in types}

ReadBack(hs, c, types) ==
  /\ DOMAIN cloudEventHeaders(hs) = DOMAIN c
  /\ \A n \in DOMAIN c : \E i : cloudEventHeaders(hs)[n] = {<<i, c[n]>>}
  /\ types = {} => collected(hs, ownedBy(hs, "content-type")) = {}
  /\ \A t \in types : \E i : collected(hs, ownedBy(hs, "content-type")) = {<<i, t>>}
  /\ DOMAIN hs \subseteq Nat
  /\ \A i \in DOMAIN hs : hs[i].name \in DOMAIN c \cup {""}

\* In whatever order they come, each is found under its name.
LEMMA KafkaContextRead ==
  ASSUME NEW hs, NEW c, NEW types, \A s, t \in types : s = t, Enumerates(hs, contextHeaders(c, types))
  PROVE  ReadBack(hs, c, types)
<1> DEFINE S == contextHeaders(c, types)
<1>1. /\ hs \in Seq(S)
      /\ \A x \in S : \E i \in DOMAIN hs : hs[i] = x
      /\ \A i, j \in DOMAIN hs : hs[i] = hs[j] => i = j
  BY DEF Enumerates
<1>2. \A owner, name, value : /\ Header(owner, name, value).owner = owner
                              /\ Header(owner, name, value).name = name
                              /\ Header(owner, name, value).value = value
  BY DEF Header
<1>3. \A x \in S : \/ \E n \in DOMAIN c : x = Header("ce", n, c[n])
                   \/ \E t \in types : x = Header("content-type", "", t)
  BY DEF contextHeaders
<1>4. /\ \A n \in DOMAIN c : Header("ce", n, c[n]) \in S
      /\ \A t \in types : Header("content-type", "", t) \in S
  BY DEF contextHeaders
<1> HIDE DEF S
<1>5. DOMAIN hs \subseteq Nat /\ \A i \in DOMAIN hs : hs[i] \in S
  BY <1>1
<1>6. \A i \in DOMAIN hs :
        \/ /\ hs[i].owner = "ce" /\ hs[i].name \in DOMAIN c
           /\ hs[i] = Header("ce", hs[i].name, c[hs[i].name])
        \/ /\ hs[i].owner = "content-type" /\ hs[i].name = "" /\ hs[i].value \in types
           /\ hs[i] = Header("content-type", "", hs[i].value)
  <2> SUFFICES ASSUME NEW i \in DOMAIN hs
               PROVE  \/ /\ hs[i].owner = "ce" /\ hs[i].name \in DOMAIN c
                         /\ hs[i] = Header("ce", hs[i].name, c[hs[i].name])
                      \/ /\ hs[i].owner = "content-type" /\ hs[i].name = "" /\ hs[i].value \in types
                         /\ hs[i] = Header("content-type", "", hs[i].value)
    OBVIOUS
  <2>1. CASE \E n \in DOMAIN c : hs[i] = Header("ce", n, c[n])
    <3>1. PICK n \in DOMAIN c : hs[i] = Header("ce", n, c[n]) BY <2>1
    <3>2. hs[i].owner = "ce" /\ hs[i].name = n BY <1>2, <3>1
    <3> QED BY <3>1, <3>2
  <2>2. CASE \E t \in types : hs[i] = Header("content-type", "", t)
    <3>1. PICK t \in types : hs[i] = Header("content-type", "", t) BY <2>2
    <3>2. hs[i].owner = "content-type" /\ hs[i].name = "" /\ hs[i].value = t
      <4> DEFINE h == Header("content-type", "", t)
      <4>1. h.owner = "content-type" /\ h.name = "" /\ h.value = t BY DEF Header
      <4>2. hs[i] = h BY <3>1
      <4> HIDE DEF h
      <4> QED BY <4>1, <4>2
    <3> QED BY <3>1, <3>2
  <2> QED BY <1>3, <1>5, <2>1, <2>2
<1>7. \A i \in ownedBy(hs, "ce") :
        i \in DOMAIN hs /\ hs[i].name \in DOMAIN c /\ hs[i] = Header("ce", hs[i].name, c[hs[i].name])
  BY <1>6 DEF ownedBy
<1>8. \A i \in ownedBy(hs, "content-type") :
        i \in DOMAIN hs /\ hs[i].value \in types /\ hs[i] = Header("content-type", "", hs[i].value)
  BY <1>6 DEF ownedBy
<1>9. {hs[i].name : i \in ownedBy(hs, "ce")} = DOMAIN c
  <2>1. ASSUME NEW n \in DOMAIN c PROVE \E i \in ownedBy(hs, "ce") : hs[i].name = n
    <3>1. PICK i \in DOMAIN hs : hs[i] = Header("ce", n, c[n])
      BY <1>1, <1>4
    <3>2. hs[i].owner = "ce" /\ hs[i].name = n BY <1>2, <3>1
    <3> QED BY <3>2 DEF ownedBy
  <2> QED BY <1>7, <2>1
<1>10. DOMAIN cloudEventHeaders(hs) = DOMAIN c
  BY <1>9 DEF cloudEventHeaders
<1>11. ASSUME NEW n \in DOMAIN c PROVE \E i : cloudEventHeaders(hs)[n] = {<<i, c[n]>>}
  <2>1. PICK i \in DOMAIN hs : hs[i] = Header("ce", n, c[n])
    BY <1>1, <1>4
  <2>2. i \in ownedBy(hs, "ce") /\ hs[i].name = n /\ hs[i].value = c[n]
    BY <1>2, <2>1 DEF ownedBy
  <2>3. {j \in ownedBy(hs, "ce") : hs[j].name = n} = {i}
    BY <1>1, <1>7, <2>1, <2>2
  <2>4. cloudEventHeaders(hs)[n] = collected(hs, {j \in ownedBy(hs, "ce") : hs[j].name = n})
    BY <1>9 DEF cloudEventHeaders
  <2>5. cloudEventHeaders(hs)[n] = {<<i, c[n]>>}
    BY <2>2, <2>3, <2>4 DEF collected
  <2> QED BY <2>5
<1>12. ASSUME types = {} PROVE collected(hs, ownedBy(hs, "content-type")) = {}
  BY <1>8, <1>12 DEF collected
<1>13. ASSUME NEW t \in types PROVE \E i : collected(hs, ownedBy(hs, "content-type")) = {<<i, t>>}
  <2>1. PICK i \in DOMAIN hs : hs[i] = Header("content-type", "", t)
    BY <1>1, <1>4
  <2>2. i \in ownedBy(hs, "content-type") /\ hs[i].value = t
    <3> DEFINE h == Header("content-type", "", t)
    <3>1. h.owner = "content-type" /\ h.value = t BY DEF Header
    <3>2. hs[i] = h BY <2>1
    <3> HIDE DEF h
    <3> QED BY <3>1, <3>2 DEF ownedBy
  <2>3. \A j \in ownedBy(hs, "content-type") : hs[j] = hs[i] /\ j \in DOMAIN hs
    BY <1>8, <2>1
  <2>4. ownedBy(hs, "content-type") = {i}
    BY <1>1, <2>2, <2>3
  <2>5. collected(hs, ownedBy(hs, "content-type")) = {<<i, t>>}
    BY <2>2, <2>4 DEF collected
  <2> QED BY <2>5
<1>14. ASSUME NEW i \in DOMAIN hs PROVE hs[i].name \in DOMAIN c \cup {""}
  BY <1>6
<1> QED BY <1>5, <1>10, <1>11, <1>12, <1>13, <1>14 DEF ReadBack

\* What a content type says of a record.
LEMMA KafkaModeRead ==
  ASSUME NEW types, NEW r \in detectKafkaMode(types), NEW ct,
         \/ types = {} /\ ct = ""
         \/ ct # "" /\ \E i : types = {<<i, ct>>}
  PROVE  /\ (IF types = {} THEN "" ELSE soleValue(types)) = ct
         /\ r = [value |-> r.value, err |-> r.err]
         /\ ct = "" => r.err = Nil /\ r.value = "binary"
         /\ ct # "" => /\ r.err = Nil => /\ r.value = kafkaMode(ct)
                                         /\ ValidUTF8(ct)
                                         /\ MediaClass(ct) \notin {"malformed", "none", "ce-other", "ce-other+json", "ce-batch+json"}
                       /\ r.err # Nil => \/ ~ValidUTF8(ct)
                                         \/ MediaClass(ct) \in {"malformed", "none", "ce-other", "ce-other+json", "ce-batch+json"}
<1>n. Nil \notin {ErrInvalidEvent, ErrUnsupportedMode}
  BY ErrorsAreNotNil DEF Errors
<1>1. CASE types = {} /\ ct = ""
  <2>1. r \in Returns({}, "binary")
    BY <1>1 DEF detectKafkaMode
  <2>2. r = [value |-> "binary", err |-> Nil]
    BY <2>1 DEF Returns
  <2>3. r.value = "binary" /\ r.err = Nil /\ r = [value |-> r.value, err |-> r.err]
    BY <2>2
  <2> QED BY <1>1, <2>3
<1>2. CASE ct # "" /\ \E i : types = {<<i, ct>>}
  <2> DEFINE class == MediaClass(ct)
             failures == When(repeated(types), ErrInvalidEvent)
                      ?? When(~ValidUTF8(ct) \/ class \in {"malformed", "none"}, ErrInvalidEvent)
                      ?? When(class \in {"ce-other", "ce-other+json", "ce-batch+json"}, ErrUnsupportedMode)
             m == kafkaMode(ct)
  <2>1. types # {} /\ soleValue(types) = ct /\ ~repeated(types)
    BY <1>2, SoleValue
  <2>2. r \in Returns(failures, m)
    BY <2>1 DEF detectKafkaMode
  <2>3. /\ failures = {} <=> ValidUTF8(ct) /\ class \notin {"malformed", "none", "ce-other", "ce-other+json", "ce-batch+json"}
        /\ Nil \notin failures
    BY <1>n, <2>1 DEF When, ??
  <2> HIDE DEF failures, m
  <2>4. /\ r = [value |-> r.value, err |-> r.err]
        /\ r.err = Nil => failures = {} /\ r.value = m
        /\ r.err # Nil => r.err \in failures
    BY <2>2, <2>3, ReturnsEither
  <2> QED BY <1>2, <2>1, <2>3, <2>4 DEF m
<1> QED BY <1>1, <1>2

LEMMA FiniteImage ==
  ASSUME NEW S, IsFiniteSet(S), NEW f
  PROVE  IsFiniteSet({f[x] : x \in S})
<1> DEFINE T == {f[x] : x \in S}
           g == [x \in S |-> f[x]]
<1>1. g \in [S -> T] /\ \A t \in T : \E x \in S : g[x] = t
  OBVIOUS
<1>2. g \in Surjection(S, T)
  BY <1>1 DEF Surjection
<1> HIDE DEF g, T
<1>3. IsFiniteSet(T) BY <1>2, FS_Surjection
<1> QED BY <1>3 DEF T

\* An event has finitely many attributes.
LEMMA FiniteContext ==
  ASSUME NEW e, WholeEvent(e), ClosedStrings
  PROVE  IsFiniteSet(DOMAIN contextAttributes(e))
<1> DEFINE names == {} \cup {"specversion"} \cup {"id"} \cup {"source"} \cup {"type"}
                       \cup {"dataschema"} \cup {"subject"} \cup {"time"}
<1>1. DOMAIN contextAttributes(e) = DOMAIN coreAttributes(e) \cup DOMAIN e.extensions
  BY ContextWritten
<1>2. DOMAIN coreAttributes(e) \subseteq names
  <2>1. DOMAIN coreAttributes(e) = {"specversion", "id", "source", "type"}
                       \cup (IF e.dataSchema # "" THEN {"dataschema"} ELSE {})
                       \cup (IF e.subject # "" THEN {"subject"} ELSE {})
                       \cup (IF e.time # "" THEN {"time"} ELSE {})
    BY CoreAttributesWritten
  <2> QED BY <2>1
<1>3. IsFiniteSet(names)
  <2>e. IsFiniteSet({}) BY FS_EmptySet
  <2>a. ASSUME NEW A, IsFiniteSet(A), NEW a PROVE IsFiniteSet(A \cup {a})
    BY <2>a, FS_AddElement
  <2>1. IsFiniteSet({} \cup {"specversion"}) BY <2>e, <2>a
  <2>2. IsFiniteSet({} \cup {"specversion"} \cup {"id"}) BY <2>1, <2>a
  <2>3. IsFiniteSet({} \cup {"specversion"} \cup {"id"} \cup {"source"}) BY <2>2, <2>a
  <2>4. IsFiniteSet({} \cup {"specversion"} \cup {"id"} \cup {"source"} \cup {"type"}) BY <2>3, <2>a
  <2>5. IsFiniteSet({} \cup {"specversion"} \cup {"id"} \cup {"source"} \cup {"type"}
                       \cup {"dataschema"}) BY <2>4, <2>a
  <2>6. IsFiniteSet({} \cup {"specversion"} \cup {"id"} \cup {"source"} \cup {"type"}
                       \cup {"dataschema"} \cup {"subject"}) BY <2>5, <2>a
  <2> QED BY <2>6, <2>a
<1> HIDE DEF names
<1>4. IsFiniteSet(DOMAIN coreAttributes(e))
  BY <1>2, <1>3, FS_Subset
<1>5. IsFiniteSet(DOMAIN e.extensions)
  BY DEF WholeEvent, EventOfStrings
<1> QED BY <1>1, <1>4, <1>5, FS_Union

binaryTypes(e) == IF binaryType(e) = "" THEN {} ELSE {binaryType(e)}

\* The headers of a binary record are its context and its content type, in some order.
LEMMA KafkaHeadersWritten ==
  ASSUME NEW e, WholeEvent(e), ClosedStrings
  PROVE  Enumerates(encodeKafkaBinaryHeaders(e), contextHeaders(contextAttributes(e), binaryTypes(e)))
<1> DEFINE c == contextAttributes(e)
           types == IF e.dataContentType # "" THEN {e.dataContentType}
                    ELSE IF present(e.data) THEN {implicitDataContentType(e.data.kind)}
                    ELSE {}
           headerOf == [n \in DOMAIN c |-> Header("ce", n, c[n])]
           typeOf == [t \in types |-> Header("content-type", "", t)]
           ce == {headerOf[n] : n \in DOMAIN c}
           ct == {typeOf[t] : t \in types}
<1>1. types = binaryTypes(e)
  BY ImplicitTypes DEF binaryType, binaryTypes
<1>2. IsFiniteSet(types)
  <2>1. types = {} \/ \E t : types = {t}
    OBVIOUS
  <2> HIDE DEF types
  <2> QED BY <2>1, FS_EmptySet, FS_Singleton, ZenonT(40)
<1>3. IsFiniteSet(DOMAIN c)
  BY FiniteContext
<1> DEFINE S == contextHeaders(c, types)
<1>4. encodeKafkaBinaryHeaders(e) = FoldSet(LAMBDA h, q : Append(q, h), <<>>, S)
  BY DEF encodeKafkaBinaryHeaders, contextHeaders
<1> HIDE DEF types, c
<1>5. S = ce \cup ct
  BY DEF contextHeaders
<1>6. IsFiniteSet(ce) /\ IsFiniteSet(ct)
  <2> HIDE DEF headerOf, typeOf
  <2> QED BY <1>2, <1>3, FiniteImage
<1>7. IsFiniteSet(S)
  <2> HIDE DEF ce, ct
  <2> QED BY <1>5, <1>6, FS_Union
<1> HIDE DEF S
<1>8. Enumerates(FoldSet(LAMBDA h, q : Append(q, h), <<>>, S), S)
  BY <1>7, FoldEnumerates
<1>9. Enumerates(encodeKafkaBinaryHeaders(e), S)
  BY <1>4, <1>8
<1> QED BY <1>1, <1>9 DEF S, c

\* The data of a binary record.
kafkaData(value, ct, lim) ==
  IF value = Nil THEN Returns({}, NoData)
  ELSE IF Size(value.bytes) > lim.MaxDataBytes THEN Returns({ErrLimitExceeded}, Nil)
  ELSE dataOf(ct, value.bytes)

\* A binary record that is decoded passed every stage; one that is not was turned away by
\* a limit, or some stage had another reason.
LEMMA DecodeKafkaBinaryParts ==
  ASSUME NEW value, NEW ct, NEW headers, NEW lim, NEW r \in decodeKafkaBinary(value, ct, headers, lim)
  PROVE  LET decoded == [n \in DOMAIN headers |-> soleValue(headers[n])] IN
         /\ r.err = Nil =>
              /\ "datacontenttype" \notin DOMAIN headers
              /\ ~(Cardinality(DOMAIN headers) > lim.MaxAttributes)
              /\ \A n \in DOMAIN headers : contextHeaderFailure(n, headers[n], lim) = {}
              /\ contextFailures(decoded) = {}
              /\ \E q \in kafkaData(value, ct, lim) :
                   q.err = Nil /\ r.value = withData(AttributesFrom(decoded, ct), q.value)
         /\ r.err # Nil =>
              \/ r.err = ErrLimitExceeded
              \/ "datacontenttype" \in DOMAIN headers
              \/ \E n \in DOMAIN headers :
                   ~(contextHeaderFailure(n, headers[n], lim) \subseteq {ErrLimitExceeded})
              \/ contextFailures(decoded) # {}
              \/ \E q \in kafkaData(value, ct, lim) : q.err \notin {Nil, ErrLimitExceeded}
              \/ validateAttributes(AttributesFrom(decoded, ct)) # {}
<1> DEFINE decoded == [n \in DOMAIN headers |-> soleValue(headers[n])]
           results == kafkaData(value, ct, lim)
           q == CHOOSE x \in results : TRUE
           a == When("datacontenttype" \in DOMAIN headers, ErrInvalidEvent)
           b == When(Cardinality(DOMAIN headers) > lim.MaxAttributes, ErrLimitExceeded)
           c == UNION {contextHeaderFailure(n, headers[n], lim) : n \in DOMAIN headers}
           d == contextFailures(decoded)
           f == When(q.err # Nil, q.err)
           failures == a ?? b ?? c ?? d ?? f
<1>1. decodeKafkaBinary(value, ct, headers, lim)
        = IF failures # {} THEN Returns(failures, Nil) ELSE NewEvent(AttributesFrom(decoded, ct), q.value)
  BY DEF decodeKafkaBinary, kafkaData
<1>2. q \in results
  <2>1. results # {}
    BY DataOfResult, ReturnsSomething DEF kafkaData
  <2> HIDE DEF results
  <2> QED BY <2>1
<1>3. /\ b = {} <=> ~(Cardinality(DOMAIN headers) > lim.MaxAttributes)
      /\ a = {} <=> "datacontenttype" \notin DOMAIN headers
      /\ b \subseteq {ErrLimitExceeded} /\ f \subseteq {q.err} /\ Nil \notin a /\ Nil \notin b /\ Nil \notin f
      /\ f = {} <=> q.err = Nil
  BY ErrorsAreNotNil DEF When, Errors
<1>4. Nil \notin c /\ Nil \notin d
  BY MetadataFailures
<1>5. c = {} => \A n \in DOMAIN headers : contextHeaderFailure(n, headers[n], lim) = {}
  OBVIOUS
<1>6. \A x \in c : \E n \in DOMAIN headers : x \in contextHeaderFailure(n, headers[n], lim)
  OBVIOUS
<1> HIDE DEF decoded, results, q, a, b, c, d, f
<1>7. /\ Nil \notin failures
      /\ failures = {} <=> a = {} /\ b = {} /\ c = {} /\ d = {} /\ f = {}
      /\ failures \subseteq a \cup b \cup c \cup d \cup f
  BY <1>3, <1>4 DEF ??
<1> HIDE DEF failures
<1>8. CASE failures # {}
  <2>1. r.err # Nil /\ r.err \in failures
    BY <1>1, <1>7, <1>8, ReturnsEither
  <2>2. r.err \in a \/ r.err \in b \/ r.err \in c \/ r.err \in d \/ r.err \in f
    BY <1>7, <2>1
  <2>3. r.err \in b => r.err = ErrLimitExceeded BY <1>3
  <2>4. r.err \in c => \/ r.err = ErrLimitExceeded
                       \/ \E n \in DOMAIN headers :
                            ~(contextHeaderFailure(n, headers[n], lim) \subseteq {ErrLimitExceeded})
    BY <1>6
  <2>5. r.err \in f => r.err = ErrLimitExceeded \/ \E p \in results : p.err \notin {Nil, ErrLimitExceeded}
    BY <1>2, <1>3, <2>1
  <2>6. r.err \in a => "datacontenttype" \in DOMAIN headers BY <1>3
  <2> QED BY <2>1, <2>2, <2>3, <2>4, <2>5, <2>6 DEF d, decoded, results
<1>9. CASE failures = {}
  <2>1. r \in NewEvent(AttributesFrom(decoded, ct), q.value)
    BY <1>1, <1>9
  <2>2. /\ r.err = Nil <=> validateAttributes(AttributesFrom(decoded, ct)) = {}
        /\ r.err = Nil => r.value = withData(AttributesFrom(decoded, ct), q.value)
    BY <2>1, NewEventResult
  <2>3. /\ "datacontenttype" \notin DOMAIN headers
        /\ ~(Cardinality(DOMAIN headers) > lim.MaxAttributes)
        /\ \A n \in DOMAIN headers : contextHeaderFailure(n, headers[n], lim) = {}
        /\ contextFailures(decoded) = {}
    BY <1>3, <1>5, <1>7, <1>9 DEF d
  <2>4. r.err = Nil => \E p \in results : p.err = Nil /\ r.value = withData(AttributesFrom(decoded, ct), p.value)
    BY <1>2, <1>3, <1>7, <1>9, <2>2
  <2> QED BY <2>2, <2>3, <2>4 DEF results, decoded
<1> QED BY <1>8, <1>9

\* A record whose header names are plain is turned away before its mode is known by a
\* limit alone.
LEMMA KafkaAdmission ==
  ASSUME NEW record, NEW lim, DOMAIN record.headers \subseteq Nat,
         \A i \in DOMAIN record.headers : ValidUTF8(record.headers[i].name)
  PROVE  recordFailures(record, lim) ?? headerFailures(record.headers, lim) \subseteq {ErrLimitExceeded}
<1> DEFINE hs == record.headers
           failing == {i \in DOMAIN hs : headerFailure(hs[i], lim) # {}}
<1>1. recordFailures(record, lim) \subseteq {ErrLimitExceeded}
  BY DEF recordFailures, When
<1>2. \A i \in DOMAIN hs : headerFailure(hs[i], lim) \subseteq {ErrLimitExceeded}
  BY DEF headerFailure, When, ??
<1>3. headerFailures(hs, lim) = IF failing = {} THEN {} ELSE headerFailure(hs[Min(failing)], lim)
  BY DEF headerFailures
<1>4. failing # {} => Min(failing) \in failing
  BY MinOfNaturals
<1> HIDE DEF hs
<1>5. headerFailures(hs, lim) \subseteq {ErrLimitExceeded}
  BY <1>2, <1>3, <1>4
<1> QED BY <1>1, <1>5 DEF ??, hs

\* A record that is decoded was admitted and decoded in the mode of its content type.
RefusedType(ct) ==
  ct # "" /\ (~ValidUTF8(ct) \/ MediaClass(ct) \in {"malformed", "none", "ce-other", "ce-other+json", "ce-batch+json"})

KafkaTaken(record, ct, lim, r) ==
  \/ r.err # Nil /\ r.err \in recordFailures(record, lim) ?? headerFailures(record.headers, lim)
  \/ r.err # Nil /\ RefusedType(ct)
  \/ /\ ~RefusedType(ct)
     /\ recordFailures(record, lim) ?? headerFailures(record.headers, lim) = {}
     /\ \E p \in decodeKafkaEvent(kafkaMode(ct), record, ct, cloudEventHeaders(record.headers), lim) :
          r.err = p.err /\ (p.err = Nil => r.value.event = p.value)

\* The one content type of a record, if it has any.
TypedRecord(record, ct) ==
  \/ contentTypesOf(record) = {} /\ ct = ""
  \/ ct # "" /\ \E i : contentTypesOf(record) = {<<i, ct>>}

LEMMA RecordTyped ==
  ASSUME NEW record, NEW ct, TypedRecord(record, ct) PROVE recordType(record) = ct
<1>1. CASE contentTypesOf(record) = {} /\ ct = ""
  BY <1>1 DEF recordType
<1>2. CASE ct # "" /\ \E i : contentTypesOf(record) = {<<i, ct>>}
  BY <1>2, SoleValue DEF recordType
<1> QED BY <1>1, <1>2 DEF TypedRecord

LEMMA DecodeKafkaParts ==
  ASSUME NEW record, NEW lim, NEW r \in DecodeKafka(record, lim), NEW ct, TypedRecord(record, ct)
  PROVE  KafkaTaken(record, ct, lim, r)
<1> DEFINE types == contentTypesOf(record)
           rejected == recordFailures(record, lim) ?? headerFailures(record.headers, lim)
           selected == kafkaMode(ct)
           contentType == recordType(record)
           headers == cloudEventHeaders(record.headers)
           wrapped(m, event) ==
             [mode |-> m, event |-> event, key |-> record.key,
              transportHeaders |-> transportHeaders(record.headers)]
<1>n. Nil \notin rejected
  <2>1. Nil \notin recordFailures(record, lim)
    BY ErrorsAreNotNil DEF recordFailures, When, Errors
  <2>2. \A h : Nil \notin headerFailure(h, lim)
    BY ErrorsAreNotNil DEF headerFailure, When, ??, Errors
  <2>3. Nil \notin headerFailures(record.headers, lim)
    BY <2>2 DEF headerFailures
  <2> QED BY <2>1, <2>3, StagesFailWithErrors
<1>1. r \in (IF rejected # {} THEN Returns(rejected, Nil)
             ELSE UNION {IF m.err # Nil THEN {m}
                         ELSE {[p EXCEPT !.value = IF p.err # Nil THEN Nil ELSE wrapped(m.value, @)]
                               : p \in decodeKafkaEvent(m.value, record, contentType, headers, lim)}
                         : m \in detectKafkaMode(types)})
  BY DEF DecodeKafka
<1>h. \/ types = {} /\ ct = ""
      \/ ct # "" /\ \E i : types = {<<i, ct>>}
  BY DEF TypedRecord
<1> HIDE DEF types, rejected, headers, contentType, selected
<1>2. CASE rejected # {}
  <2>1. r.err # Nil /\ r.err \in rejected
    BY <1>1, <1>2, <1>n, ReturnsEither
  <2> QED BY <2>1 DEF rejected, KafkaTaken
<1>3. CASE rejected = {}
  <2>1. PICK m \in detectKafkaMode(types) :
          r \in (IF m.err # Nil THEN {m}
                 ELSE {[p EXCEPT !.value = IF p.err # Nil THEN Nil ELSE wrapped(m.value, @)]
                       : p \in decodeKafkaEvent(m.value, record, contentType, headers, lim)})
    BY <1>1, <1>3
  <2> HIDE DEF wrapped
  <2>2. /\ contentType = ct
        /\ ct = "" => m.err = Nil /\ m.value = "binary"
        /\ ct # "" => /\ m.err = Nil => /\ m.value = kafkaMode(ct)
                                         /\ ValidUTF8(ct)
                                         /\ MediaClass(ct) \notin {"malformed", "none", "ce-other", "ce-other+json", "ce-batch+json"}
                      /\ m.err # Nil => \/ ~ValidUTF8(ct)
                                        \/ MediaClass(ct) \in {"malformed", "none", "ce-other", "ce-other+json", "ce-batch+json"}
    BY <1>h, KafkaModeRead, RecordTyped DEF contentType
  <2>3. CASE m.err # Nil
    BY <2>1, <2>2, <2>3 DEF KafkaTaken, RefusedType
  <2>4. CASE m.err = Nil
    <3>1. m.value = selected
      <4>1. kafkaMode("") = "binary" BY ImplicitTypeAssumption DEF kafkaMode
      <4> QED BY <2>2, <2>4, <4>1 DEF selected
    <3>2. PICK p \in decodeKafkaEvent(selected, record, ct, headers, lim) :
            r = [p EXCEPT !.value = IF p.err # Nil THEN Nil ELSE wrapped(m.value, @)]
      BY <2>1, <2>2, <2>4, <3>1
    <3>3. p = [value |-> p.value, err |-> p.err]
      BY DecodeKafkaEventResult DEF EventResult
    <3>4. r.err = p.err /\ (p.err = Nil => r.value = wrapped(m.value, p.value))
      BY <3>2, <3>3
    <3>5. wrapped(m.value, p.value).event = p.value
      BY DEF wrapped
    <3>6. \E q \in decodeKafkaEvent(selected, record, ct, headers, lim) :
                 r.err = q.err /\ (q.err = Nil => r.value.event = q.value)
      BY <3>2, <3>4, <3>5
    <3>7. ~RefusedType(ct)
      BY <2>2, <2>4 DEF RefusedType
    <3> QED BY <1>3, <3>6, <3>7 DEF rejected, headers, selected, KafkaTaken
  <2> QED BY <2>3, <2>4
<1> QED BY <1>2, <1>3

\* The value of a binary record.
binaryValue(e) == IF present(e.data) THEN Bytes(e.data.bytes) ELSE Nil

LEMMA KafkaDataRead ==
  ASSUME NEW e, WholeEvent(e), ClosedStrings, NEW lim,
         NEW q \in kafkaData(binaryValue(e), binaryType(e), lim)
  PROVE  /\ q.err # Nil => q.err = ErrLimitExceeded \/ TextJSON(e) \/ BinaryLosesData(e)
         /\ q.err = Nil /\ TextJSON(e) => q.value # e.data
         /\ q.err = Nil /\ ~TextJSON(e) => (q.value = e.data <=> ~BinaryLosesData(e))
<1>1. CASE present(e.data)
  <2>1. Bytes(e.data.bytes) # Nil
    BY DEF ClosedStrings
  <2>2. Bytes(e.data.bytes).bytes = e.data.bytes
    BY DEF Bytes
  <2>3. binaryValue(e) # Nil /\ binaryValue(e).bytes = e.data.bytes
    BY <1>1, <2>1, <2>2 DEF binaryValue
  <2>4. \/ q \in Returns({ErrLimitExceeded}, Nil)
        \/ q \in dataOf(binaryType(e), e.data.bytes)
    BY <2>3 DEF kafkaData
  <2>5. CASE q \in Returns({ErrLimitExceeded}, Nil)
    <3>1. q = [value |-> Nil, err |-> ErrLimitExceeded]
      BY <2>5 DEF Returns
    <3> QED BY <3>1, ErrorsAreNotNil DEF Errors
  <2>6. CASE q \in dataOf(binaryType(e), e.data.bytes)
    BY <1>1, <2>6, BinaryDataRead
  <2> QED BY <2>4, <2>5, <2>6
<1>2. CASE ~present(e.data)
  <2>1. ~BinaryLosesData(e) /\ e.data.kind = "absent" /\ ~TextJSON(e)
    BY <1>2 DEF BinaryLosesData, present, TextJSON
  <2>2. binaryValue(e) = Nil
    BY <1>2 DEF binaryValue
  <2>3. q \in Returns({}, NoData)
    BY <2>2 DEF kafkaData
  <2>4. q = [value |-> NoData, err |-> Nil]
    BY <2>3 DEF Returns
  <2>5. e.data = NoData
    BY <2>1 DEF WholeEvent, EventOfStrings, NoData
  <2> QED BY <2>1, <2>4, <2>5
<1> QED BY <1>1, <1>2

\* One context header of a record: its value passes unless a limit stops it or it is not UTF-8.
LEMMA KafkaHeaderRead ==
  ASSUME NEW n, NEW t, NEW values, \E i : values = {<<i, t>>}, NEW lim
  PROVE  /\ soleValue(values) = t
         /\ ValidUTF8(t) => contextHeaderFailure(n, values, lim) \subseteq {ErrLimitExceeded}
         /\ contextHeaderFailure(n, values, lim) = {} => ValidUTF8(t)
<1>1. soleValue(values) = t /\ ~repeated(values)
  BY SoleValue
<1> QED BY <1>1 DEF contextHeaderFailure, When, ??

\* The context headers and the value of a binary record, decoded as such.
LEMMA KafkaBinaryRead ==
  ASSUME NEW e, WholeEvent(e), ClosedStrings, NEW lim, NEW headers,
         DOMAIN headers = DOMAIN contextAttributes(e),
         \A n \in DOMAIN headers : \E i : headers[n] = {<<i, contextAttributes(e)[n]>>},
         NEW r \in decodeKafkaBinary(binaryValue(e), binaryType(e), headers, lim)
  PROVE  LET U == TextJSON(e) \/ UnparsedTime(e) \/ NonUTF8Schema(e) IN
         /\ r.err = Nil => Arrives(e, U, binaryConversionReport(e), r.value)
         /\ r.err # Nil => TurnedAway(U, binaryConversionReport(e), r.err)
<1> DEFINE U == TextJSON(e) \/ UnparsedTime(e) \/ NonUTF8Schema(e)
           c == contextAttributes(e)
           ct == binaryType(e)
           value == binaryValue(e)
           x == [n \in DOMAIN headers |-> soleValue(headers[n])]
           attrs == AttributesFrom(x, ct)
<1>1. /\ c = [n \in DOMAIN c |-> c[n]] /\ "datacontenttype" \notin DOMAIN c
      /\ "dataschema" \in DOMAIN c <=> e.dataSchema # ""
      /\ e.dataSchema # "" => c["dataschema"] = e.dataSchema
  BY ContextWritten
<1>2. \A n \in DOMAIN c : c[n] \in Strings /\ (n # "dataschema" => ValidUTF8(c[n]))
  BY ContextTexts
<1>3. ASSUME NEW n \in DOMAIN c
      PROVE  /\ soleValue(headers[n]) = c[n]
             /\ ValidUTF8(c[n]) => contextHeaderFailure(n, headers[n], lim) \subseteq {ErrLimitExceeded}
             /\ contextHeaderFailure(n, headers[n], lim) = {} => ValidUTF8(c[n])
  <2>1. \E i : headers[n] = {<<i, c[n]>>} OBVIOUS
  <2> HIDE DEF c
  <2> DEFINE t == c[n]
             values == headers[n]
  <2> HIDE DEF t, values
  <2>2. \E i : values = {<<i, t>>} BY <2>1 DEF t, values
  <2>3. /\ soleValue(values) = t
        /\ ValidUTF8(t) => contextHeaderFailure(n, values, lim) \subseteq {ErrLimitExceeded}
        /\ contextHeaderFailure(n, values, lim) = {} => ValidUTF8(t)
    BY <2>2, KafkaHeaderRead
  <2> QED BY <2>3 DEF t, values
<1>4. /\ ~UnparsedTime(e) => contextFailures(c) = {}
      /\ UnparsedTime(e) => contextFailures(c) # {}
      /\ ~UnparsedTime(e) => AttributesFrom(c, ct)
           = Attributes(e.id, e.source, e.type, ct, e.dataSchema, e.subject, e.time,
                        stringly(e.extensions, {"string"}))
  BY ContextReadBack
<1>5. x = c
  <2> HIDE DEF c
  <2> QED BY <1>1, <1>3 DEF c
<1>p. /\ r.err = Nil =>
              /\ \A n \in DOMAIN headers : contextHeaderFailure(n, headers[n], lim) = {}
              /\ contextFailures(x) = {}
              /\ \E q \in kafkaData(value, ct, lim) : q.err = Nil /\ r.value = withData(attrs, q.value)
      /\ r.err # Nil =>
              \/ r.err = ErrLimitExceeded
              \/ "datacontenttype" \in DOMAIN headers
              \/ \E n \in DOMAIN headers :
                   ~(contextHeaderFailure(n, headers[n], lim) \subseteq {ErrLimitExceeded})
              \/ contextFailures(x) # {}
              \/ \E q \in kafkaData(value, ct, lim) : q.err \notin {Nil, ErrLimitExceeded}
              \/ validateAttributes(attrs) # {}
  <2>1. r \in decodeKafkaBinary(value, ct, headers, lim) OBVIOUS
  <2> HIDE DEF ct, value
  <2> QED BY <2>1, DecodeKafkaBinaryParts
<1>d. ASSUME NEW q \in kafkaData(value, ct, lim)
      PROVE  /\ q.err # Nil => q.err = ErrLimitExceeded \/ TextJSON(e) \/ BinaryLosesData(e)
             /\ q.err = Nil /\ TextJSON(e) => q.value # e.data
             /\ q.err = Nil /\ ~TextJSON(e) => (q.value = e.data <=> ~BinaryLosesData(e))
  BY KafkaDataRead
<1>m. MediaClass(ct) # "malformed" BY BinaryTypeClass
<1>b. binaryConversionReport(e) = When(ct # e.dataContentType, Core("datacontenttype"))
             \cup When(BinaryLosesData(e), Core("data")) \cup lostExtensions(e, {"string"})
  BY BinaryReportFields
<1>u. ValidUTF8("") BY CoreTexts
<1>h. DOMAIN headers = DOMAIN c OBVIOUS
<1> HIDE DEF c, ct, value, x
<1>6. ASSUME ~NonUTF8Schema(e)
      PROVE  \A n \in DOMAIN headers : contextHeaderFailure(n, headers[n], lim) \subseteq {ErrLimitExceeded}
  <2>1. \A n \in DOMAIN c : ValidUTF8(c[n])
    BY <1>1, <1>2, <1>6 DEF NonUTF8Schema
  <2> QED BY <1>3, <1>h, <2>1
<1>7. ASSUME r.err = Nil, NonUTF8Schema(e) PROVE FALSE
  <2>1. e.dataSchema # "" /\ "dataschema" \in DOMAIN c /\ c["dataschema"] = e.dataSchema
    BY <1>1, <1>7, <1>u DEF NonUTF8Schema
  <2>2. contextHeaderFailure("dataschema", headers["dataschema"], lim) = {}
    BY <1>7, <1>h, <1>p, <2>1
  <2>3. ValidUTF8(e.dataSchema) BY <1>3, <2>1, <2>2
  <2> QED BY <1>7, <2>3 DEF NonUTF8Schema
<1>8. ASSUME ~UnparsedTime(e)
      PROVE  /\ attrs = Attributes(e.id, e.source, e.type, ct, e.dataSchema, e.subject, e.time,
                        stringly(e.extensions, {"string"}))
             /\ validateAttributes(attrs) = {}
             /\ contextFailures(x) = {}
  BY <1>4, <1>5, <1>8, <1>m, ImageValid
<1> HIDE DEF attrs
<1>9. ASSUME r.err = Nil PROVE Arrives(e, U, binaryConversionReport(e), r.value)
  <2>1. PICK q \in kafkaData(value, ct, lim) : q.err = Nil /\ r.value = withData(attrs, q.value)
    BY <1>9, <1>p
  <2>2. r.value.data = q.value
    BY <2>1, WithDataFields
  <2>3. ~UnparsedTime(e) /\ ~NonUTF8Schema(e)
    BY <1>4, <1>5, <1>7, <1>9, <1>p
  <2>4. r.value = Image(e, ct, {"string"}, q.value)
    BY <1>8, <2>1, <2>3 DEF Image
  <2>k. KeepsStrings(e, r.value)
    <3>1. r.value.dataContentType = ct /\ r.value.extensions = stringly(e.extensions, {"string"})
      BY <2>4, ImageFields
    <3>2. Shadowed(r.value) => Shadowed(e)
      <4>1. MediaClass(ct) \in {"ce+json", "ce-batch+json", "ce-other", "ce-other+json"} <=> Shadowed(e)
        BY BinaryTypeClass DEF ct
      <4>2. Shadowed(r.value) <=> MediaClass(r.value.dataContentType) \in {"ce+json", "ce-batch+json", "ce-other", "ce-other+json"}
        BY DEF Shadowed
      <4> HIDE DEF ct
      <4> QED BY <3>1, <4>1, <4>2
    <3> QED BY <3>1, <3>2, StringsKept
  <2>5. CASE TextJSON(e)
    BY <1>d, <2>1, <2>2, <2>5, <2>k DEF Arrives
  <2>6. CASE ~TextJSON(e)
    <3>1. q.value = e.data <=> ~BinaryLosesData(e)
      BY <1>d, <2>1, <2>6
    <3>2. LET f == Image(e, ct, {"string"}, q.value) IN
            changed(e, f) = binaryConversionReport(e) /\ (f = e <=> binaryConversionReport(e) = {})
      BY <1>b, <3>1, ImageArrives
    <3> QED BY <2>3, <2>4, <2>6, <2>k, <3>2 DEF Arrives
  <2> QED BY <2>5, <2>6
<1>10. ASSUME r.err # Nil PROVE TurnedAway(U, binaryConversionReport(e), r.err)
  <2> SUFFICES ASSUME r.err # ErrLimitExceeded, ~U PROVE Core("data") \in binaryConversionReport(e)
    BY DEF TurnedAway
  <2>1. \E q \in kafkaData(value, ct, lim) : q.err \notin {Nil, ErrLimitExceeded}
    BY <1>1, <1>6, <1>8, <1>10, <1>h, <1>p
  <2>2. BinaryLosesData(e)
    BY <1>d, <2>1
  <2> QED BY <1>b, <2>2 DEF When
<1> QED BY <1>9, <1>10

\* Names of attributes are UTF-8.
LEMMA ContextNames ==
  ASSUME NEW e, WholeEvent(e), ClosedStrings, NEW n \in DOMAIN contextAttributes(e) \cup {""}
  PROVE  ValidUTF8(n)
<1>1. CASE n \in reservedAttributeNames \cup {""}
  BY <1>1, NameAssumption
<1>2. CASE n \notin reservedAttributeNames \cup {""}
  <2>1. n \in DOMAIN e.extensions
    BY <1>2, ContextWritten
  <2>2. ValidName(n) /\ n \in Strings
    BY <2>1, WholeEventRules DEF ExtensionsValid, WholeEvent, EventOfStrings
  <2> QED BY <2>2, NameAssumption
<1> QED BY <1>1, <1>2

LEMMA BinaryTypeUTF8 ==
  ASSUME NEW e, WholeEvent(e), ClosedStrings
  PROVE  ~ValidUTF8(binaryType(e)) => NonUTF8Type(e)
<1>1. CASE e.dataContentType # ""
  BY <1>1 DEF binaryType, NonUTF8Type
<1>2. CASE e.dataContentType = ""
  <2>1. binaryType(e) \in {"", "application/json", "text/plain", "application/octet-stream"}
    BY <1>2, ImplicitTypes DEF binaryType
  <2>2. binaryType(e) \in Strings
    BY <2>1 DEF ClosedStrings
  <2> QED BY <2>1, <2>2, StringAssumption
<1> QED BY <1>1, <1>2

LEMMA KafkaBinaryCrossing ==
  ASSUME NEW e, WholeEvent(e), ClosedStrings, NEW lim, NEW record,
         record.value = binaryValue(e), record.headers = encodeKafkaBinaryHeaders(e),
         NEW r \in DecodeKafka(record, lim)
  PROVE  LET U == Unreported(e, "kafka", "binary") IN
         /\ r.err = Nil => Arrives(e, U, binaryConversionReport(e), r.value.event)
         /\ r.err # Nil => TurnedAway(U, binaryConversionReport(e), r.err)
<1> DEFINE U == Unreported(e, "kafka", "binary")
           c == contextAttributes(e)
           ct == binaryType(e)
           hs == record.headers
           headers == cloudEventHeaders(hs)
           types == contentTypesOf(record)
           fails == recordFailures(record, lim) ?? headerFailures(hs, lim)
<1>1. U <=> TextJSON(e) \/ Shadowed(e) \/ NonUTF8Type(e) \/ UnparsedTime(e) \/ NonUTF8Schema(e)
  BY DEF Unreported
<1>2. Enumerates(hs, contextHeaders(c, binaryTypes(e)))
  BY KafkaHeadersWritten
<1>3. /\ DOMAIN headers = DOMAIN c
      /\ \A n \in DOMAIN c : \E i : headers[n] = {<<i, c[n]>>}
      /\ binaryTypes(e) = {} => types = {}
      /\ \A t \in binaryTypes(e) : \E i : types = {<<i, t>>}
      /\ DOMAIN hs \subseteq Nat
      /\ \A i \in DOMAIN hs : hs[i].name \in DOMAIN c \cup {""}
  <2>1. \A s, t \in binaryTypes(e) : s = t BY DEF binaryTypes
  <2>2. ReadBack(hs, c, binaryTypes(e))
    BY <1>2, <2>1, KafkaContextRead
  <2> QED BY <2>2 DEF ReadBack, contentTypesOf
<1>4. TypedRecord(record, ct)
  <2>1. CASE ct = "" BY <1>3, <2>1 DEF binaryTypes, TypedRecord
  <2>2. CASE ct # ""
    <3>1. ct \in binaryTypes(e) BY <2>2 DEF binaryTypes
    <3> QED BY <1>3, <2>2, <3>1 DEF TypedRecord
  <2> QED BY <2>1, <2>2
<1>5. fails \subseteq {ErrLimitExceeded}
  <2>1. \A i \in DOMAIN hs : ValidUTF8(hs[i].name)
    BY <1>3, ContextNames
  <2> QED BY <1>3, <2>1, KafkaAdmission
<1>6. /\ MediaClass(ct) # "malformed"
      /\ MediaClass(ct) \in {"ce+json", "ce-batch+json", "ce-other", "ce-other+json"} <=> Shadowed(e)
      /\ MediaClass(ct) = "none" => ct = ""
      /\ ~ValidUTF8(ct) => NonUTF8Type(e)
  BY BinaryTypeClass, BinaryTypeUTF8, MediaAssumption
<1>7. KafkaTaken(record, ct, lim, r)
  BY <1>4, DecodeKafkaParts
<1>8. CASE r.err # Nil /\ r.err \in fails
  BY <1>5, <1>8 DEF TurnedAway
<1>9. CASE r.err # Nil /\ RefusedType(ct)
  BY <1>1, <1>6, <1>9 DEF TurnedAway, RefusedType
<1> HIDE DEF U, c, ct, hs, headers, types, fails
<1>10. CASE kafkaMode(ct) = "structured"
             /\ \E p \in decodeKafkaEvent("structured", record, ct, headers, lim) :
                  r.err = p.err /\ (p.err = Nil => r.value.event = p.value)
  <2>1. PICK p \in decodeKafkaEvent("structured", record, ct, headers, lim) :
          r.err = p.err /\ (p.err = Nil => r.value.event = p.value)
    BY <1>10
  <2>2. MediaClass(ct) = "ce+json" /\ Shadowed(e)
    BY <1>6, <1>10 DEF kafkaMode
  <2>3. CASE r.err # Nil
    BY <1>1, <2>2, <2>3 DEF TurnedAway, U
  <2>4. CASE r.err = Nil
    <3>1. p.err = Nil BY <2>1, <2>4
    <3>2. present(e.data)
      <4>1. SUFFICES ASSUME ~present(e.data) PROVE FALSE OBVIOUS
      <4>2. record.value = Nil BY <4>1 DEF binaryValue
      <4>3. p \in Returns({ErrInvalidEvent}, Nil) BY <2>1, <4>2 DEF decodeKafkaEvent
      <4> QED BY <3>1, <4>3, ErrorsAreNotNil DEF Returns, Errors
    <3>3. record.value = Bytes(binaryBody(e)) BY <3>2 DEF binaryValue, binaryBody
    <3>4. \/ \E x \in {ErrInvalidEvent, ErrLimitExceeded} : p \in Returns({x}, Nil)
          \/ \E d \in DecodeJSON(record.value, lim) :
               p \in (IF d.err # Nil THEN {d}
                      ELSE Returns(validateStructuredKafkaMetadata(headers, d.value, lim), d.value))
      BY <2>1 DEF decodeKafkaEvent
    <3>5. \A x \in {ErrInvalidEvent, ErrLimitExceeded} : \A y \in Returns({x}, Nil) : y.err # Nil
      BY ErrorsAreNotNil DEF Returns, Errors
    <3>6. PICK d \in DecodeJSON(record.value, lim) :
            p \in (IF d.err # Nil THEN {d}
                   ELSE Returns(validateStructuredKafkaMetadata(headers, d.value, lim), d.value))
      BY <3>1, <3>4, <3>5
    <3>7. d.err = Nil BY <3>1, <3>6
    <3>8. p.value = d.value
      BY <3>1, <3>6, <3>7, MetadataFailures, ReturnsEither
    <3>9. MediaClass(e.dataContentType) = "ce+json"
      BY <2>2, ShadowedType DEF ct
    <3>10. p.value # e \/ binaryConversionReport(e) # {}
      BY <3>3, <3>7, <3>8, <3>9, InnerEventDiffers
    <3> QED BY <1>1, <2>1, <2>2, <2>4, <3>1, <3>10 DEF Arrives, U
  <2> QED BY <2>3, <2>4
<1>11. CASE /\ ~RefusedType(ct) /\ kafkaMode(ct) = "binary"
            /\ \E p \in decodeKafkaEvent("binary", record, ct, headers, lim) :
                 r.err = p.err /\ (p.err = Nil => r.value.event = p.value)
  <2>1. PICK p \in decodeKafkaEvent("binary", record, ct, headers, lim) :
                 r.err = p.err /\ (p.err = Nil => r.value.event = p.value)
    BY <1>11
  <2>2. p \in decodeKafkaBinary(binaryValue(e), binaryType(e), headers, lim)
    BY <2>1 DEF decodeKafkaEvent, ct
  <2>3. /\ DOMAIN headers = DOMAIN contextAttributes(e)
        /\ \A n \in DOMAIN headers : \E i : headers[n] = {<<i, contextAttributes(e)[n]>>}
    BY <1>3 DEF c
  <2>4. /\ p.err = Nil => Arrives(e, TextJSON(e) \/ UnparsedTime(e) \/ NonUTF8Schema(e),
                                  binaryConversionReport(e), p.value)
        /\ p.err # Nil => TurnedAway(TextJSON(e) \/ UnparsedTime(e) \/ NonUTF8Schema(e),
                                     binaryConversionReport(e), p.err)
    BY <2>2, <2>3, KafkaBinaryRead
  <2>5. ~Shadowed(e)
    <3>1. CASE ct # "" BY <1>6, <1>11, <3>1 DEF RefusedType, kafkaMode
    <3>2. CASE ct = ""
      <4>1. MediaClass(ct) = "none" BY <3>2, ImplicitTypeAssumption
      <4> QED BY <1>6, <4>1
    <3> QED BY <3>1, <3>2
  <2>6. ~NonUTF8Type(e)
    <3>1. CASE e.dataContentType # ""
      <4>1. ct = e.dataContentType BY <3>1 DEF ct, binaryType
      <4> QED BY <1>11, <3>1, <4>1 DEF NonUTF8Type, RefusedType
    <3>2. CASE e.dataContentType = ""
      BY <3>2, CoreTexts DEF NonUTF8Type
    <3> QED BY <3>1, <3>2
  <2>7. U <=> TextJSON(e) \/ UnparsedTime(e) \/ NonUTF8Schema(e)
    BY <1>1, <2>5, <2>6
  <2> QED BY <2>1, <2>4, <2>7 DEF Arrives, TurnedAway, U
<1>12. \/ r.err # Nil /\ r.err \in fails
       \/ r.err # Nil /\ RefusedType(ct)
       \/ /\ ~RefusedType(ct)
          /\ \E p \in decodeKafkaEvent(kafkaMode(ct), record, ct, headers, lim) :
               r.err = p.err /\ (p.err = Nil => r.value.event = p.value)
  BY <1>7 DEF KafkaTaken, fails, headers, hs
<1> QED BY <1>8, <1>9, <1>10, <1>11, <1>12 DEF kafkaMode

\* The headers of a structured record.
JSONHeaders == <<Header("content-type", "", JSONMediaType)>>

LEMMA JSONHeadersRead ==
  /\ DOMAIN JSONHeaders = {1} /\ JSONHeaders[1].name = ""
  /\ collected(JSONHeaders, ownedBy(JSONHeaders, "content-type")) = {<<1, JSONMediaType>>}
  /\ DOMAIN cloudEventHeaders(JSONHeaders) = {}
<1> DEFINE h == Header("content-type", "", JSONMediaType)
           hs == <<h>>
<1>1. h.owner = "content-type" /\ h.name = "" /\ h.value = JSONMediaType
  BY DEF Header
<1>2. JSONHeaders = hs BY DEF JSONHeaders
<1> HIDE DEF h
<1>3. DOMAIN hs = {1} /\ hs[1] = h
  OBVIOUS
<1> HIDE DEF hs
<1>4. hs[1].name = "" /\ hs[1].value = JSONMediaType BY <1>1, <1>3
<1>5. ownedBy(hs, "content-type") = {1}
  BY <1>1, <1>3 DEF ownedBy
<1>6. ownedBy(hs, "ce") = {}
  BY <1>1, <1>3 DEF ownedBy
<1>7. collected(hs, {1}) = {<<1, JSONMediaType>>}
  BY <1>4 DEF collected
<1>8. DOMAIN cloudEventHeaders(hs) = {}
  BY <1>6 DEF cloudEventHeaders
<1> QED BY <1>2, <1>3, <1>4, <1>5, <1>7, <1>8

LEMMA KafkaStructuredCrossing ==
  ASSUME NEW e, WholeEvent(e), ClosedStrings, NEW lim, NEW record,
         record.value = encodeJSON(e), record.headers = JSONHeaders,
         NEW r \in DecodeKafka(record, lim)
  PROVE  LET U == Unreported(e, "kafka", "structured") IN
         /\ r.err = Nil => Arrives(e, U, jsonConversionReport(e), r.value.event)
         /\ r.err # Nil => TurnedAway(U, jsonConversionReport(e), r.err)
<1> DEFINE U == Unreported(e, "kafka", "structured")
           headers == cloudEventHeaders(JSONHeaders)
           losses == jsonConversionReport(e)
<1>1. U <=> JSONUnreported(e)
  BY DEF Unreported, JSONUnreported
<1>2. /\ DOMAIN JSONHeaders = {1} /\ JSONHeaders[1].name = ""
      /\ collected(JSONHeaders, ownedBy(JSONHeaders, "content-type")) = {<<1, JSONMediaType>>}
      /\ DOMAIN headers = {}
  BY JSONHeadersRead
<1>3. JSONMediaType # "" BY DEF JSONMediaType
<1>4. TypedRecord(record, JSONMediaType)
  BY <1>2, <1>3 DEF TypedRecord, contentTypesOf
<1>5. ~RefusedType(JSONMediaType) /\ kafkaMode(JSONMediaType) = "structured"
  BY <1>3, ModeTypeAssumption DEF RefusedType, kafkaMode
<1>6. recordFailures(record, lim) ?? headerFailures(record.headers, lim) \subseteq {ErrLimitExceeded}
  <2>1. DOMAIN record.headers \subseteq Nat /\ \A i \in DOMAIN record.headers : ValidUTF8(record.headers[i].name)
    <3>1. ValidUTF8("") BY NameAssumption
    <3>2. DOMAIN record.headers = {1} /\ record.headers[1].name = "" BY <1>2
    <3>3. DOMAIN record.headers \subseteq Nat
      <4> DEFINE D == DOMAIN record.headers
      <4>1. D = {1} BY <3>2
      <4> HIDE DEF D
      <4>2. D \subseteq Nat BY <4>1
      <4> QED BY <4>2 DEF D
    <3>4. ASSUME NEW i \in DOMAIN record.headers PROVE ValidUTF8(record.headers[i].name)
      <4>1. i = 1 BY <3>2
      <4> DEFINE name == record.headers[i].name
      <4>2. name = "" BY <3>2, <4>1
      <4> HIDE DEF name
      <4>3. ValidUTF8(name) BY <3>1, <4>2, Zenon
      <4> QED BY <4>3 DEF name
    <3> QED BY <3>3, <3>4
  <2> QED BY <2>1, KafkaAdmission
<1>7. KafkaTaken(record, JSONMediaType, lim, r)
  BY <1>4, DecodeKafkaParts
<1>8. \/ r.err # Nil /\ r.err \in recordFailures(record, lim) ?? headerFailures(record.headers, lim)
      \/ \E p \in decodeKafkaEvent("structured", record, JSONMediaType, headers, lim) :
           r.err = p.err /\ (p.err = Nil => r.value.event = p.value)
  BY <1>5, <1>7 DEF KafkaTaken
<1> HIDE DEF headers
<1>9. ASSUME NEW p \in decodeKafkaEvent("structured", record, JSONMediaType, headers, lim)
      PROVE  /\ p.err = Nil => Arrives(e, U, losses, p.value)
             /\ p.err # Nil => TurnedAway(U, losses, p.err)
  <2>1. record.value # Nil
    <3>1. \E members, duplicate : encodeJSON(e) = Doc(members, duplicate)
      BY Zenon DEF encodeJSON
    <3>2. \A members, duplicate : Doc(members, duplicate) # Nil
      BY DEF ClosedStrings
    <3> QED BY <3>1, <3>2
  <2>2. \/ p \in Returns({ErrLimitExceeded}, Nil)
        \/ \E d \in DecodeJSON(encodeJSON(e), lim) :
             p \in (IF d.err # Nil THEN {d}
                    ELSE Returns(validateStructuredKafkaMetadata(headers, d.value, lim), d.value))
    BY <2>1 DEF decodeKafkaEvent
  <2>3. CASE p \in Returns({ErrLimitExceeded}, Nil)
    <3>1. p = [value |-> Nil, err |-> ErrLimitExceeded]
      BY <2>3 DEF Returns
    <3>2. p.err = ErrLimitExceeded /\ p.err # Nil
      BY <3>1, ErrorsAreNotNil DEF Errors
    <3> QED BY <3>2 DEF TurnedAway
  <2>4. ASSUME NEW d \in DecodeJSON(encodeJSON(e), lim),
               p \in (IF d.err # Nil THEN {d}
                      ELSE Returns(validateStructuredKafkaMetadata(headers, d.value, lim), d.value))
        PROVE  /\ p.err = Nil => Arrives(e, U, losses, p.value)
               /\ p.err # Nil => TurnedAway(U, losses, p.err)
    <3>1. /\ d.err = Nil => Arrives(e, JSONUnreported(e), losses, d.value)
          /\ d.err # Nil => TurnedAway(JSONUnreported(e), losses, d.err)
      BY JSONArrives
    <3>2. /\ d.err = Nil => Arrives(e, U, losses, d.value)
          /\ d.err # Nil => TurnedAway(U, losses, d.err)
      BY <1>1, <3>1 DEF Arrives, TurnedAway
    <3>3. CASE d.err # Nil
      <4>1. p = d BY <2>4, <3>3
      <4> HIDE DEF U, losses
      <4> QED BY <3>2, <3>3, <4>1
    <3>4. CASE d.err = Nil
      <4> DEFINE F == validateStructuredKafkaMetadata(headers, d.value, lim)
      <4>1. F \subseteq {ErrLimitExceeded}
        BY <1>2 DEF validateStructuredKafkaMetadata, When, ??
      <4>2. Nil \notin F
        BY <4>1, ErrorsAreNotNil DEF Errors
      <4>3. p \in Returns(F, d.value)
        BY <2>4, <3>4
      <4> HIDE DEF F, U, losses
      <4>4. /\ p.err = Nil => p.value = d.value
            /\ p.err # Nil => p.err \in F
        BY <4>2, <4>3, ReturnsEither
      <4> QED BY <3>2, <3>4, <4>1, <4>4 DEF TurnedAway
    <3> QED BY <3>3, <3>4
  <2> QED BY <2>2, <2>3, <2>4
<1> HIDE DEF losses, U
<1>10. CASE r.err # Nil /\ r.err \in recordFailures(record, lim) ?? headerFailures(record.headers, lim)
  BY <1>6, <1>10 DEF TurnedAway, losses, U
<1>11. CASE \E p \in decodeKafkaEvent("structured", record, JSONMediaType, headers, lim) :
           r.err = p.err /\ (p.err = Nil => r.value.event = p.value)
  BY <1>9, <1>11 DEF losses, U
<1> QED BY <1>8, <1>10, <1>11

\* The documents of a batch.
documents(events) == [i \in DOMAIN events |-> encodeJSON(events[i])]

LEMMA HTTPBatchCrossing ==
  ASSUME NEW events, IsSequence(events), \A i \in DOMAIN events : WholeEvent(events[i]),
         ClosedStrings, NEW lim,
         NEW r \in DecodeHTTP(posted(JSONBatchMediaType, Batch(documents(events))), lim)
  PROVE  /\ r.err = Nil =>
              /\ r.value = [i \in DOMAIN events |-> r.value[i]]
              /\ \A i \in DOMAIN events :
                   Arrives(events[i], Unreported(events[i], "http", "batch"),
                           jsonConversionReport(events[i]), r.value[i])
         /\ r.err # Nil =>
              \/ r.err = ErrLimitExceeded
              \/ \E i \in DOMAIN events :
                   TurnedAway(Unreported(events[i], "http", "batch"), jsonConversionReport(events[i]), r.err)
<1> DEFINE docs == documents(events)
           body == Batch(docs)
           msg == posted(JSONBatchMediaType, body)
<1>1. \A i \in DOMAIN events : Unreported(events[i], "http", "batch") <=> JSONUnreported(events[i])
  BY DEF Unreported, JSONUnreported
<1>2. /\ msg.body = body /\ DOMAIN msg.header = {}
      /\ contentTypeOf(msg) = JSONBatchMediaType /\ ~(Len(msg.contentType) > 1)
  BY PostedParts
<1>3. httpMode(JSONBatchMediaType) = "batch" /\ MediaClass(JSONBatchMediaType) \notin {"malformed", "ce-other", "ce-other+json"}
  BY ModeTypeAssumption DEF httpMode
<1>4. r \in DecodeHTTP(msg, lim) OBVIOUS
<1>5. body.form = "batch" /\ body.docs = docs
  BY DEF Batch
<1>6. /\ DOMAIN docs = DOMAIN events /\ docs = [i \in DOMAIN events |-> docs[i]]
      /\ \A i \in DOMAIN events : docs[i] = encodeJSON(events[i])
  BY DEF documents
<1> HIDE DEF msg, body, docs
<1>7. IsSequence(docs)
  BY <1>6, SameIndices
<1>8. r.err = ErrLimitExceeded \/ r \in decodeHTTPMessage("batch", msg, lim)
  BY <1>2, <1>3, <1>4, DecodeHTTPParts
<1>9. CASE r \in decodeHTTPMessage("batch", msg, lim)
  <2>1. r \in DecodeJSONBatch(body, lim)
    BY <1>2, <1>9 DEF decodeHTTPMessage
  <2>2. IsSequence(body.docs) BY <1>5, <1>7
  <2>3. /\ r.err = Nil =>
             /\ r.value = [i \in DOMAIN body.docs |-> r.value[i]]
             /\ \A i \in DOMAIN body.docs :
                  \E p \in DecodeJSON(body.docs[i], lim) : p.err = Nil /\ r.value[i] = p.value
        /\ r.err # Nil =>
             \/ r.err = ErrLimitExceeded
             \/ \E i \in DOMAIN body.docs : \E p \in DecodeJSON(body.docs[i], lim) : p.err = r.err
    BY <1>5, <2>1, <2>2, DecodeJSONBatchParts
  <2>4. ASSUME NEW i \in DOMAIN events, NEW p \in DecodeJSON(docs[i], lim)
        PROVE  /\ p.err = Nil => Arrives(events[i], JSONUnreported(events[i]),
                                         jsonConversionReport(events[i]), p.value)
               /\ p.err # Nil => TurnedAway(JSONUnreported(events[i]), jsonConversionReport(events[i]), p.err)
    <3>1. WholeEvent(events[i]) /\ p \in DecodeJSON(encodeJSON(events[i]), lim)
      BY <1>6
    <3> QED BY <3>1, JSONArrives
  <2>5. ASSUME r.err = Nil, NEW i \in DOMAIN events
        PROVE  Arrives(events[i], Unreported(events[i], "http", "batch"),
                       jsonConversionReport(events[i]), r.value[i])
    <3>1. PICK p \in DecodeJSON(docs[i], lim) : p.err = Nil /\ r.value[i] = p.value
      BY <1>5, <1>6, <2>3, <2>5
    <3>2. Arrives(events[i], JSONUnreported(events[i]), jsonConversionReport(events[i]), p.value)
      BY <2>4, <3>1
    <3> QED BY <1>1, <3>1, <3>2 DEF Arrives
  <2>6. ASSUME r.err # Nil, r.err # ErrLimitExceeded
        PROVE  \E i \in DOMAIN events :
                 TurnedAway(Unreported(events[i], "http", "batch"), jsonConversionReport(events[i]), r.err)
    <3>1. PICK i \in DOMAIN events : \E p \in DecodeJSON(docs[i], lim) : p.err = r.err
      BY <1>5, <1>6, <2>3, <2>6
    <3>2. TurnedAway(JSONUnreported(events[i]), jsonConversionReport(events[i]), r.err)
      BY <2>4, <2>6, <3>1
    <3> QED BY <1>1, <3>2 DEF TurnedAway
  <2> QED BY <1>5, <1>6, <2>3, <2>5, <2>6
<1>10. r.err = ErrLimitExceeded => r.err # Nil
  BY ErrorsAreNotNil DEF Errors
<1> QED BY <1>8, <1>9, <1>10

-----------------------------------------------------------------------------
(* Both bindings.                                                           *)

AllWhole(events) == IsSequence(events) /\ \A i \in DOMAIN events : WholeEvent(events[i])

\* The losses of one event, and of all by their index.
reported(m, e) == IF m = "binary" THEN binaryConversionReport(e) ELSE jsonConversionReport(e)

losses(m, events) ==
  UNION {{<<i, field>> : field \in reported(m, events[i])} : i \in DOMAIN events}

\* The message that carries events over a route.
Carries(b, m, events, msg) ==
  /\ b \in {"http", "kafka"}
  /\ m # "batch" => DOMAIN events = {1}
  /\ \/ b = "http" /\ m = "binary" /\ msg = encodeHTTPBinary(events[1])
     \/ b = "http" /\ m = "structured" /\ msg = posted(JSONMediaType, encodeJSON(events[1]))
     \/ b = "http" /\ m = "batch" /\ msg = posted(JSONBatchMediaType, Batch(documents(events)))
     \/ /\ b = "kafka" /\ m = "binary"
        /\ msg = [key |-> msg.key, value |-> binaryValue(events[1]),
                  headers |-> encodeKafkaBinaryHeaders(events[1])]
     \/ /\ b = "kafka" /\ m = "structured"
        /\ msg = [key |-> msg.key, value |-> encodeJSON(events[1]), headers |-> JSONHeaders]

\* The routes there are, for so many events.
Supported(b, m, events) ==
  \/ b = "http" /\ m = "batch"
  \/ m \in {"binary", "structured"} /\ Len(events) = 1

\* What an encoder that reports returns.
Reports(b, m, events, q) ==
  /\ q = [value |-> q.value, err |-> q.err]
  /\ Supported(b, m, events) => q.err = Nil
  /\ q.err = Nil => Carries(b, m, events, q.value.message)
                    /\ indexedReport(b, q.value.report) = losses(m, events)

LEMMA LossesOfOne ==
  ASSUME NEW m, NEW events, DOMAIN events = {1}
  PROVE  losses(m, events) = {<<1, field>> : field \in reported(m, events[1])}
<1> DEFINE R(i) == {<<i, field>> : field \in reported(m, events[i])}
<1>1. losses(m, events) = UNION {R(i) : i \in DOMAIN events}
  BY DEF losses
<1>2. {R(i) : i \in DOMAIN events} = {R(1)}
  <2> HIDE DEF R
  <2> QED OBVIOUS
<1>3. UNION {R(1)} = R(1)
  <2> HIDE DEF R
  <2> QED OBVIOUS
<1> QED BY <1>1, <1>2, <1>3

LEMMA HTTPReports ==
  ASSUME NEW events, AllValid(events), NEW m, NEW q \in EncodeHTTPWithReport(events, m)
  PROVE  Reports("http", m, events, q)
<1>s. ASSUME Len(events) = 1 PROVE DOMAIN events = {1} /\ Validate(events[1]) = {}
  <2>1. DOMAIN events = 1..1
    BY <1>s DEF AllValid, IsSequence
  <2>2. DOMAIN events = {1} BY <2>1
  <2> QED BY <2>2 DEF AllValid, ValidEvent
<1>i. \A fields : indexedReport("http", fields) = fields
  BY DEF indexedReport
<1>1. ASSUME q \in Returns({ErrUnsupportedMode}, Nil), ~Supported("http", m, events)
      PROVE  Reports("http", m, events, q)
  <2>1. q.err = ErrUnsupportedMode /\ q = [value |-> q.value, err |-> q.err]
    BY <1>1 DEF Returns
  <2> QED BY <1>1, <2>1, ErrorsAreNotNil DEF Reports, Errors
<1>3. CASE m = "binary" /\ Len(events) = 1
  <2> DEFINE R == {<<1, field>> : field \in binaryConversionReport(events[1])}
  <2>1. q \in Returns(Validate(events[1]), [message |-> encodeHTTPBinary(events[1]), report |-> R])
    BY <1>3 DEF EncodeHTTPWithReport
  <2>2. losses(m, events) = R
    BY <1>3, <1>s, LossesOfOne DEF reported
  <2> HIDE DEF R
  <2>3. q.err = Nil /\ q.value.message = encodeHTTPBinary(events[1]) /\ q.value.report = R
        /\ q = [value |-> q.value, err |-> q.err]
    BY <1>3, <1>s, <2>1 DEF Returns
  <2>4. Carries("http", m, events, q.value.message)
    BY <1>3, <1>s, <2>3 DEF Carries
  <2> QED BY <1>i, <2>2, <2>3, <2>4 DEF Reports
<1>4. CASE m = "structured" /\ Len(events) = 1
  <2> DEFINE R == {<<1, field>> : field \in jsonConversionReport(events[1])}
  <2>1. PICK j \in EncodeJSONWithReport(events[1]) :
          q = [j EXCEPT !.value = IF j.err # Nil THEN Nil
                 ELSE [message |-> posted(JSONMediaType, @.body),
                       report |-> {<<1, field>> : field \in @.report}]]
    BY <1>4 DEF EncodeHTTPWithReport, posted
  <2>2. j = [value |-> [body |-> encodeJSON(events[1]), report |-> jsonConversionReport(events[1])],
             err |-> Nil]
    BY <1>4, <1>s, EncodeJSONValid
  <2>3. q.err = Nil /\ q.value.message = posted(JSONMediaType, encodeJSON(events[1])) /\ q.value.report = R
        /\ q = [value |-> q.value, err |-> q.err]
    BY <2>1, <2>2
  <2>4. losses(m, events) = R
    BY <1>4, <1>s, LossesOfOne DEF reported
  <2> HIDE DEF R
  <2>5. Carries("http", m, events, q.value.message)
    BY <1>4, <1>s, <2>3 DEF Carries
  <2> QED BY <1>i, <2>3, <2>4, <2>5 DEF Reports
<1>5. CASE m = "batch"
  <2> DEFINE docs == documents(events)
             R == UNION {{<<i, field>> : field \in jsonConversionReport(events[i])} : i \in DOMAIN events}
  <2>1. PICK j \in EncodeJSONBatchWithReport(events) :
          q = [j EXCEPT !.value = IF j.err # Nil THEN Nil
                 ELSE [message |-> posted(JSONBatchMediaType, @.body), report |-> @.report]]
    BY <1>5 DEF EncodeHTTPWithReport, posted
  <2>2. UNION {Validate(events[i]) : i \in DOMAIN events} = {}
    BY DEF AllValid, ValidEvent
  <2>3. j \in Returns({}, [body |-> Batch(docs), report |-> R])
    BY <2>2 DEF EncodeJSONBatchWithReport, documents
  <2>4. losses(m, events) = R
    BY <1>5 DEF losses, reported
  <2> HIDE DEF docs, R
  <2>5. j.err = Nil /\ j.value.body = Batch(docs) /\ j.value.report = R /\ j = [value |-> j.value, err |-> j.err]
    BY <2>3 DEF Returns
  <2>6. q.err = Nil /\ q.value.message = posted(JSONBatchMediaType, Batch(docs)) /\ q.value.report = R
        /\ q = [value |-> q.value, err |-> q.err]
    BY <2>1, <2>5
  <2>7. Carries("http", m, events, q.value.message)
    BY <1>5, <2>6 DEF Carries, docs
  <2> QED BY <1>i, <2>4, <2>6, <2>7 DEF Reports
<1>6. CASE m \in {"binary", "structured"} /\ Len(events) # 1
  <2>1. q \in Returns({ErrUnsupportedMode}, Nil)
    BY <1>6 DEF EncodeHTTPWithReport
  <2> QED BY <1>1, <1>6, <2>1 DEF Supported
<1>7. CASE m \notin {"binary", "structured", "batch"}
  <2>1. q \in Returns({ErrUnsupportedMode}, Nil)
    BY <1>7 DEF EncodeHTTPWithReport
  <2> QED BY <1>1, <1>7, <2>1 DEF Supported
<1> QED BY <1>3, <1>4, <1>5, <1>6, <1>7

LEMMA KafkaReports ==
  ASSUME NEW events, AllValid(events), Len(events) = 1, NEW m, NEW k,
         NEW q \in EncodeKafkaWithReport(events[1], m, k)
  PROVE  Reports("kafka", m, events, q)
<1> DEFINE e == events[1]
<1>s. DOMAIN events = {1} /\ Validate(e) = {}
  <2>1. DOMAIN events = 1..1
    BY DEF AllValid, IsSequence
  <2>2. DOMAIN events = {1} BY <2>1
  <2> QED BY <2>2 DEF AllValid, ValidEvent
<1>i. \A fields : indexedReport("kafka", fields) = {<<1, f>> : f \in fields}
  BY DEF indexedReport
<1>l. losses(m, events) = {<<1, field>> : field \in reported(m, e)}
  BY <1>s, LossesOfOne
<1>1. CASE m = "binary"
  <2> DEFINE msg == [key |-> k, value |-> binaryValue(e), headers |-> encodeKafkaBinaryHeaders(e)]
             R == binaryConversionReport(e)
  <2>1. q \in Returns(Validate(e), [message |-> msg, report |-> R])
    BY <1>1 DEF EncodeKafkaWithReport, binaryValue
  <2>2. msg = [key |-> msg.key, value |-> binaryValue(e), headers |-> encodeKafkaBinaryHeaders(e)]
    OBVIOUS
  <2>3. R = reported(m, e) BY <1>1 DEF reported
  <2> HIDE DEF msg, R
  <2>4. q.err = Nil /\ q.value.message = msg /\ q.value.report = R /\ q = [value |-> q.value, err |-> q.err]
    BY <1>s, <2>1 DEF Returns
  <2>5. Carries("kafka", m, events, msg)
    BY <1>1, <1>s, <2>2 DEF Carries
  <2>6. Carries("kafka", m, events, q.value.message)
    BY <2>4, <2>5
  <2>7. indexedReport("kafka", q.value.report) = losses(m, events)
    BY <1>i, <1>l, <2>3, <2>4
  <2> QED BY <2>4, <2>6, <2>7 DEF Reports
<1>2. CASE m = "structured"
  <2> DEFINE msg == [key |-> k, value |-> encodeJSON(e), headers |-> JSONHeaders]
             R == jsonConversionReport(e)
  <2>1. PICK j \in EncodeJSONWithReport(e) :
          q = [j EXCEPT !.value = IF j.err # Nil THEN Nil
                 ELSE [message |-> [key |-> k, value |-> @.body, headers |-> JSONHeaders],
                       report |-> @.report]]
    BY <1>2 DEF EncodeKafkaWithReport, JSONHeaders
  <2>2. j = [value |-> [body |-> encodeJSON(e), report |-> R], err |-> Nil]
    BY <1>s, EncodeJSONValid
  <2>3. q.err = Nil /\ q.value.message = msg /\ q.value.report = R /\ q = [value |-> q.value, err |-> q.err]
    BY <2>1, <2>2
  <2>4. msg = [key |-> msg.key, value |-> encodeJSON(e), headers |-> JSONHeaders]
    OBVIOUS
  <2>5. R = reported(m, e) BY <1>2 DEF reported
  <2> HIDE DEF msg, R
  <2>6. Carries("kafka", m, events, msg)
    BY <1>2, <1>s, <2>4 DEF Carries
  <2>7. Carries("kafka", m, events, q.value.message)
    BY <2>3, <2>6
  <2>8. indexedReport("kafka", q.value.report) = losses(m, events)
    BY <1>i, <1>l, <2>3, <2>5
  <2> QED BY <2>3, <2>7, <2>8 DEF Reports
<1>3. CASE m \notin {"binary", "structured"}
  <2>1. q \in Returns({ErrUnsupportedMode}, Nil)
    BY <1>3 DEF EncodeKafkaWithReport
  <2>2. q.err = ErrUnsupportedMode /\ q = [value |-> q.value, err |-> q.err]
    BY <2>1 DEF Returns
  <2> QED BY <1>3, <2>2, ErrorsAreNotNil DEF Reports, Errors, Supported
<1> QED BY <1>1, <1>2, <1>3

\* An encoder accepts what its route supports, a strict one if nothing would be lost.
LEMMA EncodeReports ==
  ASSUME NEW b \in {"http", "kafka"}, NEW m, NEW s \in BOOLEAN, NEW events, AllValid(events),
         b = "kafka" => Len(events) = 1, NEW r \in encode(b, m, s, events)
  PROVE  /\ r = [value |-> r.value, err |-> r.err]
         /\ r.err = Nil => /\ Carries(b, m, events, r.value.message)
                           /\ indexedReport(b, r.value.report) = losses(m, events)
                           /\ s => losses(m, events) = {}
         /\ Supported(b, m, events) /\ (s => losses(m, events) = {}) => r.err = Nil
<1> DEFINE results == IF b = "http" THEN EncodeHTTPWithReport(events, m)
                      ELSE EncodeKafkaWithReport(events[1], m, KafkaPartitionKey(events[1]))
<1>1. \A q \in results : Reports(b, m, events, q)
  <2>1. CASE b = "http" BY <2>1, HTTPReports
  <2>2. CASE b = "kafka" BY <2>2, KafkaReports
  <2> QED BY <2>1, <2>2
<1>2. r \in (IF s THEN strictly(results) ELSE results)
  BY DEF encode
<1> HIDE DEF results
<1>3. CASE ~s
  <2>1. Reports(b, m, events, r) BY <1>1, <1>2, <1>3
  <2> QED BY <1>3, <2>1 DEF Reports
<1>4. CASE s
  <2>1. PICK q \in results :
          r \in (IF q.err # Nil THEN {q}
                 ELSE Returns(rejectConversionLoss(q.value.report), q.value))
    BY <1>2, <1>4 DEF strictly
  <2>2. Reports(b, m, events, q)
    BY <1>1
  <2>3. CASE q.err # Nil
    BY <2>1, <2>2, <2>3 DEF Reports
  <2>4. CASE q.err = Nil
    <3> DEFINE R == q.value.report
               F == rejectConversionLoss(R)
    <3>1. r \in Returns(F, q.value)
      BY <2>1, <2>4
    <3>2. R = {} <=> losses(m, events) = {}
      <4>1. indexedReport(b, R) = losses(m, events) BY <2>2, <2>4 DEF Reports
      <4>2. indexedReport(b, R) = {} <=> R = {} BY DEF indexedReport
      <4> QED BY <4>1, <4>2
    <3>3. F = {} <=> R = {}
      BY DEF rejectConversionLoss, When
    <3>4. Nil \notin F
      BY ErrorsAreNotNil DEF rejectConversionLoss, When, Errors
    <3> HIDE DEF F, R
    <3>5. /\ r = [value |-> r.value, err |-> r.err]
          /\ r.err = Nil => F = {} /\ r.value = q.value
          /\ r.err # Nil => F # {}
      BY <3>1, <3>4, ReturnsEither
    <3>6. /\ Carries(b, m, events, q.value.message)
          /\ indexedReport(b, q.value.report) = losses(m, events)
      BY <2>2, <2>4 DEF Reports
    <3>7. r.err = Nil => losses(m, events) = {} /\ r.value = q.value
      BY <3>2, <3>3, <3>5
    <3>8. losses(m, events) = {} => r.err = Nil
      BY <3>2, <3>3, <3>5
    <3> QED BY <1>4, <3>5, <3>6, <3>7, <3>8
  <2> QED BY <2>3, <2>4
<1> QED BY <1>3, <1>4

-----------------------------------------------------------------------------
\* What becomes of the events sent over a route, by the events and the error the
\* receiver has then.
Crossed(b, m, events, got, error) ==
  /\ error = Nil =>
       /\ got = [i \in DOMAIN events |-> got[i]]
       /\ \A i \in DOMAIN events :
            Arrives(events[i], Unreported(events[i], b, m), reported(m, events[i]), got[i])
  /\ error # Nil =>
       \/ error = ErrLimitExceeded
       \/ \E i \in DOMAIN events : TurnedAway(Unreported(events[i], b, m), reported(m, events[i]), error)

LEMMA OneCrossed ==
  ASSUME NEW b, NEW m, NEW events, DOMAIN events = {1}, NEW got, NEW error,
         LET U == Unreported(events[1], b, m)
             R == reported(m, events[1])
         IN  /\ error = Nil => \E f : got = <<f>> /\ Arrives(events[1], U, R, f)
             /\ error # Nil => TurnedAway(U, R, error)
  PROVE  Crossed(b, m, events, got, error)
<1> DEFINE U == Unreported(events[1], b, m)
           R == reported(m, events[1])
<1>1. ASSUME error = Nil
      PROVE  got = [i \in {1} |-> got[i]] /\ Arrives(events[1], U, R, got[1])
  <2>1. PICK f : got = <<f>> /\ Arrives(events[1], U, R, f)
    BY <1>1
  <2> HIDE DEF U, R
  <2>2. <<f>> = [i \in {1} |-> <<f>>[i]] /\ <<f>>[1] = f
    OBVIOUS
  <2> QED BY <2>1, <2>2
<1> QED BY <1>1 DEF Crossed

\* Whatever the route and the limits, the report tells what becomes of the events.
LEMMA CarriedOver ==
  ASSUME NEW b, NEW m, NEW events, AllWhole(events), ClosedStrings, NEW msg,
         Carries(b, m, events, msg), NEW lim, NEW d \in decode(b, msg, lim)
  PROVE  Crossed(b, m, events, d.value, d.err)
<1> DEFINE e == events[1]
<1>s. m # "batch" => DOMAIN events = {1} /\ WholeEvent(e)
  BY DEF Carries, AllWhole
<1>h. b = "http" => d \in DecodeHTTP(msg, lim)
  BY DEF decode
<1>k. ASSUME b = "kafka"
      PROVE  \E r \in DecodeKafka(msg, lim) :
                d.err = r.err /\ (r.err = Nil => d.value = <<r.value.event>>)
  <2>1. PICK r \in DecodeKafka(msg, lim) :
          d = [r EXCEPT !.value = IF r.err # Nil THEN Nil ELSE <<@.event>>]
    BY <1>k DEF decode
  <2>2. r = [value |-> r.value, err |-> r.err]
    BY DecodeKafkaResult
  <2>3. d.err = r.err /\ (r.err = Nil => d.value = <<r.value.event>>)
    BY <2>1, <2>2
  <2> QED BY <2>1, <2>3
<1>1. CASE b = "http" /\ m = "binary"
  <2>1. d \in DecodeHTTP(encodeHTTPBinary(e), lim)
    BY <1>1, <1>h DEF Carries
  <2>2. LET U == Unreported(e, "http", "binary") IN
         /\ d.err = Nil => \E f : d.value = <<f>> /\ Arrives(e, U, binaryConversionReport(e), f)
         /\ d.err # Nil => TurnedAway(U, binaryConversionReport(e), d.err)
    BY <1>1, <1>s, <2>1, HTTPBinaryCrossing
  <2>3. reported(m, e) = binaryConversionReport(e) BY <1>1 DEF reported
  <2> QED BY <1>1, <1>s, <2>2, <2>3, OneCrossed
<1>2. CASE b = "http" /\ m = "structured"
  <2>1. d \in DecodeHTTP(posted(JSONMediaType, encodeJSON(e)), lim)
    BY <1>2, <1>h DEF Carries
  <2>2. LET U == Unreported(e, "http", "structured") IN
         /\ d.err = Nil => \E f : d.value = <<f>> /\ Arrives(e, U, jsonConversionReport(e), f)
         /\ d.err # Nil => TurnedAway(U, jsonConversionReport(e), d.err)
    BY <1>2, <1>s, <2>1, HTTPStructuredCrossing
  <2>3. reported(m, e) = jsonConversionReport(e) BY <1>2 DEF reported
  <2> QED BY <1>2, <1>s, <2>2, <2>3, OneCrossed
<1>3. CASE b = "http" /\ m = "batch"
  <2>1. d \in DecodeHTTP(posted(JSONBatchMediaType, Batch(documents(events))), lim)
    BY <1>3, <1>h DEF Carries
  <2>2. /\ d.err = Nil =>
              /\ d.value = [i \in DOMAIN events |-> d.value[i]]
              /\ \A i \in DOMAIN events :
                   Arrives(events[i], Unreported(events[i], "http", "batch"),
                           jsonConversionReport(events[i]), d.value[i])
        /\ d.err # Nil =>
              \/ d.err = ErrLimitExceeded
              \/ \E i \in DOMAIN events :
                   TurnedAway(Unreported(events[i], "http", "batch"), jsonConversionReport(events[i]), d.err)
    BY <2>1, HTTPBatchCrossing DEF AllWhole
  <2>3. \A i \in DOMAIN events : reported(m, events[i]) = jsonConversionReport(events[i])
    BY <1>3 DEF reported
  <2> QED BY <1>3, <2>2, <2>3 DEF Crossed
<1>4. CASE b = "kafka" /\ m = "binary"
  <2>1. PICK r \in DecodeKafka(msg, lim) :
          d.err = r.err /\ (r.err = Nil => d.value = <<r.value.event>>)
    BY <1>4, <1>k
  <2>2. msg.value = binaryValue(e) /\ msg.headers = encodeKafkaBinaryHeaders(e)
    BY <1>4 DEF Carries
  <2>3. LET U == Unreported(e, "kafka", "binary") IN
         /\ r.err = Nil => Arrives(e, U, binaryConversionReport(e), r.value.event)
         /\ r.err # Nil => TurnedAway(U, binaryConversionReport(e), r.err)
    BY <1>4, <1>s, <2>2, KafkaBinaryCrossing
  <2>4. reported(m, e) = binaryConversionReport(e) BY <1>4 DEF reported
  <2> QED BY <1>4, <1>s, <2>1, <2>3, <2>4, OneCrossed
<1>5. CASE b = "kafka" /\ m = "structured"
  <2>1. PICK r \in DecodeKafka(msg, lim) :
          d.err = r.err /\ (r.err = Nil => d.value = <<r.value.event>>)
    BY <1>5, <1>k
  <2>2. msg.value = encodeJSON(e) /\ msg.headers = JSONHeaders
    BY <1>5 DEF Carries
  <2>3. LET U == Unreported(e, "kafka", "structured") IN
         /\ r.err = Nil => Arrives(e, U, jsonConversionReport(e), r.value.event)
         /\ r.err # Nil => TurnedAway(U, jsonConversionReport(e), r.err)
    BY <1>5, <1>s, <2>2, KafkaStructuredCrossing
  <2>4. reported(m, e) = jsonConversionReport(e) BY <1>5 DEF reported
  <2> QED BY <1>5, <1>s, <2>1, <2>3, <2>4, OneCrossed
<1> QED BY <1>1, <1>2, <1>3, <1>4, <1>5 DEF Carries

-----------------------------------------------------------------------------
(* What is decoded: strings again, in a shape that its route keeps.         *)

\* A document of strings; its members are JSON.
DocOfStrings(doc) ==
  /\ doc = Doc(doc.members, doc.duplicate)
  /\ \A n \in DOMAIN doc.members :
       n \in Strings \cup reservedAttributeNames /\ doc.members[n] \in Strings /\ ValidJSON(doc.members[n])
  /\ IsFiniteSet(DOMAIN doc.members)

LEMMA DecodedContext ==
  ASSUME NEW doc, NEW lim, decodeContext(doc, lim) = {}
  PROVE  /\ \A n \in {"id", "source", "type", "datacontenttype", "dataschema", "subject", "time"} :
              hasMember(doc, n) => Unquote(doc.members[n]) # Nil
         /\ hasMember(doc, "time") => ParseTime(memberText(doc, "time")) # Nil
<1>1. \A n, required : stringMember(doc, n, required, lim) = {} /\ hasMember(doc, n)
                         => Unquote(doc.members[n]) # Nil
  BY DEF stringMember, When, ??
<1>2. /\ stringMember(doc, "id", TRUE, lim) = {}
      /\ stringMember(doc, "source", TRUE, lim) = {}
      /\ stringMember(doc, "type", TRUE, lim) = {}
      /\ stringMember(doc, "datacontenttype", FALSE, lim) = {}
      /\ stringMember(doc, "dataschema", FALSE, lim) = {}
      /\ stringMember(doc, "subject", FALSE, lim) = {}
      /\ stringMember(doc, "time", FALSE, lim) = {}
      /\ When(hasMember(doc, "time") /\ ParseTime(memberText(doc, "time")) = Nil, ErrInvalidEvent) = {}
  BY DEF decodeContext, ??
<1>3. hasMember(doc, "time") => ParseTime(memberText(doc, "time")) # Nil
  BY <1>2 DEF When
<1> QED BY <1>1, <1>2, <1>3

\* The text of a member that was admitted.
LEMMA MemberTexts ==
  ASSUME NEW doc, DocOfStrings(doc), ClosedStrings, NEW n, hasMember(doc, n) => Unquote(doc.members[n]) # Nil
  PROVE  memberText(doc, n) \in Strings
<1>1. CASE hasMember(doc, n)
  <2>1. doc.members[n] \in Strings
    BY <1>1 DEF hasMember, DocOfStrings
  <2>2. Unquote(doc.members[n]) \in Strings
    BY <1>1, <2>1 DEF ClosedStrings
  <2> QED BY <1>1, <2>2 DEF memberText
<1>2. CASE ~hasMember(doc, n)
  <2>1. memberText(doc, n) = "" BY <1>2, Zenon DEF memberText
  <2>2. "" \in Strings BY DEF ClosedStrings
  <2> QED BY <2>1, <2>2
<1> QED BY <1>1, <1>2

\* An extension read from a document is a string, a boolean or an integer.
LEMMA DecodedExtension ==
  ASSUME NEW raw \in Strings, ValidJSON(raw), ClosedStrings,
         NEW r \in decodeJSONAttribute(raw), r.err = Nil
  PROVE  /\ r.value = Attribute(r.value.kind, r.value.text) /\ r.value.text \in Strings
         /\ r.value.kind \in JSONKinds
<1>n. Nil # ErrInvalidAttribute
  BY ErrorsAreNotNil DEF Errors
<1>a. \A kind, text : Attribute(kind, text).kind = kind /\ Attribute(kind, text).text = text
  BY DEF Attribute
<1>1. CASE JSONType(raw) = "string"
  <2>1. Unquote(raw) \in Strings
    BY <1>1, JSONTypeAssumption DEF ClosedStrings
  <2>2. r \in Returns(When(~ValidCloudString(Unquote(raw)), ErrInvalidAttribute), Attribute("string", Unquote(raw)))
    BY <1>1 DEF decodeJSONAttribute
  <2>3. r.value = Attribute("string", Unquote(raw))
    BY <1>n, <2>2, ReturnsEither DEF When
  <2>4. r.value.kind = "string" /\ r.value.text = Unquote(raw)
    BY <2>3 DEF Attribute
  <2> QED BY <2>1, <2>3, <2>4 DEF JSONKinds
<1>2. CASE JSONType(raw) = "bool"
  <2>1. r \in Returns({}, Attribute("boolean", raw))
    BY <1>2 DEF decodeJSONAttribute
  <2>2. r.value = Attribute("boolean", raw)
    BY <2>1 DEF Returns
  <2>3. r.value.kind = "boolean" /\ r.value.text = raw
    BY <2>2 DEF Attribute
  <2> QED BY <2>2, <2>3 DEF JSONKinds
<1>3. CASE JSONType(raw) = "number"
  <2>1. r \in Returns(When(Integer32(raw) = Nil, ErrInvalidAttribute), Attribute("integer", Integer32(raw)))
    BY <1>3 DEF decodeJSONAttribute
  <2>2. Integer32(raw) # Nil /\ r.value = Attribute("integer", Integer32(raw))
    BY <1>n, <2>1, ReturnsEither DEF When
  <2>3. r.value.kind = "integer" /\ r.value.text = Integer32(raw)
    BY <2>2 DEF Attribute
  <2>4. Integer32(raw) \in Strings
    BY <2>2 DEF ClosedStrings
  <2> QED BY <2>2, <2>3, <2>4 DEF JSONKinds
<1>4. CASE JSONType(raw) \notin {"string", "bool", "number"}
  <2>1. r \in Returns({ErrInvalidAttribute}, Nil)
    BY <1>4 DEF decodeJSONAttribute
  <2> QED BY <1>n, <2>1 DEF Returns
<1> QED BY <1>1, <1>2, <1>3, <1>4

LEMMA DecodedExtensions ==
  ASSUME NEW doc, DocOfStrings(doc), ClosedStrings, NEW lim,
         \A n \in extensionMembers(doc) : extensionFailure(doc, n, lim) = {}
  PROVE  LET ext == decodedExtensions(doc) IN
         /\ ext = [n \in DOMAIN ext |-> Attribute(ext[n].kind, ext[n].text)]
         /\ \A n \in DOMAIN ext : n \in Strings /\ ext[n].text \in Strings /\ ext[n].kind \in JSONKinds
         /\ IsFiniteSet(DOMAIN ext)
         /\ DOMAIN ext \subseteq DOMAIN doc.members \ reservedAttributeNames
<1> DEFINE ext == decodedExtensions(doc)
           some(n) == CHOOSE r \in decodeJSONAttribute(doc.members[n]) : TRUE
           D == {m \in extensionMembers(doc) : hasMember(doc, m)}
<1>1. DOMAIN ext = D /\ ext = [n \in DOMAIN ext |-> ext[n]] /\ \A n \in D : ext[n] = some(n).value
  BY DEF decodedExtensions
<1>2. D \subseteq DOMAIN doc.members \ reservedAttributeNames
  BY DEF extensionMembers
<1>3. IsFiniteSet(D)
  BY <1>2, FS_Subset DEF DocOfStrings
<1>4. ASSUME NEW n \in D
      PROVE  /\ ext[n] = Attribute(ext[n].kind, ext[n].text)
             /\ n \in Strings /\ ext[n].text \in Strings /\ ext[n].kind \in JSONKinds
  <2> DEFINE raw == doc.members[n]
             r == some(n)
  <2>1. n \in Strings /\ raw \in Strings /\ ValidJSON(raw)
    BY <1>2 DEF DocOfStrings
  <2>2. decodeJSONAttribute(raw) # {}
    BY ReturnsSomething DEF decodeJSONAttribute
  <2>3. r \in decodeJSONAttribute(raw)
    BY <2>2
  <2>4. r.err = Nil
    <3>1. hasMember(doc, n) /\ extensionFailure(doc, n, lim) = {} OBVIOUS
    <3>2. extensionFailure(doc, n, lim) = {} /\ hasMember(doc, n) => When(some(n).err # Nil, ErrInvalidEvent) = {}
      BY DEF extensionFailure, ??
    <3>3. When(some(n).err # Nil, ErrInvalidEvent) = {} BY <3>1, <3>2
    <3> HIDE DEF some
    <3> QED BY <3>3 DEF When
  <2>5. ext[n] = r.value BY <1>1
  <2> HIDE DEF r, raw
  <2>6. /\ r.value = Attribute(r.value.kind, r.value.text) /\ r.value.text \in Strings
        /\ r.value.kind \in JSONKinds
    BY <2>1, <2>3, <2>4, DecodedExtension
  <2> QED BY <2>1, <2>5, <2>6
<1> HIDE DEF ext, D
<1>5. ext = [n \in DOMAIN ext |-> Attribute(ext[n].kind, ext[n].text)]
  BY <1>1, <1>4
<1> QED BY <1>1, <1>2, <1>3, <1>4, <1>5 DEF ext

\* Data as a document gives it back: of the kind its content type selects, and trimmed.
ReadData(data, ct) ==
  /\ data = [kind |-> data.kind, bytes |-> data.bytes] /\ data.bytes \in Strings
  /\ data.kind = "absent" => data.bytes = ""
  /\ data.kind = "json" => isJSONMediaType(ct) /\ TrimSpace(data.bytes) = data.bytes
  /\ data.kind = "text" => ~isJSONMediaType(ct)

LEMMA DecodedData ==
  ASSUME NEW doc, DocOfStrings(doc), ClosedStrings, NEW ct, NEW lim,
         NEW r \in decodeJSONData(doc, ct, lim), r.err = Nil
  PROVE  ReadData(r.value, ct)
<1> DEFINE limit  == lim.MaxDataBytes
           base64 == Unquote(doc.members["data_base64"])
           raw    == TrimSpace(doc.members["data"])
           text   == IF JSONType(raw) = "null" THEN "" ELSE Unquote(raw)
           textFailures ==
                When(exceedsJSONEncodedStringLimit(Size(raw), limit), ErrLimitExceeded)
             ?? When(text = Nil, ErrInvalidEvent)
             ?? When(Size(text) > limit, ErrLimitExceeded)
           base64Failures ==
                When(~hasMember(doc, "data_base64") \/ base64 = Nil, ErrInvalidEvent)
             ?? When(limit <= 0 \/ Base64Length(base64) > limit, ErrLimitExceeded)
             ?? When(Unbase64(base64) = Nil \/ Base64(Unbase64(base64)) # base64, ErrInvalidEvent)
<1>n. Nil # ErrInvalidEvent /\ Nil # ErrLimitExceeded
  BY ErrorsAreNotNil DEF Errors
<1>1. r \in (IF {"data", "data_base64"} \subseteq DOMAIN doc.members THEN Returns({ErrInvalidEvent}, Nil)
             ELSE IF "data_base64" \in DOMAIN doc.members
             THEN Returns(base64Failures, NewBinaryData(Unbase64(base64)))
             ELSE IF "data" \notin DOMAIN doc.members THEN Returns({}, NoData)
             ELSE IF isJSONMediaType(ct)
             THEN IF limit <= 0 \/ Size(raw) > limit THEN Returns({ErrLimitExceeded}, Nil)
                  ELSE NewJSONData(raw)
             ELSE IF textFailures # {} THEN Returns(textFailures, Nil)
             ELSE NewTextData(text))
  BY DEF decodeJSONData
<1>2. base64Failures = {} => base64 # Nil /\ Unbase64(base64) # Nil
  BY DEF ??, When
<1>3. textFailures = {} => text # Nil
  BY DEF ??, When
<1>4. Nil \notin base64Failures /\ Nil \notin textFailures
  BY <1>n DEF ??, When
<1>5. \A n \in DOMAIN doc.members : doc.members[n] \in Strings
  BY DEF DocOfStrings
<1>6. "data_base64" \in DOMAIN doc.members /\ base64 # Nil /\ Unbase64(base64) # Nil => Unbase64(base64) \in Strings
  BY <1>5 DEF ClosedStrings
<1>7. "data" \in DOMAIN doc.members => raw \in Strings /\ TrimSpace(raw) = raw
  BY <1>5, StringAssumption DEF ClosedStrings
<1>8. "data" \in DOMAIN doc.members /\ text # Nil => text \in Strings
  <2>1. "" \in Strings BY DEF ClosedStrings
  <2>2. \A s \in Strings : Unquote(s) # Nil => Unquote(s) \in Strings BY DEF ClosedStrings
  <2>3. text = "" \/ text = Unquote(raw) BY Zenon
  <2> HIDE DEF text, raw
  <2> QED BY <1>7, <2>1, <2>2, <2>3
<1> HIDE DEF limit, base64, raw, text, textFailures, base64Failures
<1>9. CASE {"data", "data_base64"} \subseteq DOMAIN doc.members
  <2>1. r \in Returns({ErrInvalidEvent}, Nil) BY <1>1, <1>9
  <2> QED BY <1>n, <2>1 DEF Returns
<1>10. CASE "data_base64" \in DOMAIN doc.members /\ "data" \notin DOMAIN doc.members
  <2>1. r \in Returns(base64Failures, NewBinaryData(Unbase64(base64))) BY <1>1, <1>10
  <2>2. base64Failures = {} /\ r.value = NewBinaryData(Unbase64(base64))
    BY <1>4, <2>1, ReturnsEither
  <2>3. r.value = [kind |-> "binary", bytes |-> Unbase64(base64)]
    BY <2>2 DEF NewBinaryData
  <2> QED BY <1>2, <1>6, <1>10, <2>2, <2>3 DEF ReadData
<1>11. CASE "data_base64" \notin DOMAIN doc.members /\ "data" \notin DOMAIN doc.members
  <2>1. r \in Returns({}, NoData) BY <1>1, <1>11
  <2>2. r.value = NoData
    BY <2>1 DEF Returns
  <2>3. NoData = [kind |-> NoData.kind, bytes |-> NoData.bytes]
    BY DEF NoData
  <2>4. NoData.kind = "absent" /\ NoData.bytes = ""
    BY DEF NoData
  <2>5. "" \in Strings
    BY DEF ClosedStrings
  <2> QED BY <2>2, <2>3, <2>4, <2>5 DEF ReadData
<1>12. CASE "data_base64" \notin DOMAIN doc.members /\ "data" \in DOMAIN doc.members /\ isJSONMediaType(ct)
  <2>1. r \in (IF limit <= 0 \/ Size(raw) > limit THEN Returns({ErrLimitExceeded}, Nil) ELSE NewJSONData(raw))
    BY <1>1, <1>12
  <2>2. r \notin Returns({ErrLimitExceeded}, Nil)
    BY <1>n DEF Returns
  <2>3. r.value = [kind |-> "json", bytes |-> raw]
    BY <2>1, <2>2, NewData
  <2> QED BY <1>7, <1>12, <2>3 DEF ReadData
<1>13. CASE "data_base64" \notin DOMAIN doc.members /\ "data" \in DOMAIN doc.members /\ ~isJSONMediaType(ct)
  <2>1. r \in (IF textFailures # {} THEN Returns(textFailures, Nil) ELSE NewTextData(text))
    BY <1>1, <1>13
  <2>2. textFailures # {} => r \notin Returns(textFailures, Nil)
    BY <1>4, ReturnsEither
  <2>3. textFailures = {} /\ r.value = [kind |-> "text", bytes |-> text]
    BY <2>1, <2>2, NewData
  <2> QED BY <1>3, <1>8, <1>13, <2>3 DEF ReadData
<1> QED BY <1>9, <1>10, <1>11, <1>12, <1>13

\* The attributes of an event of strings.
AttributesOfStrings(a) ==
  /\ a.id \in Strings /\ a.source \in Strings /\ a.type \in Strings
  /\ a.dataContentType \in Strings /\ a.dataSchema \in Strings /\ a.subject \in Strings
  /\ a.time \in Strings
  /\ a.time # "" => ValidUTF8(a.time) /\ ParseTime(a.time) \in {Nil, a.time}
  /\ a.extensions = [n \in DOMAIN a.extensions |->
                       Attribute(a.extensions[n].kind, a.extensions[n].text)]
  /\ \A n \in DOMAIN a.extensions : n \in Strings /\ a.extensions[n].text \in Strings
  /\ IsFiniteSet(DOMAIN a.extensions)

DataOfStrings(data) ==
  /\ data = [kind |-> data.kind, bytes |-> data.bytes] /\ data.bytes \in Strings
  /\ data.kind = "absent" => data.bytes = ""

LEMMA MadeOfStrings ==
  ASSUME NEW a, NEW data, AttributesOfStrings(a), DataOfStrings(data)
  PROVE  EventOfStrings(withData(a, data))
<1> DEFINE f == withData(a, data)
<1>1. /\ f.id = a.id /\ f.source = a.source /\ f.type = a.type
      /\ f.dataContentType = a.dataContentType /\ f.dataSchema = a.dataSchema /\ f.subject = a.subject
      /\ f.time = a.time /\ f.extensions = a.extensions /\ f.data = data
  BY DEF withData
<1> HIDE DEF f
<1> QED BY <1>1 DEF AttributesOfStrings, DataOfStrings, EventOfStrings, f

\* A time that was parsed is canonical.
LEMMA ParsedTime ==
  ASSUME NEW s \in Strings, ParseTime(s) # Nil, ClosedStrings
  PROVE  LET t == ParseTime(s) IN
         t \in Strings /\ ValidUTF8(t) /\ ParseTime(t) \in {Nil, t}
<1>1. ParseTime(s) \in Strings BY DEF ClosedStrings
<1>2. ValidCloudString(ParseTime(s)) /\ ParseTime(ParseTime(s)) \in {Nil, ParseTime(s)}
  BY StringAssumption
<1>3. ValidUTF8(ParseTime(s)) BY <1>1, <1>2, StringAssumption
<1> QED BY <1>1, <1>2, <1>3

\* What a document gives is made of strings, and JSON would carry it without loss.
LEMMA DecodedJSON ==
  ASSUME NEW body, NEW doc, doc = asDocument(body), DocOfStrings(doc), ClosedStrings, NEW lim,
         NEW r \in DecodeJSON(body, lim), r.err = Nil
  PROVE  EventOfStrings(r.value) /\ jsonConversionReport(r.value) = {}
<1> DEFINE a == jsonAttributes(doc)
           ct == memberText(doc, "datacontenttype")
           ext == decodedExtensions(doc)
<1>1. /\ decodeContext(doc, lim) = {}
      /\ \A n \in extensionMembers(doc) : extensionFailure(doc, n, lim) = {}
      /\ \E q \in decodeJSONData(doc, ct, lim) : q.err = Nil /\ r.value = withData(a, q.value)
  BY DecodeJSONStages
<1>2. PICK q \in decodeJSONData(doc, ct, lim) : q.err = Nil /\ r.value = withData(a, q.value)
  BY <1>1
<1>3. ReadData(q.value, ct)
  BY <1>2, DecodedData
<1>4. /\ \A n \in {"id", "source", "type", "datacontenttype", "dataschema", "subject", "time"} :
           hasMember(doc, n) => Unquote(doc.members[n]) # Nil
      /\ hasMember(doc, "time") => ParseTime(memberText(doc, "time")) # Nil
  BY <1>1, DecodedContext
<1>5. \A n \in {"id", "source", "type", "datacontenttype", "dataschema", "subject", "time"} :
         memberText(doc, n) \in Strings
  BY <1>4, MemberTexts
<1>6. /\ ext = [n \in DOMAIN ext |-> Attribute(ext[n].kind, ext[n].text)]
      /\ \A n \in DOMAIN ext : n \in Strings /\ ext[n].text \in Strings /\ ext[n].kind \in JSONKinds
      /\ IsFiniteSet(DOMAIN ext)
  BY <1>1, DecodedExtensions
<1>7. /\ a.id = memberText(doc, "id") /\ a.source = memberText(doc, "source") /\ a.type = memberText(doc, "type")
      /\ a.dataContentType = ct /\ a.dataSchema = memberText(doc, "dataschema")
      /\ a.subject = memberText(doc, "subject") /\ a.extensions = ext
      /\ a.time = IF hasMember(doc, "time") THEN ParseTime(memberText(doc, "time")) ELSE ""
  BY DEF jsonAttributes, Attributes
<1> HIDE DEF a, ct, ext
<1>8. a.time \in Strings /\ (a.time # "" => ValidUTF8(a.time) /\ ParseTime(a.time) \in {Nil, a.time})
  <2>1. CASE hasMember(doc, "time")
    <3>1. a.time = ParseTime(memberText(doc, "time")) BY <1>7, <2>1
    <3>2. memberText(doc, "time") \in Strings /\ ParseTime(memberText(doc, "time")) # Nil
      BY <1>4, <1>5, <2>1
    <3> QED BY <3>1, <3>2, ParsedTime
  <2>2. CASE ~hasMember(doc, "time")
    <3>1. a.time = "" BY <1>7, <2>2, Zenon
    <3>2. "" \in Strings BY DEF ClosedStrings
    <3> QED BY <3>1, <3>2
  <2> QED BY <2>1, <2>2
<1>9. AttributesOfStrings(a)
  <2>1. /\ a.id \in Strings /\ a.source \in Strings /\ a.type \in Strings
        /\ a.dataContentType \in Strings /\ a.dataSchema \in Strings /\ a.subject \in Strings
    BY <1>5, <1>7 DEF ct
  <2> QED BY <1>6, <1>7, <1>8, <2>1 DEF AttributesOfStrings
<1>10. EventOfStrings(r.value)
  <2>1. DataOfStrings(q.value) BY <1>3 DEF ReadData, DataOfStrings
  <2> QED BY <1>2, <1>9, <2>1, MadeOfStrings
<1>11. r.value.data = q.value /\ r.value.dataContentType = ct /\ r.value.extensions = ext
  <2>1. \A x, y : withData(x, y).data = y /\ withData(x, y).dataContentType = x.dataContentType
                 /\ withData(x, y).extensions = x.extensions
    BY DEF withData
  <2>2. a.dataContentType = ct /\ a.extensions = ext BY <1>7, Zenon
  <2> QED BY <1>2, <2>1, <2>2
<1>12. jsonConversionReport(r.value) = {}
  <2> DEFINE f == r.value
  <2>1. lostExtensions(f, {"string", "boolean", "integer"}) = {}
    BY <1>6, <1>11 DEF lostExtensions, JSONKinds
  <2>2. f.data.kind = "json" => isJSONMediaType(f.dataContentType) /\ TrimSpace(f.data.bytes) = f.data.bytes
    BY <1>3, <1>11 DEF ReadData
  <2>3. f.data.kind = "text" => ~isJSONMediaType(f.dataContentType)
    BY <1>3, <1>11 DEF ReadData
  <2>4. f.data.kind = "text" => f.dataContentType # ""
    BY <2>3, ImplicitTypeAssumption DEF isJSONMediaType
  <2> HIDE DEF f
  <2> QED BY <2>1, <2>2, <2>3, <2>4 DEF jsonConversionReport, When, f
<1> QED BY <1>10, <1>12

\* Context strings as a binary message gives them.
ContextOfStrings(c) ==
  /\ \A n \in DOMAIN c : n \in Strings \cup reservedAttributeNames /\ c[n] \in Strings
  /\ IsFiniteSet(DOMAIN c)

\* The attributes they make are strings, and every extension has type string.
LEMMA DecodedAttributes ==
  ASSUME NEW c, ContextOfStrings(c), NEW ct \in Strings, contextFailures(c) = {}, ClosedStrings
  PROVE  LET a == AttributesFrom(c, ct) IN
         /\ AttributesOfStrings(a) /\ a.dataContentType = ct
         /\ \A n \in DOMAIN a.extensions : a.extensions[n].kind = "string"
<1> DEFINE a == AttributesFrom(c, ct)
           get(n) == IF n \in DOMAIN c THEN c[n] ELSE ""
           E == DOMAIN c \ reservedAttributeNames
           ext == [n \in E |-> Attribute("string", c[n])]
           time == IF "time" \in DOMAIN c THEN ParseTime(c["time"]) ELSE ""
<1>1. a = Attributes(get("id"), get("source"), get("type"), ct, get("dataschema"), get("subject"), time, ext)
  BY DEF AttributesFrom
<1>2. \A n : get(n) \in Strings
  <2>1. "" \in Strings BY DEF ClosedStrings
  <2> QED BY <2>1 DEF ContextOfStrings
<1>3. time \in Strings /\ (time # "" => ValidUTF8(time) /\ ParseTime(time) \in {Nil, time})
  <2>1. CASE "time" \in DOMAIN c
    <3>1. c["time"] \in Strings BY <2>1 DEF ContextOfStrings
    <3>2. When("time" \in DOMAIN c /\ ParseTime(c["time"]) = Nil, ErrInvalidEvent) = {}
      BY DEF contextFailures, ??
    <3>3. ParseTime(c["time"]) # Nil BY <2>1, <3>2 DEF When
    <3>4. time = ParseTime(c["time"]) BY <2>1
    <3> HIDE DEF time
    <3> QED BY <3>1, <3>3, <3>4, ParsedTime
  <2>2. CASE "time" \notin DOMAIN c
    <3>1. time = "" BY <2>2, Zenon
    <3>2. "" \in Strings BY DEF ClosedStrings
    <3> HIDE DEF time
    <3> QED BY <3>1, <3>2
  <2> QED BY <2>1, <2>2
<1>4. /\ DOMAIN ext = E /\ IsFiniteSet(E)
      /\ \A n \in E : n \in Strings /\ c[n] \in Strings /\ ext[n] = Attribute("string", c[n])
  <2>1. IsFiniteSet(E)
    BY FS_Subset DEF ContextOfStrings
  <2> QED BY <2>1 DEF ContextOfStrings
<1>5. \A k, t : Attribute(k, t).kind = k /\ Attribute(k, t).text = t
  BY DEF Attribute
<1>6. ext = [n \in DOMAIN ext |-> ext[n]]
  OBVIOUS
<1> HIDE DEF a, get, ext, time, E
<1>7. /\ a.id = get("id") /\ a.source = get("source") /\ a.type = get("type")
      /\ a.dataContentType = ct /\ a.dataSchema = get("dataschema")
      /\ a.subject = get("subject") /\ a.time = time /\ a.extensions = ext
  BY <1>1 DEF Attributes
<1>8. \A n \in E : ext[n].kind = "string" /\ ext[n].text = c[n]
  BY <1>4, <1>5
<1>9. ext = [n \in DOMAIN ext |-> Attribute(ext[n].kind, ext[n].text)]
  BY <1>4, <1>6, <1>8
<1>10. AttributesOfStrings(a)
  <2>1. /\ a.id \in Strings /\ a.source \in Strings /\ a.type \in Strings
        /\ a.dataContentType \in Strings /\ a.dataSchema \in Strings /\ a.subject \in Strings
    BY <1>2, <1>7
  <2>2. a.time \in Strings /\ (a.time # "" => ValidUTF8(a.time) /\ ParseTime(a.time) \in {Nil, a.time})
    BY <1>3, <1>7
  <2>3. /\ a.extensions = [n \in DOMAIN a.extensions |-> Attribute(a.extensions[n].kind, a.extensions[n].text)]
        /\ \A n \in DOMAIN a.extensions : n \in Strings /\ a.extensions[n].text \in Strings
        /\ IsFiniteSet(DOMAIN a.extensions)
    BY <1>4, <1>7, <1>8, <1>9
  <2> QED BY <2>1, <2>2, <2>3 DEF AttributesOfStrings
<1> QED BY <1>4, <1>7, <1>8, <1>10 DEF a

\* What a binary message gives is made of strings, and binary mode would carry it
\* without loss where its data has a content type.
LEMMA DecodedBinary ==
  ASSUME NEW c, ContextOfStrings(c), NEW ct \in Strings, contextFailures(c) = {}, ClosedStrings,
         NEW data, DataOfStrings(data),
         present(data) => ct # "" /\ dataKindMatchesContentType(data.kind, ct)
  PROVE  LET f == withData(AttributesFrom(c, ct), data) IN
         EventOfStrings(f) /\ binaryConversionReport(f) = {}
<1> DEFINE a == AttributesFrom(c, ct)
           f == withData(a, data)
<1>1. /\ AttributesOfStrings(a) /\ a.dataContentType = ct
      /\ \A n \in DOMAIN a.extensions : a.extensions[n].kind = "string"
  BY DecodedAttributes
<1> HIDE DEF a
<1>2. EventOfStrings(f)
  BY <1>1, MadeOfStrings
<1>3. f.data = data /\ f.dataContentType = a.dataContentType /\ f.extensions = a.extensions
  BY DEF withData
<1> HIDE DEF f
<1>4. lostExtensions(f, {"string"}) = {}
  BY <1>1, <1>3 DEF lostExtensions
<1>5. binaryConversionReport(f) = {}
  BY <1>1, <1>3, <1>4 DEF binaryConversionReport, When
<1> QED BY <1>2, <1>5 DEF f, a

\* Data of the kind that its content type selects, or none.
LEMMA SelectedData ==
  ASSUME NEW ct, NEW body \in Strings, NEW q \in dataOf(ct, body), q.err = Nil
  PROVE  DataOfStrings(q.value) /\ dataKindMatchesContentType(q.value.kind, ct)
<1>1. /\ q.value = [kind |-> q.value.kind, bytes |-> body]
      /\ q.value.kind \in {"json", "text", "binary"}
      /\ dataKindMatchesContentType(q.value.kind, ct)
  BY DataOfMatches
<1> DEFINE v == q.value
<1>2. v = [kind |-> v.kind, bytes |-> body] /\ v.kind # "absent"
  BY <1>1
<1> HIDE DEF v
<1>3. v.bytes = body
  BY <1>2
<1> QED BY <1>1, <1>2, <1>3 DEF DataOfStrings, v

LEMMA AbsentData ==
  ASSUME ClosedStrings, NEW q \in Returns({}, NoData)
  PROVE  DataOfStrings(q.value) /\ ~present(q.value)
<1>1. q.value = NoData
  BY DEF Returns
<1>2. NoData.kind = "absent" /\ NoData.bytes = "" /\ NoData = [kind |-> NoData.kind, bytes |-> NoData.bytes]
  BY DEF NoData
<1>3. "" \in Strings
  BY DEF ClosedStrings
<1> QED BY <1>1, <1>2, <1>3 DEF DataOfStrings, present

\* The header of an HTTP message: names and values are strings.
HeaderOfStrings(header) ==
  /\ \A k \in DOMAIN header : k[2] \in Strings \cup reservedAttributeNames /\ header[k] \in Seq(Strings)
  /\ IsFiniteSet(DOMAIN header)

LEMMA DecodedHeaderStrings ==
  ASSUME NEW header, HeaderOfStrings(header), NEW lim, ClosedStrings,
         \A k \in DOMAIN header : binaryHeaderFailure(k, header[k], lim) = {}
  PROVE  ContextOfStrings(decodedHeader(header))
<1> DEFINE c == decodedHeader(header)
           N == headerNames(header)
           key(n) == CHOOSE k \in DOMAIN header : k[2] = n
<1>1. DOMAIN c = N /\ \A n \in N : c[n] = Unescape(header[key(n)][1])
  BY DEF decodedHeader
<1>2. \A n \in N : key(n) \in DOMAIN header /\ key(n)[2] = n
  BY DEF headerNames
<1>3. ASSUME NEW k \in DOMAIN header
      PROVE  header[k][1] \in Strings /\ Unescape(header[k][1]) \in Strings
  <2>1. Len(header[k]) = 1 /\ Unescape(header[k][1]) # Nil
    BY DEF binaryHeaderFailure, When, ??
  <2>2. header[k][1] \in Strings
    BY <2>1 DEF HeaderOfStrings
  <2> QED BY <2>1, <2>2 DEF ClosedStrings
<1>4. IsFiniteSet(N)
  <2> DEFINE name == [k \in DOMAIN header |-> k[2]]
             T == {name[k] : k \in DOMAIN header}
  <2>1. IsFiniteSet(T)
    <3> HIDE DEF name
    <3> QED BY FiniteImage DEF HeaderOfStrings
  <2>2. N = T BY DEF headerNames
  <2> QED BY <2>1, <2>2
<1> HIDE DEF c, key
<1>5. \A n \in N : n \in Strings \cup reservedAttributeNames /\ c[n] \in Strings
  BY <1>1, <1>2, <1>3 DEF HeaderOfStrings
<1> QED BY <1>1, <1>4, <1>5 DEF ContextOfStrings, c

HTTPAdmitted(header, ct, body, lim, f) ==
  /\ \A k \in DOMAIN header : binaryHeaderFailure(k, header[k], lim) = {}
  /\ contextFailures(decodedHeader(header)) = {}
  /\ \E q \in httpData(ct, body) :
       q.err = Nil /\ f = withData(AttributesFrom(decodedHeader(header), ct), q.value)

LEMMA HTTPBinaryAdmitted ==
  ASSUME NEW header, NEW ct, NEW body, NEW lim, NEW r \in decodeHTTPBinary(header, ct, body, lim), r.err = Nil
  PROVE  HTTPAdmitted(header, ct, body, lim, r.value)
  BY DecodeHTTPBinaryParts DEF HTTPAdmitted

LEMMA DecodedHTTPBinary ==
  ASSUME NEW header, HeaderOfStrings(header), NEW ct \in Strings, NEW body \in Strings, ct = "" => body = "",
         NEW lim, ClosedStrings, NEW r \in decodeHTTPBinary(header, ct, body, lim), r.err = Nil
  PROVE  EventOfStrings(r.value) /\ binaryConversionReport(r.value) = {}
<1> DEFINE c == decodedHeader(header)
<1>1. /\ \A k \in DOMAIN header : binaryHeaderFailure(k, header[k], lim) = {}
      /\ contextFailures(c) = {}
      /\ \E q \in httpData(ct, body) : q.err = Nil /\ r.value = withData(AttributesFrom(c, ct), q.value)
  <2>1. HTTPAdmitted(header, ct, body, lim, r.value)
    BY HTTPBinaryAdmitted
  <2> QED BY <2>1, Zenon DEF HTTPAdmitted
<1>2. PICK q \in httpData(ct, body) : q.err = Nil /\ r.value = withData(AttributesFrom(c, ct), q.value)
  BY <1>1
<1>3. ContextOfStrings(c)
  BY <1>1, DecodedHeaderStrings
<1>4. DataOfStrings(q.value) /\ (present(q.value) => ct # "" /\ dataKindMatchesContentType(q.value.kind, ct))
  <2>1. CASE ct = ""
    <3>1. q \in Returns({}, NoData) BY <1>2, <2>1 DEF httpData
    <3> QED BY <3>1, AbsentData
  <2>2. CASE ct # ""
    <3>1. q \in dataOf(ct, body) BY <1>2, <2>2 DEF httpData
    <3>2. DataOfStrings(q.value) /\ dataKindMatchesContentType(q.value.kind, ct)
      BY <1>2, <3>1, SelectedData
    <3> QED BY <2>2, <3>2
  <2> QED BY <2>1, <2>2
<1> HIDE DEF c
<1>5. LET f == withData(AttributesFrom(c, ct), q.value) IN
         EventOfStrings(f) /\ binaryConversionReport(f) = {}
  BY <1>1, <1>3, <1>4, DecodedBinary
<1> QED BY <1>2, <1>5

\* The headers of a record: names of attributes and values are strings.
HeadersOfStrings(hs) ==
  /\ IsSequence(hs)
  /\ \A i \in DOMAIN hs : hs[i].value \in Strings
                          /\ (hs[i].owner = "ce" => hs[i].name \in Strings \cup reservedAttributeNames)

soleValues(headers) == [n \in DOMAIN headers |-> soleValue(headers[n])]

LEMMA DecodedKafkaStrings ==
  ASSUME NEW hs, HeadersOfStrings(hs)
  PROVE  ContextOfStrings(soleValues(cloudEventHeaders(hs)))
<1> DEFINE headers == cloudEventHeaders(hs)
           c == soleValues(headers)
           places == ownedBy(hs, "ce")
           N == {hs[i].name : i \in places}
<1>1. DOMAIN headers = N /\ \A n \in N : headers[n] = collected(hs, {i \in places : hs[i].name = n})
  BY DEF cloudEventHeaders
<1>2. places \subseteq DOMAIN hs /\ \A i \in places : hs[i].owner = "ce"
  BY DEF ownedBy
<1>3. IsFiniteSet(N)
  <2> DEFINE f == [i \in DOMAIN hs |-> hs[i].name]
             T == {f[i] : i \in DOMAIN hs}
  <2>1. IsFiniteSet(DOMAIN hs)
    <3>1. DOMAIN hs = 1..Len(hs) /\ Len(hs) \in Nat BY DEF HeadersOfStrings, IsSequence
    <3> QED BY <3>1, FS_Interval
  <2>2. N \subseteq T BY <1>2
  <2>3. IsFiniteSet(T)
    <3> HIDE DEF f
    <3> QED BY <2>1, FiniteImage
  <2> QED BY <2>2, <2>3, FS_Subset
<1>4. ASSUME NEW n \in N
      PROVE  n \in Strings \cup reservedAttributeNames /\ c[n] \in Strings
  <2>1. PICK i \in places : hs[i].name = n OBVIOUS
  <2>2. n \in Strings \cup reservedAttributeNames
    BY <1>2, <2>1 DEF HeadersOfStrings
  <2> DEFINE v == headers[n]
             w == CHOOSE u \in v : TRUE
  <2>3. v = {<<j, hs[j].value>> : j \in {k \in places : hs[k].name = n}}
    BY <1>1 DEF collected
  <2>4. c[n] = w[2]
    BY <1>1 DEF soleValues, soleValue
  <2>5. <<i, hs[i].value>> \in v
    BY <2>1, <2>3
  <2> HIDE DEF v
  <2>6. w \in v BY <2>5
  <2> HIDE DEF w
  <2>7. PICK j \in places : w = <<j, hs[j].value>>
    BY <2>3, <2>6
  <2>8. w[2] = hs[j].value BY <2>7
  <2>9. hs[j].value \in Strings BY <1>2 DEF HeadersOfStrings
  <2> QED BY <2>2, <2>4, <2>8, <2>9
<1>5. DOMAIN c = N BY <1>1 DEF soleValues
<1> HIDE DEF c, N
<1> QED BY <1>3, <1>4, <1>5 DEF ContextOfStrings, c

KafkaAdmitted(value, ct, headers, lim, f) ==
  /\ contextFailures(soleValues(headers)) = {}
  /\ \E q \in kafkaData(value, ct, lim) :
       q.err = Nil /\ f = withData(AttributesFrom(soleValues(headers), ct), q.value)

LEMMA KafkaBinaryAdmitted ==
  ASSUME NEW value, NEW ct, NEW headers, NEW lim, NEW r \in decodeKafkaBinary(value, ct, headers, lim),
         r.err = Nil
  PROVE  KafkaAdmitted(value, ct, headers, lim, r.value)
  BY DecodeKafkaBinaryParts DEF KafkaAdmitted, soleValues

LEMMA DecodedKafkaBinary ==
  ASSUME NEW hs, HeadersOfStrings(hs), NEW ct \in Strings, NEW value,
         value = Nil \/ (ct # "" /\ \E s \in Strings : value = Bytes(s)), NEW lim, ClosedStrings,
         NEW r \in decodeKafkaBinary(value, ct, cloudEventHeaders(hs), lim), r.err = Nil
  PROVE  EventOfStrings(r.value) /\ binaryConversionReport(r.value) = {}
<1> DEFINE c == soleValues(cloudEventHeaders(hs))
<1>1. /\ contextFailures(c) = {}
      /\ \E q \in kafkaData(value, ct, lim) : q.err = Nil /\ r.value = withData(AttributesFrom(c, ct), q.value)
  <2>1. KafkaAdmitted(value, ct, cloudEventHeaders(hs), lim, r.value)
    BY KafkaBinaryAdmitted
  <2> QED BY <2>1, Zenon DEF KafkaAdmitted
<1>2. PICK q \in kafkaData(value, ct, lim) : q.err = Nil /\ r.value = withData(AttributesFrom(c, ct), q.value)
  BY <1>1
<1>3. ContextOfStrings(c)
  BY DecodedKafkaStrings
<1>4. DataOfStrings(q.value) /\ (present(q.value) => ct # "" /\ dataKindMatchesContentType(q.value.kind, ct))
  <2>1. CASE value = Nil
    <3>1. q \in Returns({}, NoData) BY <1>2, <2>1 DEF kafkaData
    <3> QED BY <3>1, AbsentData
  <2>2. CASE value # Nil
    <3>1. PICK s \in Strings : value = Bytes(s) BY <2>2
    <3>2. ct # "" BY <2>2
    <3>3. q \in Returns({ErrLimitExceeded}, Nil) \/ q \in dataOf(ct, value.bytes)
      BY <1>2, <2>2 DEF kafkaData
    <3>4. value.bytes = s BY <3>1 DEF Bytes
    <3>5. q \notin Returns({ErrLimitExceeded}, Nil)
      BY <1>2, ErrorsAreNotNil DEF Returns, Errors
    <3>6. DataOfStrings(q.value) /\ dataKindMatchesContentType(q.value.kind, ct)
      BY <1>2, <3>3, <3>4, <3>5, SelectedData
    <3> QED BY <3>2, <3>6
  <2> QED BY <2>1, <2>2
<1> HIDE DEF c
<1>5. LET f == withData(AttributesFrom(c, ct), q.value) IN
         EventOfStrings(f) /\ binaryConversionReport(f) = {}
  BY <1>1, <1>3, <1>4, DecodedBinary
<1> QED BY <1>2, <1>5

-----------------------------------------------------------------------------
(* Messages: the ones that carry whole events, and what a relay makes of    *)
(* them.                                                                    *)

\* A document written for a whole event.
LEMMA WrittenDocument ==
  ASSUME NEW e, WholeEvent(e), ClosedStrings
  PROVE  DocOfStrings(encodeJSON(e))
<1> DEFINE d == encodeJSON(e)
           c == coreAttributes(e)
           data == encodeJSONData(e.data)
           typed == IF wireType(e) # "" THEN {"datacontenttype"} ELSE {}
<1>1. /\ DOMAIN d.members = DOMAIN c \cup DOMAIN data \cup DOMAIN e.extensions \cup typed
      /\ \A n \in DOMAIN c : d.members[n] = Quote(c[n])
      /\ wireType(e) # "" => d.members["datacontenttype"] = Quote(wireType(e))
      /\ \A n \in DOMAIN data : d.members[n] = data[n]
      /\ \A n \in DOMAIN e.extensions : d.members[n] = wireExtension(e.extensions[n])
  BY JSONMembers
<1>2. d = Doc(d.members, d.duplicate)
  BY DEF encodeJSON, Doc
<1>3. \A s \in Strings : Quote(s) \in Strings /\ ValidJSON(Quote(s))
  BY JSONTypeAssumption DEF ClosedStrings
<1>4. \A n \in DOMAIN c : n \in reservedAttributeNames /\ c[n] \in Strings
  <2>1. {e.id, e.source, e.type, e.subject, e.time, e.dataSchema, "1.0"} \subseteq Strings
    BY CoreTexts
  <2>2. /\ DOMAIN c = {"specversion", "id", "source", "type"}
                      \cup (IF e.dataSchema # "" THEN {"dataschema"} ELSE {})
                      \cup (IF e.subject # "" THEN {"subject"} ELSE {})
                      \cup (IF e.time # "" THEN {"time"} ELSE {})
        /\ c["specversion"] = "1.0" /\ c["id"] = e.id /\ c["source"] = e.source
        /\ c["type"] = e.type
        /\ e.dataSchema # "" => c["dataschema"] = e.dataSchema
        /\ e.subject # "" => c["subject"] = e.subject
        /\ e.time # "" => c["time"] = e.time
    BY CoreAttributesWritten
  <2> HIDE DEF c
  <2> QED BY <2>1, <2>2 DEF reservedAttributeNames
<1>5. wireType(e) \in Strings
  BY CoreTexts
<1>6. /\ DOMAIN data \subseteq {"data", "data_base64"}
      /\ \A n \in DOMAIN data : data[n] \in Strings /\ ValidJSON(data[n])
  <2>1. e.data.bytes \in Strings /\ validData(e.data)
    BY WholeEventRules DEF WholeEvent, EventOfStrings
  <2>2. e.data.kind = "json" => ValidJSON(e.data.bytes)
    BY <2>1 DEF validData
  <2>3. Base64(e.data.bytes) \in Strings
    BY <2>1 DEF ClosedStrings
  <2>4. /\ e.data.kind = "json" => DOMAIN data = {"data"} /\ data["data"] = e.data.bytes
        /\ e.data.kind = "text" => DOMAIN data = {"data"} /\ data["data"] = Quote(e.data.bytes)
        /\ e.data.kind = "binary" => /\ DOMAIN data = {"data_base64"}
                                     /\ data["data_base64"] = Quote(Base64(e.data.bytes))
        /\ e.data.kind \notin {"json", "text", "binary"} => DOMAIN data = {}
    BY JSONDataWritten
  <2> HIDE DEF data
  <2> QED BY <1>3, <2>1, <2>2, <2>3, <2>4
<1>7. ASSUME NEW n \in DOMAIN e.extensions
      PROVE  n \in Strings /\ wireExtension(e.extensions[n]) \in Strings
             /\ ValidJSON(wireExtension(e.extensions[n]))
  <2> DEFINE x == e.extensions[n]
  <2>1. /\ x.text \in Strings
        /\ x.kind = "boolean" => x.text \in {"true", "false"}
        /\ x.kind = "integer" => Integer32(x.text) = x.text
    BY ExtensionTexts
  <2>2. n \in Strings BY DEF WholeEvent, EventOfStrings
  <2> HIDE DEF x
  <2>3. x.kind \in {"boolean", "integer"} => ValidJSON(x.text)
    BY <2>1, JSONTypeAssumption
  <2>4. wireExtension(x) = IF x.kind \in {"boolean", "integer"} THEN x.text ELSE Quote(x.text)
    BY DEF wireExtension
  <2>5. wireExtension(x) \in Strings /\ ValidJSON(wireExtension(x))
    BY <1>3, <2>1, <2>3, <2>4
  <2> QED BY <2>2, <2>5 DEF x
<1>8. IsFiniteSet(DOMAIN d.members)
  <2> DEFINE D == DOMAIN d.members
             K == DOMAIN contextAttributes(e)
             names == ((K \cup {"datacontenttype"}) \cup {"data"}) \cup {"data_base64"}
  <2>1. K = DOMAIN c \cup DOMAIN e.extensions
    BY DEF contextAttributes, ++
  <2>2. D = DOMAIN c \cup DOMAIN data \cup DOMAIN e.extensions \cup typed
    BY <1>1
  <2>3. DOMAIN data \subseteq {"data", "data_base64"} /\ typed \subseteq {"datacontenttype"}
    BY <1>6
  <2>4. IsFiniteSet(K)
    BY FiniteContext
  <2> HIDE DEF K, D, c, data, typed
  <2>5. D \subseteq names
    BY <2>1, <2>2, <2>3
  <2>6. IsFiniteSet(names)
    BY <2>4, FS_AddElement
  <2> HIDE DEF names
  <2>7. IsFiniteSet(D)
    BY <2>5, <2>6, FS_Subset
  <2> QED BY <2>7 DEF D
<1>9. ASSUME NEW n \in DOMAIN d.members
      PROVE  /\ n \in Strings \cup reservedAttributeNames /\ d.members[n] \in Strings
             /\ ValidJSON(d.members[n])
  <2>1. CASE n \in DOMAIN c
    BY <1>1, <1>3, <1>4, <2>1
  <2>2. CASE n \in DOMAIN data
    BY <1>1, <1>6, <2>2 DEF reservedAttributeNames
  <2>3. CASE n \in DOMAIN e.extensions
    BY <1>1, <1>7, <2>3
  <2>4. CASE n = "datacontenttype" /\ wireType(e) # ""
    BY <1>1, <1>3, <1>5, <2>4 DEF reservedAttributeNames
  <2>5. n \in typed => n = "datacontenttype" /\ wireType(e) # ""
    OBVIOUS
  <2> HIDE DEF typed, c, data, d
  <2> QED BY <1>1, <2>1, <2>2, <2>3, <2>4, <2>5
<1> HIDE DEF d
<1> QED BY <1>2, <1>8, <1>9 DEF DocOfStrings, d

\* Messages of strings, by route.  Binary data has a content type, which a relay keeps.
HTTPOfStrings(m, msg) ==
  /\ msg = [contentType |-> msg.contentType, header |-> msg.header, body |-> msg.body]
  /\ HeaderOfStrings(msg.header)
  /\ m = "binary" => \E ct \in Strings, s \in Strings :
       /\ ct = "" => msg.contentType = <<>> /\ s = ""
       /\ ct # "" => msg.contentType = <<ct>>
       /\ msg.body = Bytes(s)
  /\ m = "structured" => msg.contentType = <<JSONMediaType>> /\ DocOfStrings(msg.body)
  /\ m = "batch" =>
       /\ msg.contentType = <<JSONBatchMediaType>> /\ msg.body = Batch(msg.body.docs)
       /\ IsSequence(msg.body.docs) /\ \A i \in DOMAIN msg.body.docs : DocOfStrings(msg.body.docs[i])

KafkaOfStrings(m, msg) ==
  /\ msg = [key |-> msg.key, value |-> msg.value, headers |-> msg.headers]
  /\ HeadersOfStrings(msg.headers)
  /\ m = "binary" => \E ct \in Strings :
       TypedRecord(msg, ct) /\ (msg.value = Nil \/ (ct # "" /\ \E s \in Strings : msg.value = Bytes(s)))
  /\ m = "structured" => TypedRecord(msg, JSONMediaType) /\ DocOfStrings(msg.value)
  /\ m # "batch"

LEMMA BinaryTexts ==
  ASSUME NEW e, WholeEvent(e), ClosedStrings
  PROVE  /\ binaryType(e) \in Strings /\ binaryBody(e) \in Strings
         /\ binaryType(e) = "" => ~present(e.data) /\ binaryBody(e) = ""
<1>1. binaryType(e) \in Strings
  BY BinaryTypeClass
<1>2. e.data.bytes \in Strings /\ "" \in Strings
  BY DEF WholeEvent, EventOfStrings, ClosedStrings
<1>3. binaryBody(e) \in Strings
  BY <1>2 DEF binaryBody
<1>4. binaryType(e) = "" => ~present(e.data)
  BY ImplicitTypes DEF binaryType
<1>5. ~present(e.data) => binaryBody(e) = ""
  BY DEF binaryBody
<1> QED BY <1>1, <1>3, <1>4, <1>5

LEMMA HTTPBinaryWritten ==
  ASSUME NEW e
  PROVE  LET ct == binaryType(e)
             msg == encodeHTTPBinary(e)
         IN  /\ msg = [contentType |-> msg.contentType, header |-> msg.header, body |-> msg.body]
             /\ ct # "" => msg.contentType = <<ct>>
             /\ ct = "" => msg.contentType = <<>>
             /\ msg.header = httpContext(contextAttributes(e)) /\ msg.body = Bytes(binaryBody(e))
<1> DEFINE ct == binaryType(e)
           msg == encodeHTTPBinary(e)
           t == IF e.dataContentType # "" THEN <<e.dataContentType>>
                ELSE IF present(e.data) THEN <<implicitDataContentType(e.data.kind)>>
                ELSE <<>>
<1>1. msg = [contentType |-> t, header |-> httpContext(contextAttributes(e)),
             body |-> Bytes(binaryBody(e))]
  BY DEF encodeHTTPBinary, httpContext, binaryBody
<1>2. ct # "" => t = <<ct>>
  BY ImplicitTypes DEF binaryType
<1>3. ct = "" => t = <<>>
  BY ImplicitTypes DEF binaryType
<1> HIDE DEF t, msg
<1>4. /\ msg.contentType = t /\ msg.header = httpContext(contextAttributes(e))
      /\ msg.body = Bytes(binaryBody(e))
      /\ msg = [contentType |-> msg.contentType, header |-> msg.header, body |-> msg.body]
  BY <1>1
<1> QED BY <1>2, <1>3, <1>4 DEF msg

LEMMA ContextHeaderStrings ==
  ASSUME NEW e, WholeEvent(e), ClosedStrings
  PROVE  HeaderOfStrings(httpContext(contextAttributes(e)))
<1> DEFINE c == contextAttributes(e)
           h == httpContext(c)
<1>1. c = [n \in DOMAIN c |-> c[n]] /\ DOMAIN c \ reservedAttributeNames = DOMAIN e.extensions
  BY ContextWritten
<1>2. \A n \in DOMAIN c : c[n] \in Strings /\ Escape(c[n]) \in Strings
  <2>1. \A n \in DOMAIN c : c[n] \in Strings BY ContextTexts
  <2> QED BY <2>1 DEF ClosedStrings
<1>3. \A n \in DOMAIN c : n \in Strings \cup reservedAttributeNames
  BY <1>1 DEF WholeEvent, EventOfStrings
<1>4. IsFiniteSet(DOMAIN c)
  BY FiniteContext
<1> HIDE DEF c
<1>5. /\ DOMAIN h = {Canonical(n) : n \in DOMAIN c}
      /\ \A n \in DOMAIN c : h[Canonical(n)] = <<Escape(c[n])>>
  BY <1>1, HTTPContextRead
<1>6. IsFiniteSet(DOMAIN h)
  <2> DEFINE f == [n \in DOMAIN c |-> Canonical(n)]
             T == {f[n] : n \in DOMAIN c}
  <2>1. IsFiniteSet(T)
    <3> HIDE DEF f
    <3> QED BY <1>4, FiniteImage
  <2>2. T = {Canonical(n) : n \in DOMAIN c} OBVIOUS
  <2> QED BY <1>5, <2>1, <2>2
<1>7. ASSUME NEW k \in DOMAIN h
      PROVE  k[2] \in Strings \cup reservedAttributeNames /\ h[k] \in Seq(Strings)
  <2>1. PICK n \in DOMAIN c : k = Canonical(n) BY <1>5
  <2>2. k[2] = n BY <2>1 DEF Canonical
  <2>3. <<Escape(c[n])>> \in Seq(Strings) BY <1>2
  <2>4. h[k] = <<Escape(c[n])>> BY <1>5, <2>1
  <2> QED BY <1>3, <2>2, <2>3, <2>4
<1> HIDE DEF h
<1> QED BY <1>6, <1>7 DEF HeaderOfStrings, h, c

\* The headers of a binary record.
LEMMA RecordHeaderStrings ==
  ASSUME NEW e, WholeEvent(e), ClosedStrings
  PROVE  /\ HeadersOfStrings(encodeKafkaBinaryHeaders(e))
         /\ \A record : record.headers = encodeKafkaBinaryHeaders(e) => TypedRecord(record, binaryType(e))
<1> DEFINE c == contextAttributes(e)
           hs == encodeKafkaBinaryHeaders(e)
           S == contextHeaders(c, binaryTypes(e))
           ct == binaryType(e)
           types == collected(hs, ownedBy(hs, "content-type"))
<1>1. Enumerates(hs, S)
  BY KafkaHeadersWritten
<1>2. \A n \in DOMAIN c : c[n] \in Strings /\ n \in Strings \cup reservedAttributeNames
  <2>1. \A n \in DOMAIN c : c[n] \in Strings BY ContextTexts
  <2>2. DOMAIN c \ reservedAttributeNames = DOMAIN e.extensions BY ContextWritten
  <2> QED BY <2>1, <2>2 DEF WholeEvent, EventOfStrings
<1>3. \A t \in binaryTypes(e) : t \in Strings
  BY BinaryTypeClass DEF binaryTypes
<1>4. \A owner, name, value : /\ Header(owner, name, value).owner = owner
                              /\ Header(owner, name, value).name = name
                              /\ Header(owner, name, value).value = value
  BY DEF Header
<1>5. \A x \in S : \/ \E n \in DOMAIN c : x = Header("ce", n, c[n])
                   \/ \E t \in binaryTypes(e) : x = Header("content-type", "", t)
  BY DEF contextHeaders
<1>6. ReadBack(hs, c, binaryTypes(e))
  <2>1. \A s, t \in binaryTypes(e) : s = t BY DEF binaryTypes
  <2> QED BY <1>1, <2>1, KafkaContextRead
<1>7. \A record : record.headers = hs => TypedRecord(record, ct)
  <2>1. CASE ct = "" BY <1>6, <2>1 DEF binaryTypes, TypedRecord, ReadBack, contentTypesOf
  <2>2. CASE ct # ""
    <3>1. ct \in binaryTypes(e) BY <2>2 DEF binaryTypes
    <3>2. \E i : types = {<<i, ct>>} BY <1>6, <3>1 DEF ReadBack
    <3> QED BY <2>2, <3>2 DEF TypedRecord, contentTypesOf
  <2> QED BY <2>1, <2>2
<1> HIDE DEF S, c, hs
<1>8. ASSUME NEW x \in S
      PROVE  x.value \in Strings /\ (x.owner = "ce" => x.name \in Strings \cup reservedAttributeNames)
  <2>1. CASE \E n \in DOMAIN c : x = Header("ce", n, c[n])
    BY <1>2, <1>4, <2>1
  <2>2. CASE \E t \in binaryTypes(e) : x = Header("content-type", "", t)
    <3>1. PICK t \in binaryTypes(e) : x = Header("content-type", "", t) BY <2>2
    <3> DEFINE h == Header("content-type", "", t)
    <3>a. h.owner = "content-type" /\ h.value = t BY DEF Header
    <3>b. x = h BY <3>1
    <3> HIDE DEF h
    <3>2. x.owner = "content-type" /\ x.value = t BY <3>a, <3>b
    <3> QED BY <1>3, <3>2
  <2> QED BY <1>5, <2>1, <2>2
<1>9. IsSequence(hs) /\ \A i \in DOMAIN hs : hs[i] \in S
  <2>1. hs \in Seq(S) BY <1>1 DEF Enumerates
  <2>2. IsSequence(hs) BY <2>1, SequenceOfMembers
  <2> QED BY <2>1, <2>2
<1>10. HeadersOfStrings(hs)
  BY <1>8, <1>9 DEF HeadersOfStrings
<1> QED BY <1>7, <1>10 DEF hs

\* What carries whole events is a message of strings.
MessageOfStrings(b, m, msg) ==
  (b = "http" => HTTPOfStrings(m, msg)) /\ (b = "kafka" => KafkaOfStrings(m, msg))

LEMMA CarriedStrings ==
  ASSUME NEW b, NEW m, NEW events, AllWhole(events), ClosedStrings, NEW msg, Carries(b, m, events, msg)
  PROVE  MessageOfStrings(b, m, msg)
<1> DEFINE e == events[1]
<1>s. m # "batch" => WholeEvent(e)
  BY DEF Carries, AllWhole
<1>h. HeaderOfStrings(<<>>)
  <2>1. DOMAIN <<>> = {} OBVIOUS
  <2> QED BY <2>1, FS_EmptySet DEF HeaderOfStrings
<1>p. \A ct, body : LET q == posted(ct, body) IN
        /\ q = [contentType |-> q.contentType, header |-> q.header, body |-> q.body]
        /\ q.contentType = <<ct>> /\ q.header = <<>> /\ q.body = body
  BY DEF posted
<1>1. CASE b = "http" /\ m = "binary"
  <2>1. msg = encodeHTTPBinary(e) BY <1>1 DEF Carries
  <2> DEFINE ct == binaryType(e)
             s == binaryBody(e)
  <2>2. /\ msg = [contentType |-> msg.contentType, header |-> msg.header, body |-> msg.body]
        /\ ct # "" => msg.contentType = <<ct>>
        /\ ct = "" => msg.contentType = <<>>
        /\ msg.header = httpContext(contextAttributes(e)) /\ msg.body = Bytes(s)
    BY <2>1, HTTPBinaryWritten
  <2>3. ct \in Strings /\ s \in Strings /\ (ct = "" => s = "")
    BY <1>1, <1>s, BinaryTexts
  <2>4. HeaderOfStrings(msg.header)
    BY <1>1, <1>s, <2>2, ContextHeaderStrings
  <2> HIDE DEF ct, s
  <2>5. \E t \in Strings, v \in Strings :
          /\ t = "" => msg.contentType = <<>> /\ v = ""
          /\ t # "" => msg.contentType = <<t>>
          /\ msg.body = Bytes(v)
    BY <2>2, <2>3
  <2>6. HTTPOfStrings(m, msg)
    BY <1>1, <2>2, <2>4, <2>5 DEF HTTPOfStrings
  <2> QED BY <1>1, <2>6 DEF MessageOfStrings
<1>2. CASE b = "http" /\ m = "structured"
  <2>1. msg = posted(JSONMediaType, encodeJSON(e)) BY <1>2 DEF Carries
  <2>2. /\ msg = [contentType |-> msg.contentType, header |-> msg.header, body |-> msg.body]
        /\ msg.contentType = <<JSONMediaType>> /\ msg.header = <<>> /\ msg.body = encodeJSON(e)
    BY <1>p, <2>1
  <2>3. DocOfStrings(msg.body)
    BY <1>2, <1>s, <2>2, WrittenDocument
  <2>4. HTTPOfStrings(m, msg)
    BY <1>2, <1>h, <2>2, <2>3 DEF HTTPOfStrings
  <2> QED BY <1>2, <2>4 DEF MessageOfStrings
<1>3. CASE b = "http" /\ m = "batch"
  <2> DEFINE docs == documents(events)
  <2>1. msg = posted(JSONBatchMediaType, Batch(docs)) BY <1>3 DEF Carries
  <2>2. /\ msg = [contentType |-> msg.contentType, header |-> msg.header, body |-> msg.body]
        /\ msg.contentType = <<JSONBatchMediaType>> /\ msg.header = <<>> /\ msg.body = Batch(docs)
    BY <1>p, <2>1
  <2>3. docs = [i \in DOMAIN events |-> docs[i]] /\ \A i \in DOMAIN events : docs[i] = encodeJSON(events[i])
    BY DEF documents
  <2>4. DOMAIN docs = DOMAIN events BY DEF documents
  <2> HIDE DEF docs
  <2>5. IsSequence(docs) /\ \A i \in DOMAIN docs : DocOfStrings(docs[i])
    BY <2>3, <2>4, SameIndices, WrittenDocument DEF AllWhole
  <2>6. Batch(docs).docs = docs BY DEF Batch
  <2>7. msg.body.docs = docs BY <2>2, <2>6
  <2>8. HTTPOfStrings(m, msg)
    BY <1>3, <1>h, <2>2, <2>5, <2>7 DEF HTTPOfStrings
  <2> QED BY <1>3, <2>8 DEF MessageOfStrings
<1>4. CASE b = "kafka" /\ m = "binary"
  <2> DEFINE ct == binaryType(e)
  <2>1. msg = [key |-> msg.key, value |-> binaryValue(e), headers |-> encodeKafkaBinaryHeaders(e)]
    BY <1>4 DEF Carries
  <2>2. msg.value = binaryValue(e) /\ msg.headers = encodeKafkaBinaryHeaders(e)
    BY <2>1
  <2>3. HeadersOfStrings(msg.headers) /\ TypedRecord(msg, ct)
    BY <1>4, <1>s, <2>2, RecordHeaderStrings
  <2>4. ct \in Strings /\ (ct = "" => ~present(e.data))
    BY <1>4, <1>s, BinaryTexts
  <2>5. msg.value = Nil \/ (ct # "" /\ \E s \in Strings : msg.value = Bytes(s))
    <3>1. e.data.bytes \in Strings BY <1>4, <1>s DEF WholeEvent, EventOfStrings
    <3>2. present(e.data) => msg.value = Bytes(e.data.bytes) BY <2>2 DEF binaryValue
    <3>3. ~present(e.data) => msg.value = Nil BY <2>2 DEF binaryValue
    <3> HIDE DEF ct
    <3> QED BY <2>4, <3>1, <3>2, <3>3
  <2>6. msg = [key |-> msg.key, value |-> msg.value, headers |-> msg.headers]
    BY <2>1, <2>2
  <2> HIDE DEF ct
  <2>7. KafkaOfStrings(m, msg)
    BY <1>4, <2>3, <2>4, <2>5, <2>6 DEF KafkaOfStrings
  <2> QED BY <1>4, <2>7 DEF MessageOfStrings
<1>5. CASE b = "kafka" /\ m = "structured"
  <2>1. msg = [key |-> msg.key, value |-> encodeJSON(e), headers |-> JSONHeaders]
    BY <1>5 DEF Carries
  <2>2. msg.value = encodeJSON(e) /\ msg.headers = JSONHeaders
    BY <2>1
  <2>3. msg = [key |-> msg.key, value |-> msg.value, headers |-> msg.headers]
    BY <2>1, <2>2
  <2>4. TypedRecord(msg, JSONMediaType)
    BY <2>2, JSONHeadersRead DEF TypedRecord, JSONMediaType, contentTypesOf
  <2>5. HeadersOfStrings(JSONHeaders)
    <3> DEFINE h == Header("content-type", "", JSONMediaType)
    <3>1. h.owner = "content-type" /\ h.value = JSONMediaType BY DEF Header
    <3>2. JSONHeaders = <<h>> BY DEF JSONHeaders
    <3> HIDE DEF h
    <3>3. <<h>> \in Seq({h}) /\ DOMAIN <<h>> = {1} /\ <<h>>[1] = h OBVIOUS
    <3>4. IsSequence(<<h>>) BY <3>3, SequenceOfMembers
    <3>5. JSONMediaType \in Strings BY DEF ClosedStrings, JSONMediaType
    <3>6. \A i \in DOMAIN <<h>> : <<h>>[i].value \in Strings /\ <<h>>[i].owner # "ce"
      BY <3>1, <3>3, <3>5
    <3> QED BY <3>2, <3>4, <3>6 DEF HeadersOfStrings
  <2>6. DocOfStrings(msg.value)
    BY <1>5, <1>s, <2>2, WrittenDocument
  <2>7. KafkaOfStrings(m, msg)
    BY <1>5, <2>2, <2>3, <2>4, <2>5, <2>6 DEF KafkaOfStrings
  <2> QED BY <1>5, <2>7 DEF MessageOfStrings
<1> QED BY <1>1, <1>2, <1>3, <1>4, <1>5 DEF Carries

\* An event as its route gives it back: of strings, and the route loses nothing of it.
Regained(m, f) == EventOfStrings(f) /\ reported(m, f) = {}

\* A document is read as itself, and text as the document it is.
LEMMA ReadDocument ==
  ASSUME NEW body, DocOfStrings(body)
  PROVE  body.form = "doc" /\ asDocument(body) = body
<1>1. body.form = "doc"
  <2>1. Doc(body.members, body.duplicate).form = "doc" BY DEF Doc
  <2>2. body = Doc(body.members, body.duplicate) BY DEF DocOfStrings
  <2> QED BY <2>1, <2>2
<1> QED BY <1>1 DEF asDocument

LEMMA TextDocument ==
  ASSUME NEW s \in Strings, ClosedStrings, asDocument(Bytes(s)).form = "doc"
  PROVE  DocOfStrings(asDocument(Bytes(s)))
<1> DEFINE doc == Document(s)
           members == doc.members
<1>1. Bytes(s).form = "bytes" /\ Bytes(s).bytes = s /\ "bytes" # "doc"
  BY DEF Bytes
<1>2. asDocument(Bytes(s)) = doc /\ doc # Nil
  BY <1>1 DEF asDocument
<1>3. /\ doc = Doc(members, doc.duplicate) /\ IsFiniteSet(DOMAIN members)
      /\ \A n \in DOMAIN members : ValidJSON(members[n])
  BY <1>2, DocumentAssumption
<1>4. \A n \in DOMAIN members : n \in Strings \cup reservedAttributeNames /\ members[n] \in Strings
  BY <1>2 DEF ClosedStrings
<1> HIDE DEF doc
<1> QED BY <1>2, <1>3, <1>4 DEF DocOfStrings

\* Text is no batch.
LEMMA BytesAreNoBatch ==
  ASSUME NEW body, body.form = "bytes", NEW lim, NEW r \in DecodeJSONBatch(body, lim)
  PROVE  r.err # Nil
<1> DEFINE decoded(i) == DecodeJSON(body.docs[i], lim)
           failing == {i \in DOMAIN body.docs : \E q \in decoded(i) : q.err # Nil}
           size  == When(lim.MaxEventBytes <= 0 \/ BodySize(body) > lim.MaxEventBytes, ErrLimitExceeded)
           depth == When(lim.MaxDepth <= 0 \/ lim.MaxDepth = MaxInt, ErrLimitExceeded)
           inspect == inspectJSON(body, lim.MaxDepth + 1)
           value == [i \in DOMAIN body.docs |-> (CHOOSE q \in decoded(i) : TRUE).value]
           x == When(body.form # "batch", ErrInvalidEvent)
           y == When(lim.MaxBatchEvents <= 0 \/ Len(body.docs) > lim.MaxBatchEvents, ErrLimitExceeded)
           z == IF failing = {} THEN {} ELSE {q.err : q \in decoded(Min(failing))}
<1>1. r \in Returns(size ?? depth ?? inspect ?? x ?? y ?? z, value)
  BY DEF DecodeJSONBatch
<1>2. Nil \notin size /\ Nil \notin depth /\ Nil \notin inspect /\ Nil \notin x /\ x # {}
  <2>1. Nil \notin size /\ Nil \notin depth /\ Nil \notin x
    BY ErrorsAreNotNil DEF When, Errors
  <2>2. x # {} BY DEF When
  <2> QED BY <2>1, <2>2, MemberFailures
<1> HIDE DEF size, depth, inspect, failing, decoded, value, x, y, z
<1>3. size ?? depth ?? inspect ?? x ?? y ?? z # {} /\ Nil \notin size ?? depth ?? inspect ?? x ?? y ?? z
  BY <1>2 DEF ??
<1> QED BY <1>1, <1>3, ReturnsEither

\* What a decoder that returned the event f did with the message, by the mode it read
\* it in.
DocumentTaken(body, lim, f) ==
  /\ DocOfStrings(asDocument(body))
  /\ \E p \in DecodeJSON(body, lim) : p.err = Nil /\ f = p.value

LEMMA DecodedText ==
  ASSUME NEW s \in Strings, ClosedStrings, NEW lim, NEW p \in DecodeJSON(Bytes(s), lim), p.err = Nil
  PROVE  DocumentTaken(Bytes(s), lim, p.value)
  BY DecodeJSONStages, TextDocument DEF DocumentTaken

HTTPBinaryTaken(header, lim, f) ==
  \E ct \in Strings, s \in Strings :
    /\ ct = "" => s = ""
    /\ ~(ct # "" /\ Size(ct) > lim.MaxAttributeValueBytes)
    /\ readHTTPBody(Size(s), lim.MaxDataBytes) = {}
    /\ \E p \in decodeHTTPBinary(header, ct, s, lim) : p.err = Nil /\ f = p.value

KafkaBinaryTaken(record, lim, f) ==
  \E ct \in Strings :
    /\ TypedRecord(record, ct)
    /\ record.value = Nil \/ (ct # "" /\ \E s \in Strings : record.value = Bytes(s))
    /\ \E p \in decodeKafkaBinary(record.value, ct, cloudEventHeaders(record.headers), lim) :
         p.err = Nil /\ f = p.value

\* The content type and the body of a binary HTTP message.
LEMMA BinaryPostedParts ==
  ASSUME NEW msg, HTTPOfStrings("binary", msg)
  PROVE  \E ct \in Strings, s \in Strings :
           /\ contentTypeOf(msg) = ct /\ (ct = "" => s = "")
           /\ msg.body = Bytes(s) /\ msg.body.form = "bytes" /\ msg.body.bytes = s
<1>1. PICK ct \in Strings, s \in Strings :
        /\ ct = "" => msg.contentType = <<>> /\ s = ""
        /\ ct # "" => msg.contentType = <<ct>>
        /\ msg.body = Bytes(s)
  BY DEF HTTPOfStrings
<1>2. msg.body.form = "bytes" /\ msg.body.bytes = s
  <2>1. Bytes(s).form = "bytes" /\ Bytes(s).bytes = s BY DEF Bytes
  <2>2. msg.body = Bytes(s) BY <1>1, Zenon
  <2> QED BY <2>1, <2>2
<1>3. contentTypeOf(msg) = ct
  <2>1. CASE ct = ""
    <3>1. msg.contentType = <<>> BY <1>1, <2>1
    <3>2. contentTypeOf(msg) = "" BY <3>1, Zenon DEF contentTypeOf
    <3> QED BY <2>1, <3>2
  <2>2. CASE ct # ""
    <3>1. msg.contentType = <<ct>> BY <1>1, <2>2
    <3>2. <<ct>> # <<>> /\ <<ct>>[1] = ct OBVIOUS
    <3> QED BY <3>1, <3>2 DEF contentTypeOf
  <2> QED BY <2>1, <2>2
<1> QED BY <1>1, <1>2, <1>3

\* The mode a decoder reads a message in is the one it was written in, unless binary
\* data is declared to be an event.
LEMMA HTTPReadMode ==
  ASSUME NEW m \in Modes, NEW msg, HTTPOfStrings(m, msg), NEW lim,
         NEW d \in DecodeHTTP(msg, lim), d.err = Nil
  PROVE  \/ readMode("http", msg) = m
         \/ m = "binary" /\ readMode("http", msg) = "structured"
<1> DEFINE ct == contentTypeOf(msg)
<1>r. readMode("http", msg) = httpMode(ct)
  BY DEF readMode
<1>t. \A t : <<t>> # <<>> /\ <<t>>[1] = t
  OBVIOUS
<1>1. CASE m = "binary"
  <2>1. d \in decodeHTTPMessage(httpMode(ct), msg, lim)
    BY DecodeHTTPParts
  <2>2. msg.body.form = "bytes" BY <1>1, BinaryPostedParts
  <2>3. httpMode(ct) # "batch"
    <3> SUFFICES ASSUME httpMode(ct) = "batch" PROVE FALSE
      OBVIOUS
    <3>1. d \in (IF DOMAIN msg.header # {} THEN Returns({ErrInvalidEvent}, Nil) ELSE DecodeJSONBatch(msg.body, lim))
      BY <2>1 DEF decodeHTTPMessage
    <3>2. \A x \in Returns({ErrInvalidEvent}, Nil) : x.err # Nil
      BY ErrorsAreNotNil DEF Returns, Errors
    <3> QED BY <2>2, <3>1, <3>2, BytesAreNoBatch
  <2> HIDE DEF ct
  <2>4. httpMode(ct) \in {"binary", "structured", "batch"} BY DEF httpMode
  <2> QED BY <1>1, <1>r, <2>3, <2>4
<1>2. CASE m = "structured"
  <2>1. ct = JSONMediaType BY <1>2, <1>t DEF HTTPOfStrings, contentTypeOf
  <2>2. httpMode(JSONMediaType) = "structured" BY ModeTypeAssumption DEF httpMode
  <2> QED BY <1>2, <1>r, <2>1, <2>2
<1>3. CASE m = "batch"
  <2>1. ct = JSONBatchMediaType BY <1>3, <1>t DEF HTTPOfStrings, contentTypeOf
  <2>2. httpMode(JSONBatchMediaType) = "batch" BY ModeTypeAssumption DEF httpMode
  <2> QED BY <1>3, <1>r, <2>1, <2>2
<1> QED BY <1>1, <1>2, <1>3 DEF Modes

LEMMA BinaryPosted ==
  ASSUME NEW msg, HTTPOfStrings("binary", msg), readMode("http", msg) = "binary",
         NEW lim, NEW d \in DecodeHTTP(msg, lim), d.err = Nil
  PROVE  \E f : d.value = <<f>> /\ HTTPBinaryTaken(msg.header, lim, f)
<1>1. PICK ct \in Strings, s \in Strings :
        /\ contentTypeOf(msg) = ct /\ (ct = "" => s = "")
        /\ msg.body = Bytes(s) /\ msg.body.form = "bytes" /\ msg.body.bytes = s
  BY BinaryPostedParts
<1>2. httpMode(ct) = "binary"
  BY <1>1 DEF readMode
<1>3. /\ d \in decodeHTTPMessage("binary", msg, lim)
      /\ ~(ct # "" /\ Size(ct) > lim.MaxAttributeValueBytes)
      /\ readHTTPBody(BodySize(msg.body), bodyLimit("binary", lim)) = {}
  BY <1>1, <1>2, DecodeHTTPParts
<1>4. d \in single(decodeHTTPBinary(msg.header, contentTypeOf(msg), msg.body.bytes, lim))
  BY <1>3 DEF decodeHTTPMessage
<1>5. PICK p \in decodeHTTPBinary(msg.header, ct, s, lim) :
        d = [p EXCEPT !.value = IF p.err # Nil THEN Nil ELSE <<p.value>>]
  BY <1>1, <1>4 DEF single
<1>6. p = [value |-> p.value, err |-> p.err]
  BY DecodeHTTPBinaryResult DEF EventResult
<1>7. d.err = p.err /\ (p.err = Nil => d.value = <<p.value>>)
  BY <1>5, <1>6
<1>8. readHTTPBody(Size(s), lim.MaxDataBytes) = {}
  <2>1. BodySize(msg.body) = Size(s) BY <1>1 DEF BodySize, ElementSize
  <2>2. bodyLimit("binary", lim) = lim.MaxDataBytes BY DEF bodyLimit
  <2> QED BY <1>3, <2>1, <2>2
<1>9. HTTPBinaryTaken(msg.header, lim, p.value)
  BY <1>1, <1>3, <1>5, <1>7, <1>8 DEF HTTPBinaryTaken
<1> QED BY <1>7, <1>9

LEMMA StructuredPosted ==
  ASSUME NEW m \in {"binary", "structured"}, NEW msg, HTTPOfStrings(m, msg), ClosedStrings,
         readMode("http", msg) = "structured",
         NEW lim, NEW d \in DecodeHTTP(msg, lim), d.err = Nil
  PROVE  \E f : /\ d.value = <<f>> /\ DocumentTaken(msg.body, lim, f)
                /\ validateStructuredHTTPMetadata(msg.header, f, lim) = {}
<1>1. httpMode(contentTypeOf(msg)) = "structured"
  BY DEF readMode
<1>4. d \in decodeHTTPMessage("structured", msg, lim)
  BY <1>1, DecodeHTTPParts
<1>5. PICK p \in DecodeJSON(msg.body, lim) :
        d \in (IF p.err # Nil THEN {p}
               ELSE Returns(validateStructuredHTTPMetadata(msg.header, p.value, lim), <<p.value>>))
  BY <1>4 DEF decodeHTTPMessage
<1>6. p.err = Nil
  BY <1>5
<1> DEFINE F == validateStructuredHTTPMetadata(msg.header, p.value, lim)
<1>7. d \in Returns(F, <<p.value>>) BY <1>5, <1>6
<1>8. Nil \notin F BY MetadataFailures
<1> HIDE DEF F
<1>9. d.value = <<p.value>> /\ F = {}
  BY <1>7, <1>8, ReturnsEither
<1>10. DocumentTaken(msg.body, lim, p.value)
  <2>1. CASE m = "structured"
    <3>1. DocOfStrings(msg.body) BY <2>1 DEF HTTPOfStrings
    <3> QED BY <1>6, <3>1, ReadDocument DEF DocumentTaken
  <2>2. CASE m = "binary"
    <3>1. PICK s \in Strings : msg.body = Bytes(s) BY <2>2, BinaryPostedParts
    <3> QED BY <1>6, <3>1, DecodedText
  <2> QED BY <2>1, <2>2
<1> QED BY <1>9, <1>10 DEF F

LEMMA BatchPosted ==
  ASSUME NEW msg, HTTPOfStrings("batch", msg), NEW lim, NEW d \in DecodeHTTP(msg, lim), d.err = Nil
  PROVE  /\ DOMAIN msg.header = {}
         /\ IsSequence(msg.body.docs) /\ ~(Len(msg.body.docs) > lim.MaxBatchEvents)
         /\ d.value = [i \in DOMAIN msg.body.docs |-> d.value[i]]
         /\ \A i \in DOMAIN msg.body.docs : DocumentTaken(msg.body.docs[i], lim, d.value[i])
<1> DEFINE docs == msg.body.docs
<1>1. /\ msg.contentType = <<JSONBatchMediaType>> /\ msg.body = Batch(docs)
      /\ IsSequence(docs) /\ \A i \in DOMAIN docs : DocOfStrings(docs[i])
  BY DEF HTTPOfStrings
<1>2. contentTypeOf(msg) = JSONBatchMediaType
  <2>1. <<JSONBatchMediaType>> # <<>> /\ <<JSONBatchMediaType>>[1] = JSONBatchMediaType OBVIOUS
  <2> QED BY <1>1, <2>1 DEF contentTypeOf
<1>3. httpMode(JSONBatchMediaType) = "batch"
  BY ModeTypeAssumption DEF httpMode
<1>4. d \in decodeHTTPMessage("batch", msg, lim)
  BY <1>2, <1>3, DecodeHTTPParts
<1>5. DOMAIN msg.header = {} /\ d \in DecodeJSONBatch(msg.body, lim)
  <2>1. d \in (IF DOMAIN msg.header # {} THEN Returns({ErrInvalidEvent}, Nil) ELSE DecodeJSONBatch(msg.body, lim))
    BY <1>4 DEF decodeHTTPMessage
  <2>2. \A x \in Returns({ErrInvalidEvent}, Nil) : x.err # Nil
    BY ErrorsAreNotNil DEF Returns, Errors
  <2> QED BY <2>1, <2>2
<1>6. msg.body.form = "batch" BY <1>1 DEF Batch
<1>7. /\ ~(Len(docs) > lim.MaxBatchEvents)
      /\ d.value = [i \in DOMAIN docs |-> d.value[i]]
      /\ \A i \in DOMAIN docs : \E p \in DecodeJSON(docs[i], lim) : p.err = Nil /\ d.value[i] = p.value
  BY <1>1, <1>5, <1>6, DecodeJSONBatchParts
<1> HIDE DEF docs
<1>8. \A i \in DOMAIN docs : DocumentTaken(docs[i], lim, d.value[i])
  BY <1>1, <1>7, ReadDocument DEF DocumentTaken
<1> QED BY <1>1, <1>5, <1>7, <1>8 DEF docs

LEMMA KafkaReadMode ==
  ASSUME NEW m, NEW msg, KafkaOfStrings(m, msg)
  PROVE  /\ readMode("kafka", msg) \in {"binary", "structured"}
         /\ m = "structured" => readMode("kafka", msg) = "structured"
<1>r. readMode("kafka", msg) = kafkaMode(recordType(msg))
  BY DEF readMode
<1>1. m = "structured" => recordType(msg) = JSONMediaType
  BY RecordTyped DEF KafkaOfStrings
<1>2. kafkaMode(JSONMediaType) = "structured"
  BY ModeTypeAssumption DEF kafkaMode
<1> QED BY <1>r, <1>1, <1>2 DEF kafkaMode

LEMMA BinaryRead ==
  ASSUME NEW msg, KafkaOfStrings("binary", msg), readMode("kafka", msg) = "binary",
         NEW lim, NEW r \in DecodeKafka(msg, lim), r.err = Nil
  PROVE  KafkaBinaryTaken(msg, lim, r.value.event) /\ recordFailures(msg, lim) = {} /\ headerFailures(msg.headers, lim) = {}
<1> DEFINE headers == cloudEventHeaders(msg.headers)
<1>1. PICK ct \in Strings :
        TypedRecord(msg, ct) /\ (msg.value = Nil \/ (ct # "" /\ \E s \in Strings : msg.value = Bytes(s)))
  BY DEF KafkaOfStrings
<1>2. KafkaTaken(msg, ct, lim, r)
  BY <1>1, DecodeKafkaParts
<1>3. recordFailures(msg, lim) ?? headerFailures(msg.headers, lim) = {}
  BY <1>2 DEF KafkaTaken
<1>4. PICK p \in decodeKafkaEvent(kafkaMode(ct), msg, ct, headers, lim) :
        r.err = p.err /\ (p.err = Nil => r.value.event = p.value)
  BY <1>2 DEF KafkaTaken
<1>5. kafkaMode(ct) = "binary"
  BY <1>1, RecordTyped DEF readMode
<1>6. p \in decodeKafkaBinary(msg.value, ct, headers, lim)
  BY <1>4, <1>5 DEF decodeKafkaEvent
<1>7. p.err = Nil /\ r.value.event = p.value BY <1>4
<1>8. KafkaBinaryTaken(msg, lim, r.value.event)
  BY <1>1, <1>6, <1>7 DEF KafkaBinaryTaken
<1> QED BY <1>3, <1>8 DEF ??

LEMMA StructuredRead ==
  ASSUME NEW m \in {"binary", "structured"}, NEW msg, KafkaOfStrings(m, msg), ClosedStrings,
         readMode("kafka", msg) = "structured",
         NEW lim, NEW r \in DecodeKafka(msg, lim), r.err = Nil
  PROVE  /\ DocumentTaken(msg.value, lim, r.value.event) /\ msg.value # Nil
         /\ validateStructuredKafkaMetadata(cloudEventHeaders(msg.headers), r.value.event, lim) = {}
<1> DEFINE headers == cloudEventHeaders(msg.headers)
<1>1. PICK ct : TypedRecord(msg, ct)
  BY DEF KafkaOfStrings
<1>2. KafkaTaken(msg, ct, lim, r)
  BY <1>1, DecodeKafkaParts
<1>3. kafkaMode(ct) = "structured"
  BY <1>1, RecordTyped DEF readMode
<1>4. PICK p \in decodeKafkaEvent("structured", msg, ct, headers, lim) :
        r.err = p.err /\ (p.err = Nil => r.value.event = p.value)
  BY <1>2, <1>3 DEF KafkaTaken
<1>n. msg.value # Nil
  <2> SUFFICES ASSUME msg.value = Nil PROVE FALSE
    OBVIOUS
  <2>1. p \in Returns({ErrInvalidEvent}, Nil) BY <1>4 DEF decodeKafkaEvent
  <2> QED BY <1>4, <2>1, ErrorsAreNotNil DEF Returns, Errors
<1>5. \/ \E x \in {ErrInvalidEvent, ErrLimitExceeded} : p \in Returns({x}, Nil)
      \/ \E d \in DecodeJSON(msg.value, lim) :
           p \in (IF d.err # Nil THEN {d}
                  ELSE Returns(validateStructuredKafkaMetadata(headers, d.value, lim), d.value))
  BY <1>4 DEF decodeKafkaEvent
<1>6. \A x \in {ErrInvalidEvent, ErrLimitExceeded} : \A y \in Returns({x}, Nil) : y.err # Nil
  BY ErrorsAreNotNil DEF Returns, Errors
<1>7. PICK d \in DecodeJSON(msg.value, lim) :
        p \in (IF d.err # Nil THEN {d}
               ELSE Returns(validateStructuredKafkaMetadata(headers, d.value, lim), d.value))
  BY <1>4, <1>5, <1>6
<1>8. d.err = Nil BY <1>4, <1>7
<1> DEFINE F == validateStructuredKafkaMetadata(headers, d.value, lim)
<1>9. p \in Returns(F, d.value) /\ p.err = Nil BY <1>4, <1>7, <1>8
<1>10. Nil \notin F BY MetadataFailures
<1> HIDE DEF F
<1>11. p.value = d.value /\ F = {}
  BY <1>9, <1>10, ReturnsEither
<1>12. r.value.event = d.value BY <1>4, <1>9, <1>11
<1>13. DocumentTaken(msg.value, lim, d.value)
  <2>1. CASE m = "structured"
    <3>1. DocOfStrings(msg.value) BY <2>1 DEF KafkaOfStrings
    <3> QED BY <1>8, <3>1, ReadDocument DEF DocumentTaken
  <2>2. CASE m = "binary"
    <3>1. PICK s \in Strings : msg.value = Bytes(s) BY <1>n, <2>2 DEF KafkaOfStrings
    <3> QED BY <1>8, <3>1, DecodedText
  <2> QED BY <2>1, <2>2
<1> QED BY <1>n, <1>11, <1>12, <1>13 DEF F

LEMMA DocumentRegained ==
  ASSUME NEW body, NEW lim, NEW f, DocumentTaken(body, lim, f), ClosedStrings, NEW m, m # "binary"
  PROVE  Regained(m, f)
<1>1. PICK p \in DecodeJSON(body, lim) : p.err = Nil /\ f = p.value
  BY DEF DocumentTaken
<1>2. EventOfStrings(p.value) /\ jsonConversionReport(p.value) = {}
  BY <1>1, DecodedJSON DEF DocumentTaken
<1> QED BY <1>1, <1>2 DEF Regained, reported

LEMMA HTTPRegained ==
  ASSUME NEW m \in Modes, NEW msg, HTTPOfStrings(m, msg), ClosedStrings, NEW lim,
         NEW d \in DecodeHTTP(msg, lim), d.err = Nil
  PROVE  /\ \A i \in DOMAIN d.value : Regained(readMode("http", msg), d.value[i])
         /\ readMode("http", msg) # "batch" => Len(d.value) = 1
<1> DEFINE k == readMode("http", msg)
<1>m. k = m \/ (m = "binary" /\ k = "structured")
  BY HTTPReadMode
<1> SUFFICES /\ \A i \in DOMAIN d.value : Regained(k, d.value[i])
             /\ k # "batch" => Len(d.value) = 1
  OBVIOUS
<1> HIDE DEF k
<1>1. CASE k = "binary"
  <2>1. PICK f : d.value = <<f>> /\ HTTPBinaryTaken(msg.header, lim, f)
    BY <1>1, <1>m, BinaryPosted DEF k
  <2>2. PICK ct \in Strings, s \in Strings :
          (ct = "" => s = "") /\ \E p \in decodeHTTPBinary(msg.header, ct, s, lim) : p.err = Nil /\ f = p.value
    BY <2>1 DEF HTTPBinaryTaken
  <2>3. HeaderOfStrings(msg.header) BY DEF HTTPOfStrings
  <2>4. EventOfStrings(f) /\ binaryConversionReport(f) = {}
    BY <2>2, <2>3, DecodedHTTPBinary
  <2>5. DOMAIN d.value = {1} /\ d.value[1] = f /\ Len(d.value) = 1 BY <2>1
  <2> QED BY <1>1, <2>4, <2>5 DEF Regained, reported
<1>2. CASE k = "structured"
  <2>1. PICK f : d.value = <<f>> /\ DocumentTaken(msg.body, lim, f)
    BY <1>2, <1>m, StructuredPosted DEF k
  <2>2. Regained(k, f) BY <1>2, <2>1, DocumentRegained
  <2>3. DOMAIN d.value = {1} /\ d.value[1] = f /\ Len(d.value) = 1 BY <2>1
  <2> QED BY <1>2, <2>2, <2>3
<1>3. CASE k = "batch"
  <2> DEFINE D == DOMAIN msg.body.docs
             v == d.value
  <2>1. v = [i \in D |-> v[i]] /\ \A i \in D : DocumentTaken(msg.body.docs[i], lim, v[i])
    BY <1>3, <1>m, BatchPosted
  <2> HIDE DEF D, v
  <2>2. DOMAIN v = D BY <2>1
  <2>3. \A i \in D : Regained(k, v[i]) BY <1>3, <2>1, DocumentRegained
  <2> QED BY <1>3, <2>2, <2>3 DEF v
<1> QED BY <1>1, <1>2, <1>3, <1>m DEF Modes

LEMMA KafkaRegained ==
  ASSUME NEW m \in Modes, NEW msg, KafkaOfStrings(m, msg), ClosedStrings, NEW lim,
         NEW r \in DecodeKafka(msg, lim), r.err = Nil
  PROVE  Regained(readMode("kafka", msg), r.value.event)
<1> DEFINE k == readMode("kafka", msg)
<1>m. k \in {"binary", "structured"} /\ m \in {"binary", "structured"} /\ (k = "binary" => m = "binary")
  BY KafkaReadMode DEF KafkaOfStrings, Modes
<1> SUFFICES Regained(k, r.value.event)
  OBVIOUS
<1> HIDE DEF k
<1>1. CASE k = "binary"
  <2> DEFINE f == r.value.event
  <2>1. KafkaBinaryTaken(msg, lim, f)
    BY <1>1, <1>m, BinaryRead DEF k
  <2> HIDE DEF f
  <2>2. PICK ct \in Strings :
          /\ msg.value = Nil \/ (ct # "" /\ \E s \in Strings : msg.value = Bytes(s))
          /\ \E p \in decodeKafkaBinary(msg.value, ct, cloudEventHeaders(msg.headers), lim) :
               p.err = Nil /\ f = p.value
    BY <2>1 DEF KafkaBinaryTaken
  <2>3. HeadersOfStrings(msg.headers) BY DEF KafkaOfStrings
  <2>4. EventOfStrings(f) /\ binaryConversionReport(f) = {}
    BY <2>2, <2>3, DecodedKafkaBinary
  <2> QED BY <1>1, <2>4 DEF Regained, reported, f
<1>2. CASE k = "structured"
  <2>1. DocumentTaken(msg.value, lim, r.value.event)
    BY <1>2, <1>m, StructuredRead DEF k
  <2> QED BY <1>2, <2>1, DocumentRegained
<1> QED BY <1>1, <1>2, <1>m

\* A record gives one event.
LEMMA DecodedRecord ==
  ASSUME NEW msg, NEW lim, NEW d \in decode("kafka", msg, lim), d.err = Nil
  PROVE  \E r \in DecodeKafka(msg, lim) : r.err = Nil /\ d.value = <<r.value.event>>
<1>1. PICK r \in DecodeKafka(msg, lim) :
        d = [r EXCEPT !.value = IF r.err # Nil THEN Nil ELSE <<@.event>>]
  BY DEF decode
<1>2. r = [value |-> r.value, err |-> r.err]
  BY DecodeKafkaResult
<1>3. d.err = r.err /\ (r.err = Nil => d.value = <<r.value.event>>)
  BY <1>1, <1>2
<1> QED BY <1>3

\* What is decoded from a message of strings is an error, or valid events.
LEMMA DecodedEvents ==
  ASSUME NEW b \in {"http", "kafka"}, NEW m \in Modes, NEW msg, MessageOfStrings(b, m, msg),
         NEW lim, NEW d \in decode(b, msg, lim)
  PROVE  EventsResult(d, msg.body)
<1>1. b = "http" => (msg.body.form = "batch" => IsSequence(msg.body.docs))
  <2>1. ASSUME b = "http", m = "binary" PROVE msg.body.form # "batch"
    <3>1. PICK s \in Strings : msg.body = Bytes(s) BY <2>1 DEF MessageOfStrings, HTTPOfStrings
    <3>2. Bytes(s).form = "bytes" BY DEF Bytes
    <3> QED BY <3>1, <3>2
  <2>2. ASSUME b = "http", m = "structured" PROVE msg.body.form # "batch"
    <3>1. msg.body = Doc(msg.body.members, msg.body.duplicate)
      BY <2>2 DEF MessageOfStrings, HTTPOfStrings, DocOfStrings
    <3>2. Doc(msg.body.members, msg.body.duplicate).form = "doc" BY DEF Doc
    <3> QED BY <3>1, <3>2
  <2>3. b = "http" /\ m = "batch" => IsSequence(msg.body.docs)
    BY DEF MessageOfStrings, HTTPOfStrings
  <2> QED BY <2>1, <2>2, <2>3 DEF Modes
<1> QED BY <1>1, DecodeResult

\* Whatever a message of strings says, the events decoded from it are whole, and the
\* binding carries them without loss in the mode it read them in.
LEMMA DecodedWhole ==
  ASSUME NEW b \in {"http", "kafka"}, NEW m \in Modes, NEW msg, MessageOfStrings(b, m, msg),
         ClosedStrings, NEW lim, NEW d \in decode(b, msg, lim), d.err = Nil
  PROVE  LET k == readMode(b, msg) IN
         AllWhole(d.value) /\ losses(k, d.value) = {} /\ Supported(b, k, d.value)
<1> DEFINE k == readMode(b, msg)
<1>1. EventsResult(d, msg.body)
  BY DecodedEvents
<1>2. IsSequence(d.value) /\ \A i \in DOMAIN d.value : ValidEvent(d.value[i])
  BY <1>1 DEF EventsResult
<1>3. (\A i \in DOMAIN d.value : Regained(k, d.value[i])) /\ Supported(b, k, d.value)
  <2>1. CASE b = "http"
    <3>1. d \in DecodeHTTP(msg, lim) /\ HTTPOfStrings(m, msg)
      BY <2>1 DEF decode, MessageOfStrings
    <3>2. (\A i \in DOMAIN d.value : Regained(k, d.value[i])) /\ (k # "batch" => Len(d.value) = 1)
      BY <2>1, <3>1, HTTPRegained
    <3>3. k \in Modes BY <2>1, <3>1, HTTPReadMode DEF Modes
    <3> HIDE DEF k
    <3>4. Supported(b, k, d.value) BY <2>1, <3>2, <3>3 DEF Supported, Modes
    <3> QED BY <3>2, <3>4
  <2>2. CASE b = "kafka"
    <3>1. PICK r \in DecodeKafka(msg, lim) : r.err = Nil /\ d.value = <<r.value.event>>
      BY <2>2, DecodedRecord
    <3>2. KafkaOfStrings(m, msg) BY <2>2 DEF MessageOfStrings
    <3>3. Regained(k, r.value.event)
      BY <2>2, <3>1, <3>2, KafkaRegained
    <3>4. k \in {"binary", "structured"} BY <2>2, <3>2, KafkaReadMode
    <3>5. DOMAIN d.value = {1} /\ d.value[1] = r.value.event /\ Len(d.value) = 1 BY <3>1
    <3> QED BY <2>2, <3>3, <3>4, <3>5 DEF Supported
  <2> QED BY <2>1, <2>2
<1>4. AllWhole(d.value)
  BY <1>2, <1>3 DEF AllWhole, WholeEvent, Regained
<1>5. losses(k, d.value) = {}
  <2>1. \A i \in DOMAIN d.value : reported(k, d.value[i]) = {}
    BY <1>3 DEF Regained
  <2>2. \A i \in DOMAIN d.value : {<<i, field>> : field \in reported(k, d.value[i])} = {}
    BY <2>1
  <2> QED BY <2>2 DEF losses
<1> QED BY <1>3, <1>4, <1>5

\* One event that crosses arrives whole, with every extension of type String, unless
\* its data is taken for the event.
LEMMA CrossedOnce ==
  ASSUME NEW b \in {"http", "kafka"}, NEW m \in Modes, NEW s \in BOOLEAN, NEW e, WholeEvent(e),
         ~Shadowed(e), ClosedStrings, NEW lim, NEW r \in cross(b, m, s, e, lim), r.err = Nil
  PROVE  WholeEvent(r.value) /\ ~Shadowed(r.value) /\ KeepsStrings(e, r.value)
<1> DEFINE es == <<e>>
<1>1. DOMAIN es = {1} /\ es[1] = e /\ Len(es) = 1 /\ IsSequence(es)
  BY DEF IsSequence
<1> HIDE DEF es
<1>2. AllWhole(es) /\ AllValid(es)
  BY <1>1 DEF AllWhole, AllValid, WholeEvent
<1>3. PICK q \in encode(b, m, s, es) :
        r \in IF q.err # Nil THEN {q}
              ELSE {[d EXCEPT !.value = IF d.err # Nil THEN Nil ELSE @[1]]
                    : d \in decode(b, q.value.message, lim)}
  BY DEF cross, es
<1>4. q.err = Nil
  BY <1>3
<1>5. PICK d \in decode(b, q.value.message, lim) :
        r = [d EXCEPT !.value = IF d.err # Nil THEN Nil ELSE @[1]]
  BY <1>3, <1>4
<1>6. Carries(b, m, es, q.value.message)
  BY <1>1, <1>2, <1>4, EncodeReports
<1>7. MessageOfStrings(b, m, q.value.message)
  BY <1>2, <1>6, CarriedStrings
<1>8. d = [value |-> d.value, err |-> d.err]
  BY <1>7, DecodedEvents DEF EventsResult
<1>9. d.err = Nil /\ r.value = d.value[1]
  BY <1>5, <1>8
<1>10. Crossed(b, m, es, d.value, d.err)
  BY <1>2, <1>6, CarriedOver
<1>11. DOMAIN d.value = {1} /\ KeepsStrings(e, d.value[1])
  BY <1>1, <1>9, <1>10 DEF Crossed, Arrives
<1>12. WholeEvent(d.value[1])
  BY <1>7, <1>9, <1>11, DecodedWhole DEF AllWhole
<1> QED BY <1>9, <1>11, <1>12 DEF KeepsStrings
=============================================================================
