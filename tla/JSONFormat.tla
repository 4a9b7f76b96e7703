----------------------------- MODULE JSONFormat -----------------------------
(***************************************************************************)
(* The JSON event format and its batch form (json.go), with the admission  *)
(* limits of limits.go.                                                    *)
(*                                                                         *)
(* A body is what travels: [form |-> "doc", ...] is one JSON object with   *)
(* its raw members, and [form |-> "batch", docs] a JSON array of bodies,   *)
(* as an encoder writes them; [form |-> "bytes", bytes] is any other text, *)
(* the data of a binary message above all.  Such text may itself be a JSON *)
(* object, the Document it is read as.                                     *)
(***************************************************************************)
EXTENDS CloudEvent, Integers, Sequences, FiniteSetsExt

CONSTANTS
  JSONType(_),   \* "string", "bool", "number", "null" or "container"
  JSONDepth(_),  \* container depth of a raw JSON value, 0 for a scalar
  Document(_),   \* the JSON object a text is, or Nil
  Base64Length(_), \* base64DecodedLength: the length encoded text announces
  MaxInt         \* the largest int; int64 is taken to be as wide

ASSUME MaxIntAssumption == MaxInt \in Nat

ASSUME Base64LengthAssumption == \A s \in Strings : Base64Length(Base64(s)) = Size(s)

ASSUME JSONTypeAssumption ==
  \A s \in Strings :
    /\ JSONType(Quote(s)) = "string" /\ TrimSpace(Quote(s)) = Quote(s) /\ ValidJSON(Quote(s))
    /\ s \in {"true", "false"} => JSONType(s) = "bool" /\ ValidJSON(s)
    /\ Integer32(s) = s => JSONType(s) = "number" /\ ValidJSON(s)
    /\ ValidJSON(s) /\ JSONType(s) = "string" => Unquote(s) # Nil

Bytes(value) == [form |-> "bytes", bytes |-> value]
Doc(members, duplicate) ==
  [form |-> "doc", members |-> members, duplicate |-> duplicate]
Batch(docs) == [form |-> "batch", docs |-> docs]

\* The members of an object are JSON, and shorter than the object; null is an
\* object without members, as it is for json.Unmarshal.
ASSUME DocumentAssumption ==
  /\ Document("") = Nil
  /\ \A s \in Strings : Document(s) # Nil =>
       LET members == Document(s).members IN
       /\ Document(s) = Doc(members, Document(s).duplicate)
       /\ members = [n \in DOMAIN members |-> members[n]] /\ IsFiniteSet(DOMAIN members)
       /\ \A n \in DOMAIN members : ValidJSON(members[n]) /\ TrimSpace(members[n]) # s

\* Exact length of the object encodeJSON writes: {"name":value,...}.
DocSize(doc) ==
  1 + MapThenSumSet(LAMBDA n : Size(n) + Size(doc.members[n]) + 4, DOMAIN doc.members)

ElementSize(body) == IF body.form = "doc" THEN DocSize(body) ELSE Size(body.bytes)

BodySize(body) ==
  IF body.form = "batch"
  THEN 1 + MapThenSumSet(LAMBDA i : ElementSize(body.docs[i]) + 1, DOMAIN body.docs)
  ELSE ElementSize(body)

-----------------------------------------------------------------------------
(* Encoding.                                                                *)

newBinaryString(value) == Base64(value)

encodeJSONData(data) ==
  CASE data.kind = "json"   -> Single("data", data.bytes)
    [] data.kind = "text"   -> Single("data", Quote(data.bytes))
    [] data.kind = "binary" -> Single("data_base64", Quote(newBinaryString(data.bytes)))
    [] OTHER                -> <<>>

\* The members in encodeJSON's order of appending; names that collide would be
\* written twice, which is what the duplicate flag records.
encodeJSON(event) ==
  LET strings  == coreAttributes(event)
                  ++ Optional("datacontenttype",
                       IF event.data.kind = "text" /\ event.dataContentType = ""
                       THEN implicitDataContentType("text") ELSE event.dataContentType)
      exts     == [n \in DOMAIN event.extensions |->
                     IF event.extensions[n].kind \in {"boolean", "integer"}
                     THEN event.extensions[n].text
                     ELSE Quote(event.extensions[n].text)]
      data     == encodeJSONData(event.data)
      own      == [n \in DOMAIN strings |-> Quote(strings[n])] ++ data
  IN  Doc(own ++ exts, DOMAIN own \cap DOMAIN exts # {})

\* EncodeJSONWithReport: the document and the fields it changes.
EncodeJSONWithReport(event) ==
  Returns(Validate(event),
          [body |-> encodeJSON(event), report |-> jsonConversionReport(event)])

\* Mutant: every loss is reported under the first index.
EncodeJSONBatchWithReportFirst(events) ==
  Returns(UNION {Validate(events[i]) : i \in DOMAIN events},
          [body   |-> Batch([i \in DOMAIN events |-> encodeJSON(events[i])]),
           report |-> UNION {{<<1, field>> : field \in jsonConversionReport(events[i])}
                             : i \in DOMAIN events}])

\* The report of a batch names an event's fields under its index.
EncodeJSONBatchWithReport(events) ==
  Returns(UNION {Validate(events[i]) : i \in DOMAIN events},
          [body   |-> Batch([i \in DOMAIN events |-> encodeJSON(events[i])]),
           report |-> UNION {{<<i, field>> : field \in jsonConversionReport(events[i])}
                             : i \in DOMAIN events}])

-----------------------------------------------------------------------------
(* Decoding one document.                                                   *)

\* Mutant: the quotation marks are not counted.
exceedsJSONEncodedStringLimitBare(size, limit) ==
  \/ limit <= 0
  \/ size \div 6 > limit
  \/ size \div 6 = limit /\ size % 6 > 0

exceedsJSONEncodedStringLimit(size, limit) ==
  \/ limit <= 0
  \/ size \div 6 > limit
  \/ size \div 6 = limit /\ size % 6 > 2

countJSONAttributes(doc) == Cardinality(DOMAIN doc.members \ {"data", "data_base64"})

hasMember(doc, name) ==
  name \in DOMAIN doc.members /\ JSONType(doc.members[name]) # "null"

\* What json.Unmarshal makes of a body.
asDocument(body) ==
  IF body.form = "bytes" /\ Document(body.bytes) # Nil THEN Document(body.bytes) ELSE body

deeper(body, maxDepth) ==
  IF body.form = "doc"
  THEN maxDepth <= 0 \/ \E n \in DOMAIN body.members : 1 + JSONDepth(body.members[n]) > maxDepth
  ELSE JSONDepth(body.bytes) > maxDepth

\* Mutant: the last of several members of one name wins.
inspectJSONLastWins(body, maxDepth) ==
     When(maxDepth <= 0, ErrLimitExceeded)
  ?? (IF body.form = "batch"
      THEN When(\E i \in DOMAIN body.docs : deeper(body.docs[i], maxDepth - 1), ErrLimitExceeded)
      ELSE When(deeper(body, maxDepth), ErrLimitExceeded))

\* Depth everywhere, duplicates in the outermost object only; which of the two
\* a document meets first depends on the order of its members.  Text is read up
\* to where it stops being JSON.
inspectJSON(body, maxDepth) ==
     When(maxDepth <= 0, ErrLimitExceeded)
  ?? (CASE body.form = "doc"   -> When(deeper(body, maxDepth), ErrLimitExceeded)
                                  \cup When(body.duplicate, ErrInvalidEvent)
        [] body.form = "batch" -> When(\E i \in DOMAIN body.docs :
                                         deeper(body.docs[i], maxDepth - 1), ErrLimitExceeded)
        [] OTHER               -> When(deeper(body, maxDepth), ErrLimitExceeded))

stringMember(doc, name, required, limits) ==
  LET raw   == doc.members[name]
      limit == limits.MaxAttributeValueBytes
  IN  IF ~hasMember(doc, name) THEN When(required, ErrInvalidEvent)
      ELSE When(exceedsJSONEncodedStringLimit(Size(raw), limit), ErrLimitExceeded)
           ?? When(Unquote(raw) = Nil, ErrInvalidEvent)
           ?? When(Size(Unquote(raw)) > limit, ErrLimitExceeded)

memberText(doc, name) ==
  IF hasMember(doc, name) THEN Unquote(doc.members[name]) ELSE ""

decodeJSONAttribute(raw) ==
  LET text == Unquote(raw) IN
  CASE JSONType(raw) = "string" ->
         Returns(When(~ValidCloudString(text), ErrInvalidAttribute), Attribute("string", text))
    [] JSONType(raw) = "bool" ->
         Returns({}, Attribute("boolean", raw))
    [] JSONType(raw) = "number" ->
         Returns(When(Integer32(raw) = Nil, ErrInvalidAttribute),
                 Attribute("integer", Integer32(raw)))
    [] OTHER -> Returns({ErrInvalidAttribute}, Nil)

\* The iteration of the extension loop for one member.
extensionFailure(doc, name, limits) ==
  LET raw     == doc.members[name]
      limit   == limits.MaxAttributeValueBytes
      decoded == CHOOSE r \in decodeJSONAttribute(raw) : TRUE
  IN  When(limits.MaxAttributeNameBytes <= 0 \/ Size(name) > limits.MaxAttributeNameBytes,
           ErrLimitExceeded)
      ?? (IF ~hasMember(doc, name) THEN {}
          ELSE When(IF JSONType(raw) = "string"
                    THEN exceedsJSONEncodedStringLimit(Size(raw), limit)
                    ELSE Size(raw) > limit, ErrLimitExceeded)
               ?? When(decoded.err # Nil, ErrInvalidEvent)
               ?? When(Size(decoded.value.text) > limit, ErrLimitExceeded))

extensionMembers(doc) == DOMAIN doc.members \ reservedAttributeNames

decodedExtensions(doc) ==
  [n \in {m \in extensionMembers(doc) : hasMember(doc, m)} |->
     (CHOOSE r \in decodeJSONAttribute(doc.members[n]) : TRUE).value]

decodeJSONData(doc, contentType, limits) ==
  LET limit  == limits.MaxDataBytes
      base64 == Unquote(doc.members["data_base64"])
      raw    == TrimSpace(doc.members["data"])
      \* json.Unmarshal of null leaves a string empty.
      text   == IF JSONType(raw) = "null" THEN "" ELSE Unquote(raw)
      textFailures ==
           When(exceedsJSONEncodedStringLimit(Size(raw), limit), ErrLimitExceeded)
        ?? When(text = Nil, ErrInvalidEvent)
        ?? When(Size(text) > limit, ErrLimitExceeded)
  IN  IF {"data", "data_base64"} \subseteq DOMAIN doc.members THEN Returns({ErrInvalidEvent}, Nil)
      ELSE IF "data_base64" \in DOMAIN doc.members
      THEN Returns(   When(~hasMember(doc, "data_base64") \/ base64 = Nil, ErrInvalidEvent)
                   ?? When(limit <= 0 \/ Base64Length(base64) > limit, ErrLimitExceeded)
                   \* Line breaks, which decoding would skip, are refused.
                   ?? When(Unbase64(base64) = Nil \/ Base64(Unbase64(base64)) # base64, ErrInvalidEvent),
                   NewBinaryData(Unbase64(base64)))
      ELSE IF "data" \notin DOMAIN doc.members THEN Returns({}, NoData)
      ELSE IF isJSONMediaType(contentType)
      THEN IF limit <= 0 \/ Size(raw) > limit THEN Returns({ErrLimitExceeded}, Nil)
           ELSE NewJSONData(raw)
      ELSE IF textFailures # {} THEN Returns(textFailures, Nil)
      ELSE NewTextData(text)

\* Everything DecodeJSON checks before it looks at extensions and data, in
\* order; each stage returns at once.
decodeContext(doc, limits) ==
     stringMember(doc, "specversion", TRUE, limits)
  ?? When(memberText(doc, "specversion") # specVersion, ErrInvalidEvent)
  ?? stringMember(doc, "id", TRUE, limits)
  ?? stringMember(doc, "source", TRUE, limits)
  ?? stringMember(doc, "type", TRUE, limits)
  ?? stringMember(doc, "datacontenttype", FALSE, limits)
  ?? stringMember(doc, "dataschema", FALSE, limits)
  ?? stringMember(doc, "subject", FALSE, limits)
  ?? stringMember(doc, "time", FALSE, limits)
  ?? When(hasMember(doc, "time") /\ ParseTime(memberText(doc, "time")) = Nil, ErrInvalidEvent)

DecodeJSON(body, limits) ==
  LET doc         == asDocument(body)
      contentType == memberText(doc, "datacontenttype")
      dataResult  == CHOOSE r \in decodeJSONData(doc, contentType, limits) : TRUE
      attributes  == Attributes(memberText(doc, "id"), memberText(doc, "source"),
                       memberText(doc, "type"), contentType,
                       memberText(doc, "dataschema"), memberText(doc, "subject"),
                       IF hasMember(doc, "time") THEN ParseTime(memberText(doc, "time")) ELSE "",
                       decodedExtensions(doc))
      failures ==
           When(limits.MaxEventBytes <= 0 \/ BodySize(body) > limits.MaxEventBytes, ErrLimitExceeded)
        ?? inspectJSON(doc, limits.MaxDepth)
        ?? When(doc.form # "doc", ErrInvalidEvent)
        ?? When(limits.MaxAttributes <= 0 \/ countJSONAttributes(doc) > limits.MaxAttributes,
                ErrLimitExceeded)
        ?? decodeContext(doc, limits)
        ?? (UNION {extensionFailure(doc, n, limits) : n \in extensionMembers(doc)})
        ?? When(dataResult.err # Nil, dataResult.err)
  IN  IF failures # {} THEN Returns(failures, Nil)
      ELSE NewEvent(attributes, dataResult.value)

-----------------------------------------------------------------------------
(* Decoding a batch: the first event that fails fails the batch.  Text of    *)
(* binary data never gets here: the HTTP binding refuses its ce- headers    *)
(* first, and the Kafka binding has no batch mode.                          *)

DecodeJSONBatch(body, limits) ==
  LET decoded(i) == DecodeJSON(body.docs[i], limits)
      failing    == {i \in DOMAIN body.docs : \E r \in decoded(i) : r.err # Nil}
      failures   ==
           When(limits.MaxEventBytes <= 0 \/ BodySize(body) > limits.MaxEventBytes, ErrLimitExceeded)
        ?? When(limits.MaxDepth <= 0 \/ limits.MaxDepth = MaxInt, ErrLimitExceeded)
        ?? inspectJSON(body, limits.MaxDepth + 1)
        ?? When(body.form # "batch", ErrInvalidEvent)
        ?? When(limits.MaxBatchEvents <= 0 \/ Len(body.docs) > limits.MaxBatchEvents, ErrLimitExceeded)
        ?? (IF failing = {} THEN {} ELSE {r.err : r \in decoded(Min(failing))})
  IN  Returns(failures,
              [i \in DOMAIN body.docs |-> (CHOOSE r \in decoded(i) : TRUE).value])
=============================================================================
