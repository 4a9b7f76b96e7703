---------------------------- MODULE KafkaBinding ----------------------------
(***************************************************************************)
(* The Kafka protocol binding (kafka.go): binary and structured modes.  A  *)
(* record is [key, value, headers]; key and value are Nil for a nil slice, *)
(* so a tombstone (Nil) differs from a present empty value.  A header is   *)
(* [owner, name, value]: owner "ce" for the ce_ prefix, "content-type", or *)
(* "transport" for every other header.                                     *)
(***************************************************************************)
EXTENDS HTTPBinding

\* Names of attributes are plain ASCII.
ASSUME NameAssumption ==
  /\ \A n \in reservedAttributeNames \cup {""} : ValidUTF8(n)
  /\ \A s \in Strings : ValidName(s) => ValidUTF8(s)

Header(owner, name, value) == [owner |-> owner, name |-> name, value |-> value]

-----------------------------------------------------------------------------
(* Encoding.                                                                *)

\* The code sorts the headers by key; the order carries no meaning.
encodeKafkaBinaryHeaders(event) ==
  LET context == contextAttributes(event)
      ce == {Header("ce", n, context[n]) : n \in DOMAIN context}
      ct == IF event.dataContentType # "" THEN {event.dataContentType}
            ELSE IF present(event.data) THEN {implicitDataContentType(event.data.kind)}
            ELSE {}
  IN  FoldSet(LAMBDA h, headers : Append(headers, h), <<>>,
              ce \cup {Header("content-type", "", t) : t \in ct})

EncodeKafkaWithReport(event, mode, key) ==
  CASE mode = "binary" ->
         Returns(Validate(event),
                 [message |-> [key     |-> key,
                               value   |-> IF present(event.data) THEN Bytes(event.data.bytes) ELSE Nil,
                               headers |-> encodeKafkaBinaryHeaders(event)],
                  report  |-> binaryConversionReport(event)])
    [] mode = "structured" ->
         {[r EXCEPT !.value =
             IF r.err # Nil THEN Nil
             ELSE [message |-> [key |-> key, value |-> @.body,
                                headers |-> <<Header("content-type", "", JSONMediaType)>>],
                   report |-> @.report]]
          : r \in EncodeJSONWithReport(event)}
    [] OTHER -> Returns({ErrUnsupportedMode}, Nil)

KafkaPartitionKey(event) ==
  LET ext == event.extensions IN
  IF /\ "partitionkey" \in DOMAIN ext
     /\ ext["partitionkey"].kind = "string"
     /\ ext["partitionkey"].text # ""
  THEN ext["partitionkey"].text
  ELSE Nil

-----------------------------------------------------------------------------
(* Decoding.                                                                *)

\* Admission of the record before anything is copied.
recordFailures(record, limits) ==
  When(\/ limits.MaxEventBytes <= 0
       \/ limits.MaxDataBytes <= 0
       \/ limits.MaxKafkaKeyBytes <= 0
       \/ record.key # Nil /\ Size(record.key) > limits.MaxKafkaKeyBytes
       \/ limits.MaxKafkaHeaders <= 0
       \/ Len(record.headers) > limits.MaxKafkaHeaders
       \/ limits.MaxKafkaHeaderNameBytes <= 0
       \/ limits.MaxKafkaHeaderValueBytes <= 0, ErrLimitExceeded)

wireName(header) ==
  CASE header.owner = "ce"           -> 3 + Size(header.name)
    [] header.owner = "content-type" -> Size("content-type")
    [] OTHER                         -> Size(header.name)

headerFailure(header, limits) ==
     When(\/ wireName(header) > limits.MaxKafkaHeaderNameBytes
          \/ Size(header.value) > limits.MaxKafkaHeaderValueBytes, ErrLimitExceeded)
  ?? When(~ValidUTF8(header.name), ErrInvalidEvent)

\* The headers are a slice: the first one that fails decides.
headerFailures(headers, limits) ==
  LET failing == {i \in DOMAIN headers : headerFailure(headers[i], limits) # {}}
  IN  IF failing = {} THEN {} ELSE headerFailure(headers[Min(failing)], limits)

\* Values that were collected are pairs of a value and its place in the record.
collected(headers, places) == {<<i, headers[i].value>> : i \in places}
soleValue(values) == (CHOOSE v \in values : TRUE)[2]
repeated(values)  == \E u, v \in values : u # v

ownedBy(headers, owner) == {i \in DOMAIN headers : headers[i].owner = owner}

cloudEventHeaders(headers) ==
  [n \in {headers[i].name : i \in ownedBy(headers, "ce")} |->
     collected(headers, {i \in ownedBy(headers, "ce") : headers[i].name = n})]

kafkaMode(contentType) ==
  IF MediaClass(contentType) = "ce+json" THEN "structured" ELSE "binary"

detectKafkaMode(contentTypes) ==
  LET ct    == soleValue(contentTypes)
      class == MediaClass(ct)
  IN  IF contentTypes = {} THEN Returns({}, "binary")
      ELSE Returns(   When(repeated(contentTypes), ErrInvalidEvent)
                   ?? When(~ValidUTF8(ct) \/ class \in {"malformed", "none"}, ErrInvalidEvent)
                   ?? When(class \in {"ce-other", "ce-other+json", "ce-batch+json"}, ErrUnsupportedMode),
                   kafkaMode(ct))

\* The checks both Kafka modes make on one context header.
contextHeaderFailure(name, values, limits) ==
     When(nameTooLong(name, limits), ErrLimitExceeded)
  ?? When(repeated(values), ErrInvalidEvent)
  ?? When(\/ limits.MaxAttributeValueBytes <= 0
          \/ Size(soleValue(values)) > limits.MaxAttributeValueBytes, ErrLimitExceeded)
  ?? When(~ValidUTF8(soleValue(values)), ErrInvalidEvent)

validateStructuredKafkaMetadata(headers, event, limits) ==
  LET expected == expectedMetadata(event) IN
     When(Cardinality(DOMAIN headers) > limits.MaxAttributes, ErrLimitExceeded)
  ?? (UNION {contextHeaderFailure(n, headers[n], limits)
             ?? When(~(n \in DOMAIN expected /\ soleValue(headers[n]) = expected[n]), ErrInvalidEvent)
             : n \in DOMAIN headers})

decodeKafkaBinary(value, contentType, headers, limits) ==
  LET decoded    == [n \in DOMAIN headers |-> soleValue(headers[n])]
      data       == IF value = Nil THEN Returns({}, NoData)
                    ELSE IF Size(value.bytes) > limits.MaxDataBytes
                    THEN Returns({ErrLimitExceeded}, Nil)
                    ELSE dataOf(contentType, value.bytes)
      dataResult == CHOOSE r \in data : TRUE
      failures ==
           When("datacontenttype" \in DOMAIN headers, ErrInvalidEvent)
        ?? When(Cardinality(DOMAIN headers) > limits.MaxAttributes, ErrLimitExceeded)
        ?? (UNION {contextHeaderFailure(n, headers[n], limits) : n \in DOMAIN headers})
        ?? contextFailures(decoded)
        ?? When(dataResult.err # Nil, dataResult.err)
  IN  IF failures # {} THEN Returns(failures, Nil)
      ELSE NewEvent(AttributesFrom(decoded, contentType), dataResult.value)

decodeKafkaEvent(mode, record, contentType, headers, limits) ==
  IF mode = "binary" THEN decodeKafkaBinary(record.value, contentType, headers, limits)
  ELSE IF record.value = Nil THEN Returns({ErrInvalidEvent}, Nil)
  ELSE IF BodySize(record.value) > limits.MaxEventBytes THEN Returns({ErrLimitExceeded}, Nil)
  ELSE UNION {IF r.err # Nil THEN {r}
              ELSE Returns(validateStructuredKafkaMetadata(headers, r.value, limits), r.value)
              : r \in DecodeJSON(record.value, limits)}

\* In the order of the record, repetitions included.
transportHeaders(headers) ==
  LET among[n \in 0..Len(headers)] ==
        IF n = 0 THEN <<>>
        ELSE IF headers[n].owner = "transport" THEN Append(among[n - 1], headers[n])
        ELSE among[n - 1]
  IN  among[Len(headers)]

contentTypesOf(record) == collected(record.headers, ownedBy(record.headers, "content-type"))

\* The content type a record has, if it has one.
recordType(record) == IF contentTypesOf(record) = {} THEN "" ELSE soleValue(contentTypesOf(record))

DecodeKafka(record, limits) ==
  LET contentTypes == contentTypesOf(record)
      contentType  == recordType(record)
      rejected     == recordFailures(record, limits) ?? headerFailures(record.headers, limits)
      message(mode, event) ==
        [mode |-> mode, event |-> event, key |-> record.key,
         transportHeaders |-> transportHeaders(record.headers)]
  IN  IF rejected # {} THEN Returns(rejected, Nil)
      ELSE UNION {IF m.err # Nil THEN {m}
                  ELSE {[r EXCEPT !.value = IF r.err # Nil THEN Nil ELSE message(m.value, @)]
                        : r \in decodeKafkaEvent(m.value, record, contentType,
                                  cloudEventHeaders(record.headers), limits)}
                  : m \in detectKafkaMode(contentTypes)}
=============================================================================
