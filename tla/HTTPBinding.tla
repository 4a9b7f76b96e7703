---------------------------- MODULE HTTPBinding -----------------------------
(***************************************************************************)
(* The HTTP protocol binding (http.go): binary, structured and batch       *)
(* modes.  A message is [contentType, header, body]; contentType is the    *)
(* sequence of all Content-Type values, and header maps every key with the *)
(* ce- prefix to its values.  Go's header map keeps spellings apart, so a  *)
(* key is <<spelling, lower-case name>>.                                   *)
(***************************************************************************)
EXTENDS JSONFormat

CONSTANTS
  Escape(_),    \* encodeHTTPAttribute: percent-encoding
  Unescape(_)   \* decodeHTTPAttribute: unquote, unescape, check UTF-8

ASSUME EscapeAssumption ==
  \A s \in Strings :
    /\ ValidUTF8(s) => Unescape(Escape(s)) = s
    /\ Unescape(s) # Nil => ValidUTF8(Unescape(s))

Modes == {"binary", "structured", "batch"}

JSONMediaType      == "application/cloudevents+json"
JSONBatchMediaType == "application/cloudevents-batch+json"

ASSUME ModeTypeAssumption ==
  /\ MediaClass(JSONMediaType) = "ce+json" /\ MediaClass(JSONBatchMediaType) = "ce-batch+json"
  /\ ValidUTF8(JSONMediaType)

Canonical(name) == <<"canonical", name>>

-----------------------------------------------------------------------------
(* Encoding.                                                                *)

\* Mutant: no content type is written for data that declares none.
encodeHTTPBinaryUntyped(event) ==
  LET context == contextAttributes(event)
  IN  [contentType |-> IF event.dataContentType # "" THEN <<event.dataContentType>> ELSE <<>>,
       header |-> [k \in {Canonical(n) : n \in DOMAIN context} |-> <<Escape(context[k[2]])>>],
       body   |-> Bytes(IF present(event.data) THEN event.data.bytes ELSE "")]

encodeHTTPBinary(event) ==
  LET context == contextAttributes(event)
      ct      == IF event.dataContentType # "" THEN <<event.dataContentType>>
                 ELSE IF present(event.data) THEN <<implicitDataContentType(event.data.kind)>>
                 ELSE <<>>
  IN  [contentType |-> ct,
       header |-> [k \in {Canonical(n) : n \in DOMAIN context} |-> <<Escape(context[k[2]])>>],
       body   |-> Bytes(IF present(event.data) THEN event.data.bytes ELSE "")]

\* A report is a set of <<index, field>>: binary and structured mode carry
\* one event.
EncodeHTTPWithReport(events, mode) ==
  LET indexed(report) == {<<1, field>> : field \in report}
      message(ct, body) == [contentType |-> <<ct>>, header |-> <<>>, body |-> body]
  IN  IF mode \in {"binary", "structured"} /\ Len(events) # 1
      THEN Returns({ErrUnsupportedMode}, Nil)
      ELSE
      CASE mode = "binary" ->
             Returns(Validate(events[1]),
                     [message |-> encodeHTTPBinary(events[1]),
                      report  |-> indexed(binaryConversionReport(events[1]))])
        [] mode = "structured" ->
             {[r EXCEPT !.value =
                 IF r.err # Nil THEN Nil
                 ELSE [message |-> message(JSONMediaType, @.body), report |-> indexed(@.report)]]
              : r \in EncodeJSONWithReport(events[1])}
        [] mode = "batch" ->
             {[r EXCEPT !.value =
                 IF r.err # Nil THEN Nil
                 ELSE [message |-> message(JSONBatchMediaType, @.body), report |-> @.report]]
              : r \in EncodeJSONBatchWithReport(events)}
        [] OTHER -> Returns({ErrUnsupportedMode}, Nil)

-----------------------------------------------------------------------------
(* Mode selection and body admission.                                       *)

contentTypeOf(message) == IF message.contentType = <<>> THEN "" ELSE message.contentType[1]

\* The mode a content type selects, whatever mode the message was written in.
httpMode(contentType) ==
  CASE MediaClass(contentType) = "ce+json"       -> "structured"
    [] MediaClass(contentType) = "ce-batch+json" -> "batch"
    [] OTHER                                     -> "binary"

detectHTTPMode(message, limits) ==
  LET ct    == contentTypeOf(message)
      class == MediaClass(ct)
  IN  Returns(   When(Len(message.contentType) > 1, ErrInvalidEvent)
              ?? When(ct # "" /\ Size(ct) > limits.MaxAttributeValueBytes, ErrLimitExceeded)
              ?? When(class = "malformed", ErrInvalidEvent)
              ?? When(class \in {"ce-other", "ce-other+json"}, ErrUnsupportedMode),
              httpMode(ct))

bodyLimit(mode, limits) ==
  IF mode = "binary" THEN limits.MaxDataBytes ELSE limits.MaxEventBytes

\* readHTTPBody on a reader that delivers the whole body; HTTPReceive models
\* the reads themselves.
readHTTPBody(size, limit) ==
     When(limit <= 0 \/ limit = MaxInt, ErrLimitExceeded)
  ?? When(size > limit, ErrLimitExceeded)

-----------------------------------------------------------------------------
(* Redundant metadata of a structured message.                              *)

\* bits.Mul(limit, 3) on an unsigned word twice as large as MaxInt.
exceedsHTTPEncodedAttributeLimit(size, limit) ==
  \/ limit <= 0
  \/ 3 * limit <= 2 * MaxInt + 1 /\ size > 3 * limit

nameTooLong(name, limits) ==
  limits.MaxAttributeNameBytes <= 0 \/ Size(name) > limits.MaxAttributeNameBytes

\* Mutant: spellings are told apart.
respelledAllowed(header) == {}

\* Two spellings of one name: whichever the iteration reaches second fails.
respelled(header) ==
  When(\E j, k \in DOMAIN header : j # k /\ j[2] = k[2], ErrInvalidEvent)

expectedMetadata(event) ==
  contextAttributes(event) ++ Optional("datacontenttype", event.dataContentType)

validateStructuredHTTPHeader(key, values, expected, limits) ==
  LET name == key[2] IN
     When(nameTooLong(name, limits), ErrLimitExceeded)
  ?? When(Len(values) # 1, ErrInvalidEvent)
  ?? When(exceedsHTTPEncodedAttributeLimit(Size(values[1]), limits.MaxAttributeValueBytes),
          ErrLimitExceeded)
  ?? When(Unescape(values[1]) = Nil, ErrInvalidEvent)
  ?? When(~(name \in DOMAIN expected /\ Unescape(values[1]) = expected[name]), ErrInvalidEvent)

validateStructuredHTTPMetadata(header, event, limits) ==
  respelled(header)
  \cup UNION {validateStructuredHTTPHeader(k, header[k], expectedMetadata(event), limits)
              : k \in DOMAIN header}

-----------------------------------------------------------------------------
(* Binary mode.                                                             *)

\* Mutant: only the encoded value is bounded.
binaryHeaderFailureEncoded(key, values, limits) ==
     When(nameTooLong(key[2], limits), ErrLimitExceeded)
  ?? When(Len(values) # 1 \/ key[2] = "datacontenttype", ErrInvalidEvent)
  ?? When(exceedsHTTPEncodedAttributeLimit(Size(values[1]), limits.MaxAttributeValueBytes),
          ErrLimitExceeded)
  ?? When(Unescape(values[1]) = Nil, ErrInvalidEvent)

binaryHeaderFailure(key, values, limits) ==
  LET name == key[2] IN
     When(nameTooLong(name, limits), ErrLimitExceeded)
  ?? When(Len(values) # 1, ErrInvalidEvent)
  ?? When(name = "datacontenttype", ErrInvalidEvent)
  ?? When(exceedsHTTPEncodedAttributeLimit(Size(values[1]), limits.MaxAttributeValueBytes),
          ErrLimitExceeded)
  ?? When(Unescape(values[1]) = Nil, ErrInvalidEvent)
  ?? When(Size(Unescape(values[1])) > limits.MaxAttributeValueBytes, ErrLimitExceeded)

headerNames(header) == {k[2] : k \in DOMAIN header}

decodedHeader(header) ==
  [n \in headerNames(header) |->
     Unescape(header[CHOOSE k \in DOMAIN header : k[2] = n][1])]

\* The attributes both binary bindings build from decoded context strings;
\* reserved names are not extensions, whatever the code did with them before.
AttributesFrom(decoded, contentType) ==
  LET get(name) == IF name \in DOMAIN decoded THEN decoded[name] ELSE "" IN
  Attributes(get("id"), get("source"), get("type"), contentType, get("dataschema"),
             get("subject"),
             IF "time" \in DOMAIN decoded THEN ParseTime(decoded["time"]) ELSE "",
             [n \in DOMAIN decoded \ reservedAttributeNames |-> Attribute("string", decoded[n])])

\* The checks both binary bindings make on decoded context strings.
contextFailures(decoded) ==
     When(~("specversion" \in DOMAIN decoded /\ decoded["specversion"] = specVersion),
          ErrInvalidEvent)
  ?? When("time" \in DOMAIN decoded /\ ParseTime(decoded["time"]) = Nil, ErrInvalidEvent)
  ?? When(\E n \in DOMAIN decoded \ reservedAttributeNames : ~ValidCloudString(decoded[n]),
          ErrInvalidEvent)

\* The data kind a declared content type selects.
dataOf(contentType, value) ==
  IF isJSONMediaType(contentType) THEN NewJSONData(value)
  ELSE IF isTextMediaType(contentType) THEN NewTextData(value)
  ELSE Returns({}, NewBinaryData(value))

\* The headers are a map: the error returned is the one the iteration meets
\* first, any of those collected here.
decodeHTTPBinary(header, contentType, body, limits) ==
  LET decoded == decodedHeader(header)
      data    == IF body # "" \/ contentType # "" THEN dataOf(contentType, body)
                 ELSE Returns({}, NoData)
      dataResult == CHOOSE r \in data : TRUE
      failures ==
           (respelled(header)
            \cup When(DOMAIN header # {} /\ Cardinality(headerNames(header)) > limits.MaxAttributes,
                      ErrLimitExceeded)
            \cup UNION {binaryHeaderFailure(k, header[k], limits) : k \in DOMAIN header})
        ?? contextFailures(decoded)
        ?? When(dataResult.err # Nil, dataResult.err)
  IN  IF failures # {} THEN Returns(failures, Nil)
      ELSE NewEvent(AttributesFrom(decoded, contentType), dataResult.value)

-----------------------------------------------------------------------------
(* DecodeHTTP: the message is read to its end in a live context.            *)

single(results) ==
  {[r EXCEPT !.value = IF r.err # Nil THEN Nil ELSE <<@>>] : r \in results}

decodeHTTPMessage(mode, message, limits) ==
  LET header == message.header
      body   == message.body
  IN  CASE mode = "structured" ->
             UNION {IF r.err # Nil THEN {r}
                    ELSE Returns(validateStructuredHTTPMetadata(header, r.value, limits),
                                 <<r.value>>)
                    : r \in DecodeJSON(body, limits)}
        [] mode = "batch" ->
             IF DOMAIN header # {} THEN Returns({ErrInvalidEvent}, Nil)
             ELSE DecodeJSONBatch(body, limits)
        [] OTHER ->
             single(decodeHTTPBinary(header, contentTypeOf(message), body.bytes, limits))

DecodeHTTP(message, limits) ==
  UNION {IF m.err # Nil THEN {m}
         ELSE LET oversize == readHTTPBody(BodySize(message.body), bodyLimit(m.value, limits))
              IN  IF oversize # {} THEN Returns(oversize, Nil)
                  ELSE decodeHTTPMessage(m.value, message, limits)
         : m \in detectHTTPMode(message, limits)}
=============================================================================
