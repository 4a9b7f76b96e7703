----------------------------- MODULE CloudEvent -----------------------------
(***************************************************************************)
(* The immutable event model of the package: Data, Attribute, Attributes   *)
(* and Event, the rules NewEvent and Event.Validate apply, and the reports *)
(* of what an encoding would change (event.go, attribute.go, extensions.go,*)
(* validation.go, conversion.go).                                          *)
(*                                                                         *)
(* Go strings and byte slices are TLA+ strings.  What the standard library *)
(* does to them is a CONSTANT operator, so that a model may choose the few *)
(* strings it needs; the laws the codecs rely on are the assumptions       *)
(* below.  A conversion that can fail yields Nil.                          *)
(***************************************************************************)
EXTENDS Naturals

CONSTANTS
  Strings,               \* the strings of the model
  Nil,                   \* nil, or a conversion that failed
  Size(_),               \* len of a string or byte slice
  ValidUTF8(_),          \* utf8.ValidString
  ValidCloudString(_),   \* validCloudString: UTF-8, no control or noncharacter
  ValidURIReference(_),  \* net/url round trip
  ValidAbsoluteURI(_),   \* the same, with a scheme
  ValidName(_),          \* validAttributeName: [a-z0-9]+
  ValidTraceParent(_),   \* validTraceParent
  ValidTraceState(_),    \* validTraceState
  MediaClass(_),         \* mime.ParseMediaType, lower-cased and classified
  ParseTime(_),          \* time.Parse(RFC3339Nano), as canonical UTC text
  Integer32(_),          \* strconv.ParseInt(_, 10, 32), as canonical text
  Base64(_), Unbase64(_),\* padded base64; decoding skips line breaks
  ValidJSON(_),          \* json.Valid
  TrimSpace(_),          \* bytes.TrimSpace
  Quote(_), Unquote(_)   \* json.Marshal and json.Unmarshal of a string

\* What mime.ParseMediaType and the suffix and prefix tests of the package and of
\* its adapters tell apart: "json" is application/json or any +json outside
\* text/, "x/json" the subtype json of another type; "text/json" and "text+json"
\* (text/x+json) are both text and JSON here.  The "ce" classes are the
\* application/cloudevents types, of which this package reads two; the others may
\* be JSON by their suffix.
MediaClasses == {"none", "json", "x/json", "text", "text/json", "text+json", "other",
                 "ce+json", "ce-batch+json", "ce-other", "ce-other+json", "malformed"}

\* The second part follows from the first, but not for the provers.
ASSUME NilAssumption == Nil \notin STRING /\ Nil \notin Strings /\ Nil # ""

ASSUME MediaAssumption ==
  \A s \in Strings : /\ MediaClass(s) \in MediaClasses
                     /\ MediaClass(s) = "none" <=> s = ""

\* Bytes that are not UTF-8 occur in the parameters of a media type only: repaired,
\* it is a media type of the same class.
ASSUME RepairedTypeAssumption ==
  \A s \in Strings : MediaClass(Unquote(Quote(s))) = MediaClass(s)

\* The content types the encoders write where the event has none.
ASSUME ImplicitTypeAssumption ==
  /\ MediaClass("") = "none"
  /\ MediaClass("application/json") = "json"
  /\ MediaClass("text/plain") = "text"
  /\ MediaClass("application/octet-stream") = "other"

\* JSON repairs text that is not UTF-8 and keeps the rest; canonical texts are
\* plain ASCII.  The UTC text of a time with an offset may have the year 10000,
\* which no parser takes back.
ASSUME StringAssumption ==
  \A s \in Strings :
    /\ ValidCloudString(s) => ValidUTF8(s)
    /\ ValidUTF8(s) => Unquote(Quote(s)) = s
    /\ Unquote(Quote(s)) # Nil /\ ValidUTF8(Unquote(Quote(s)))
    /\ s \in {"", "1.0", "true", "false", "application/json", "text/plain",
             "application/octet-stream"} => ValidCloudString(s)
    /\ Integer32(s) = s => ValidCloudString(s)
    /\ Unbase64(s) # Nil /\ Base64(Unbase64(s)) = s => ValidCloudString(s)
    /\ ParseTime(s) # Nil => ValidCloudString(ParseTime(s))
    /\ Unbase64(Base64(s)) = s
    /\ ValidJSON(s) => ValidJSON(TrimSpace(s))
    /\ TrimSpace(TrimSpace(s)) = TrimSpace(s)
    /\ ParseTime(s) # Nil => ParseTime(ParseTime(s)) \in {Nil, ParseTime(s)}
    /\ Integer32(s) # Nil => Integer32(Integer32(s)) = Integer32(s)

\* A length is a number; no instant is written as the empty string.
ASSUME SizeAssumption == Size("") = 0 /\ \A s \in Strings : Size(s) \in Nat
ASSUME TimeAssumption == \A s \in Strings : ParseTime(s) # ""

-----------------------------------------------------------------------------
(* Errors.  A function that can fail is a set of errors, empty on success;  *)
(* A ?? B is "return A's error if there is one, otherwise B's".  A set has  *)
(* more than one member only where the code ranges over a Go map.           *)

ErrInvalidEvent     == "ErrInvalidEvent"
ErrInvalidData      == "ErrInvalidData"
ErrInvalidAttribute == "ErrInvalidAttribute"
ErrLimitExceeded    == "ErrLimitExceeded"
ErrUnsupportedMode  == "ErrUnsupportedMode"
ErrConversionLoss   == "ErrConversionLoss"

Errors == {ErrInvalidEvent, ErrInvalidData, ErrInvalidAttribute, ErrLimitExceeded,
           ErrUnsupportedMode, ErrConversionLoss}

ASSUME ErrorAssumption == Nil \notin Errors

When(condition, error) == IF condition THEN {error} ELSE {}

a ?? b == IF a # {} THEN a ELSE b

\* The (value, error) pairs a function may return: its failures, or its value.
Returns(failures, value) ==
  IF failures # {} THEN [value : {Nil}, err : failures]
                   ELSE {[value |-> value, err |-> Nil]}

-----------------------------------------------------------------------------
(* Data and attributes.                                                     *)

DataKinds == {"absent", "json", "text", "binary"}

NoData == [kind |-> "absent", bytes |-> ""]

present(data) == data.kind # "absent"

NewJSONData(value) ==
  Returns(When(~ValidJSON(value), ErrInvalidData),
          [kind |-> "json", bytes |-> value])

NewTextData(value) ==
  Returns(When(~ValidUTF8(value), ErrInvalidData),
          [kind |-> "text", bytes |-> value])

NewBinaryData(value) == [kind |-> "binary", bytes |-> value]

AttributeKinds == {"string", "boolean", "integer", "binary",
                   "uri", "urireference", "timestamp"}

Attribute(kind, text) == [kind |-> kind, text |-> text]

validAttribute(attribute) ==
  LET text == attribute.text IN
  CASE attribute.kind = "string"       -> ValidCloudString(text)
    [] attribute.kind = "boolean"      -> text \in {"true", "false"}
    [] attribute.kind = "integer"      -> Integer32(text) = text
    [] attribute.kind = "binary"       -> Unbase64(text) # Nil /\ Base64(Unbase64(text)) = text
    [] attribute.kind = "uri"          -> ValidCloudString(text) /\ ValidAbsoluteURI(text)
    [] attribute.kind = "urireference" -> ValidCloudString(text) /\ ValidURIReference(text)
    [] attribute.kind = "timestamp"    -> ParseTime(text) = text
    [] OTHER                           -> FALSE

-----------------------------------------------------------------------------
(* Validation.  An issue is <<field, code>>, a field a scope and a name.    *)

reservedAttributeNames ==
  {"data", "data_base64", "datacontenttype", "dataschema", "id", "source",
   "specversion", "subject", "time", "type"}

Core(name) == <<"core", name>>
Ext(name)  == <<"extensions", name>>

ExtensionIssues(extensions) ==
  UNION {
    IF ~ValidName(n) THEN {<<Ext(n), "invalid_name">>}
    ELSE IF n \in reservedAttributeNames THEN {<<Ext(n), "reserved_name">>}
    ELSE When(~validAttribute(extensions[n]), <<Ext(n), "invalid_attribute">>)
    : n \in DOMAIN extensions}

validateAttributes(a) ==
  LET ext == a.extensions
      StringIssue(name, value) ==
        IF value = "" THEN {<<Core(name), "required">>}
        ELSE When(~ValidCloudString(value), <<Core(name), "invalid_string">>)
      \* A known extension is a string that its own grammar accepts.
      KnownIssue(name, Valid(_)) ==
        When(/\ name \in DOMAIN ext
             /\ ~(ext[name].kind = "string" /\ Valid(ext[name].text)),
             <<Ext(name), "invalid_attribute">>)
  IN  StringIssue("id", a.id)
      \cup (IF a.source = "" THEN {<<Core("source"), "required">>}
            ELSE When(~(ValidCloudString(a.source) /\ ValidURIReference(a.source)),
                      <<Core("source"), "invalid_uri_reference">>))
      \cup StringIssue("type", a.type)
      \cup When(MediaClass(a.dataContentType) = "malformed",
                <<Core("datacontenttype"), "invalid_media_type">>)
      \cup When(a.dataSchema # "" /\ ~ValidAbsoluteURI(a.dataSchema),
                <<Core("dataschema"), "absolute_uri_required">>)
      \cup When(a.subject # "" /\ ~ValidCloudString(a.subject),
                <<Core("subject"), "invalid_string">>)
      \cup ExtensionIssues(ext)
      \cup KnownIssue("traceparent", ValidTraceParent)
      \cup KnownIssue("tracestate", ValidTraceState)
      \cup When("tracestate" \in DOMAIN ext /\ "traceparent" \notin DOMAIN ext,
                <<Ext("traceparent"), "required">>)
      \cup KnownIssue("partitionkey", LAMBDA t : t # "")

-----------------------------------------------------------------------------
(* Events.  A time is its canonical UTC text, "" when there is none; as in  *)
(* the code, no rule looks at it.                                           *)

Attributes(id, source, type, contentType, schema, subject, time, extensions) ==
  [id |-> id, source |-> source, type |-> type, dataContentType |-> contentType,
   dataSchema |-> schema, subject |-> subject, time |-> time,
   extensions |-> extensions]

withData(a, data) ==
  [id |-> a.id, source |-> a.source, type |-> a.type, dataContentType |-> a.dataContentType,
   dataSchema |-> a.dataSchema, subject |-> a.subject, time |-> a.time,
   extensions |-> a.extensions, data |-> data]

\* Mutant: only the required attributes are checked.
NewEventRequiredOnly(attributes, data) ==
  Returns(When("" \in {attributes.id, attributes.source, attributes.type}, ErrInvalidEvent),
          withData(attributes, data))

NewEvent(attributes, data) ==
  Returns(When(validateAttributes(attributes) # {}, ErrInvalidEvent),
          withData(attributes, data))

validData(data) ==
  /\ data.kind \in DataKinds
  /\ data.kind = "json" => ValidJSON(data.bytes)
  /\ data.kind = "text" => ValidUTF8(data.bytes)

Validate(event) ==
     When(validateAttributes(event) # {}, ErrInvalidEvent)
  ?? When(~validData(event.data), ErrInvalidEvent)

-----------------------------------------------------------------------------
(* Names and values.                                                        *)

\* The one name with its value; nothing when the value is empty.
Single(name, value)   == [n \in {name} |-> value]
Optional(name, value) == [n \in (IF value = "" THEN {} ELSE {name}) |-> value]

\* What f says, and what g says where f is silent.
f ++ g == [n \in DOMAIN f \cup DOMAIN g |-> IF n \in DOMAIN f THEN f[n] ELSE g[n]]

specVersion == "1.0"

\* The context of an event by wire name, as every binding spells it out;
\* datacontenttype is the one attribute the bindings place differently.
coreAttributes(event) ==
  LET named == [specversion |-> specVersion, id |-> event.id, source |-> event.source,
                type |-> event.type, dataschema |-> event.dataSchema,
                subject |-> event.subject, time |-> event.time]
      written == {"specversion", "id", "source", "type"}
                 \cup {n \in {"dataschema", "subject", "time"} : named[n] # ""}
  IN  [n \in written |-> named[n]]

contextAttributes(event) ==
  coreAttributes(event) ++ [n \in DOMAIN event.extensions |-> event.extensions[n].text]

-----------------------------------------------------------------------------
(* Conversion reports: the set of fields an encoding changes.               *)

isJSONMediaType(value) ==
  MediaClass(value) \in {"none", "json", "x/json", "text/json", "text+json",
                         "ce+json", "ce-batch+json", "ce-other+json"}

isTextMediaType(value) == MediaClass(value) \in {"text", "text/json", "text+json"}

implicitDataContentType(kind) ==
  CASE kind = "json" -> "application/json"
    [] kind = "text" -> "text/plain"
    [] OTHER         -> "application/octet-stream"

dataKindMatchesContentType(kind, contentType) ==
  CASE kind = "json" -> isJSONMediaType(contentType)
    [] kind = "text" -> isTextMediaType(contentType)
    [] OTHER         -> ~isJSONMediaType(contentType) /\ ~isTextMediaType(contentType)

lostExtensions(event, kept) ==
  {Ext(n) : n \in {m \in DOMAIN event.extensions : event.extensions[m].kind \notin kept}}

jsonConversionReport(event) ==
  LET data == event.data
      ct   == event.dataContentType
  IN  When(data.kind = "json" /\ TrimSpace(data.bytes) # data.bytes, Core("data"))
      \cup (IF data.kind = "text" /\ ct = "" THEN {Core("datacontenttype")}
            ELSE When(\/ data.kind = "text" /\ isJSONMediaType(ct)
                      \/ data.kind = "json" /\ ~isJSONMediaType(ct), Core("data")))
      \cup lostExtensions(event, {"string", "boolean", "integer"})

\* Mutant: the content type that data without one receives is not reported.
binaryConversionReportSilentType(event) ==
  When(/\ present(event.data) /\ event.dataContentType # ""
       /\ ~dataKindMatchesContentType(event.data.kind, event.dataContentType), Core("data"))
  \cup lostExtensions(event, {"string"})

binaryConversionReport(event) ==
  LET data == event.data
      ct   == event.dataContentType
  IN  (IF present(data) /\ ct = "" THEN {Core("datacontenttype")}
       ELSE When(present(data) /\ ~dataKindMatchesContentType(data.kind, ct), Core("data")))
      \cup lostExtensions(event, {"string"})

rejectConversionLoss(report) == When(report # {}, ErrConversionLoss)
=============================================================================
