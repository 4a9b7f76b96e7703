----------------------------- MODULE MCStrings ------------------------------
(***************************************************************************)
(* A concrete string algebra for model checking.  The character ~ stands   *)
(* for bytes that are not UTF-8, ' for the JSON quotation mark, a leading  *)
(* blank for insignificant JSON whitespace, ^G for a control character, a  *)
(* leading % for percent-encoded text and a leading # for base64, in which *)
(* a final | is a line break.                                              *)
(***************************************************************************)
EXTENDS CloudEvent, Sequences, TLC

First(s) == IF s = "" THEN "" ELSE SubSeq(s, 1, 1)
Rest(s)  == SubSeq(s, 2, Len(s))

MCSize(s) == Len(s)

NonUTF8 == {"~", "text/plain;x=~", "http://h/?~"}
Repaired(s) ==
  CASE s = "text/plain;x=~" -> "text/plain;x=?"
    [] s = "http://h/?~"    -> "http://h/??"
    [] s = "~"              -> "?"
    [] OTHER                -> s

MCValidUTF8(s)        == s \notin NonUTF8
MCValidCloudString(s) == s \notin NonUTF8 \cup {"^G"}
MCValidAbsoluteURI(s) == s \in {"http://h/s", "http://h/?~", "http://h/??"}
MCValidURIReference(s) == MCValidAbsoluteURI(s) \/ s \in {"/s", "s"}
MCValidName(s)        == s \notin {"", "Bad", "data_base64"} \cup NonUTF8
MCValidTraceParent(s) == s = "tp"
MCValidTraceState(s)  == s = "ts"

MCMediaClass(s) ==
  CASE s = ""                                   -> "none"
    [] s = "application/json"                   -> "json"
    [] s \in {"text/plain", "text/plain;x=~", "text/plain;x=?"} -> "text"
    [] s = "x/json"                             -> "x/json"
    [] s = "text/json"                          -> "text/json"
    [] s = "text/x+json"                        -> "text+json"
    [] s = "application/octet-stream"           -> "other"
    [] s = "application/cloudevents+json"       -> "ce+json"
    [] s = "application/cloudevents-batch+json" -> "ce-batch+json"
    [] s = "application/cloudevents+avro"       -> "ce-other"
    [] s = "application/cloudevents-x+json"     -> "ce-other+json"
    [] OTHER                                    -> "malformed"

\* t9 is a lenient spelling, shorter than the canonical text; t9999-1h is t10000 in
\* UTC, a year no parser takes.
MCParseTime(s) ==
  CASE s \in {"t1", "t1+1h"} -> "t1"
    [] s \in {"t9", "t0009"} -> "t0009"
    [] s = "t2"              -> "t2"
    [] s = "t9999-1h"        -> "t10000"
    [] OTHER                 -> Nil
MCInteger32(s) == CASE s \in {"0", "-0"} -> "0" [] s = "7" -> "7" [] OTHER -> Nil

MCBase64(s)   == "#" \o s
MCUnbase64(s) ==
  CASE First(s) # "#"                  -> Nil
    [] SubSeq(s, Len(s), Len(s)) = "|" -> SubSeq(s, 2, Len(s) - 1)
    [] OTHER                           -> Rest(s)
MCBase64Length(s) == IF s = "" THEN 0 ELSE Len(s) - 1

\* json.Marshal writes < as six bytes.
MCQuote(s)   ==
  "'" \o (IF s = "<<<" THEN "^u003c^u003c^u003c" ELSE Repaired(s)) \o "'"
MCUnquote(s) ==
  IF s = "'^u003c^u003c^u003c'" THEN "<<<"
  ELSE IF Len(s) >= 2 /\ First(s) = "'" /\ SubSeq(s, Len(s), Len(s)) = "'"
  THEN Repaired(SubSeq(s, 2, Len(s) - 1)) ELSE Nil

MCTrimSpace(s) == IF First(s) = " " THEN Rest(s) ELSE s

MCJSONType(s) ==
  CASE First(s) = "'"          -> "string"
    [] s \in {"true", "false"} -> "bool"
    [] s = "null"              -> "null"
    [] s \in {"0", "-0", "7", "1.5"} -> "number"
    [] OTHER                   -> "container"

\* Objects written as text; those named inner are events.
Inner(id) ==
  "id" :> id @@ "specversion" :> "'1.0'" @@ "source" :> "'/s'" @@ "type" :> "'t'"

Objects ==
  "null" :> <<>> @@ "{}" :> <<>>
  @@ "{inner a}"       :> Inner("'a'")
  @@ "{inner b}"       :> Inner("'b'")
  @@ "{inner a twice}" :> Inner("'a'")
  @@ "{inner a flag}"  :> ("ext" :> "true" @@ Inner("'a'"))
  @@ "{inner a data}"  :> ("datacontenttype" :> "'application/json'" @@ "data" :> "{}" @@ Inner("'a'"))
  @@ "{inner a text}"  :> ("datacontenttype" :> "'text/plain'" @@ "data" :> "'abc'"
                           @@ "ext" :> "'x'" @@ Inner("'a'"))

\* One of them states its id twice.
MCDocument(s) ==
  LET t == MCTrimSpace(s) IN
  IF t \in DOMAIN Objects
  THEN [form |-> "doc", members |-> Objects[t], duplicate |-> t = "{inner a twice}"]
  ELSE Nil

MCValidJSON(s) ==
  LET t == MCTrimSpace(s) IN
  \/ MCUnquote(t) # Nil
  \/ t \in {"[{}]", "true", "false", "null", "0", "-0", "7", "1.5"} \cup DOMAIN Objects

MCJSONDepth(s) ==
  LET t == MCTrimSpace(s) IN
  CASE t \in {"[{}]", "{inner a data}"}  -> 2
    [] t \in DOMAIN Objects \ {"null"} -> 1
    [] OTHER                           -> 0

MCEscape(s)   == IF s = "" THEN "" ELSE "%" \o s
MCUnescape(s) ==
  LET t == IF First(s) = "%" THEN Rest(s) ELSE s IN IF MCValidUTF8(t) THEN t ELSE Nil

MCStringSet ==
  {"", "a", "abc", "{}", " {}", "'abc'", "null", "true", "7", "-0", "~", "^G", "t1", "t1+1h", "t9",
   "text/plain", "text/json", "text/x+json", "x/json", "text/plain;x=~", "application/json", "http://h/?~", "/s",
   "application/octet-stream", "application/cloudevents+json",
   "application/cloudevents-batch+json", "application/cloudevents+avro",
   "application/cloudevents-x+json", "bogus"}
=============================================================================
