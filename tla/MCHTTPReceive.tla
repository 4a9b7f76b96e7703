--------------------------- MODULE MCHTTPReceive ----------------------------
(* Calls of DecodeHTTP whose bodies are empty, admitted exactly, one byte   *)
(* too long, or much too long, in every mode.                               *)
EXTENDS HTTPReceive, MCStrings

Plain(ct, kind, bytes) ==
  withData(Attributes("a", "/s", "t", ct, "", "", "", <<>>), [kind |-> kind, bytes |-> bytes])

Encoded(event, m) == (CHOOSE r \in EncodeHTTPWithReport(<<event>>, m) : TRUE).value.message

Empty == Encoded(Plain("", "absent", ""), "binary")

Call(message, noBody) ==
  [message |-> message, noBody |-> noBody, size |-> BodySize(message.body)]

MCCalls ==
  {Call(Encoded(Plain("text/plain", "text", b), "binary"), FALSE)
     : b \in {"", "a", "abc", "abca", "abcabc"}}
  \cup {Call(Encoded(Plain("application/json", "json", "{}"), "binary"), FALSE),
        Call(Empty, TRUE),
        Call(Empty, FALSE),
        Call([Empty EXCEPT !.contentType = <<"bogus">>], FALSE),
        Call([Empty EXCEPT !.contentType = <<"text/plain", "text/plain">>], FALSE),
        Call(Encoded(Plain("text/plain", "text", "abc"), "structured"), FALSE),
        Call(Encoded(Plain("text/plain", "text", "abc"), "batch"), FALSE)}

Limit(event, data) ==
  [MaxEventBytes |-> event, MaxDataBytes |-> data, MaxAttributes |-> 8,
   MaxAttributeNameBytes |-> 12, MaxAttributeValueBytes |-> 40, MaxDepth |-> 4,
   MaxBatchEvents |-> 4]

structuredSize == BodySize(Encoded(Plain("text/plain", "text", "abc"), "structured").body)

\* Of the two limits on a body a mode looks at one; decoding looks at both.
MCLimitSets ==
  {Limit(e, 3) : e \in {0, structuredSize - 1, structuredSize, structuredSize + 2, MaxInt}}
  \cup {Limit(structuredSize, d) : d \in {0, 2, 3, MaxInt}}
=============================================================================
