------------------------------ MODULE MCBridge ------------------------------
(***************************************************************************)
(* Instances of Bridge.  An application's inputs vary the data and its     *)
(* declared type together, and every other attribute on its own.           *)
(***************************************************************************)
EXTENDS Bridge, MCStrings

ContentTypes ==
  {"", "application/json", "text/plain", "text/json", "text/x+json", "x/json",
   "application/octet-stream", "application/cloudevents+json", "application/cloudevents-batch+json",
   "application/cloudevents+avro", "application/cloudevents-x+json", "text/plain;x=~", "bogus"}

Datas ==
  {<<"absent", "">>, <<"json", "{}">>, <<"json", " {}">>, <<"json", "'abc'">>,
   <<"json", "null">>, <<"json", "abc">>, <<"text", "">>, <<"text", "abc">>,
   <<"json", "{inner a}">>, <<"json", "{inner b}">>, <<"json", "{inner a twice}">>,
   <<"json", "{inner a flag}">>, <<"json", "{inner a data}">>, <<"binary", "{inner a text}">>,
   <<"text", "{}">>, <<"text", "'abc'">>, <<"text", "~">>, <<"binary", "">>,
   <<"binary", "~">>, <<"binary", "{}">>}

Plain(ct) == Attributes("a", "/s", "t", ct, "", "", "", <<>>)

Input(a, d) == [attributes |-> a, kind |-> d[1], bytes |-> d[2]]

TypedInputs == {Input(Plain(ct), d) : ct \in ContentTypes, d \in Datas}

Extensions ==
  {"ext" :> Attribute(k[1], k[2]) :
     k \in {<<"string", "">>, <<"string", "x">>, <<"string", "true">>, <<"string", "7">>,
            <<"string", "^G">>, <<"boolean", "true">>, <<"integer", "7">>, <<"integer", "-0">>,
            <<"binary", "#~">>, <<"uri", "http://h/s">>, <<"urireference", "/s">>,
            <<"timestamp", "t1">>, <<"timestamp", "t10000">>}}
  \cup {"partitionkey" :> Attribute("string", k) : k \in {"", "k"}}
  \cup {"traceparent" :> Attribute("string", "tp"),
        "tracestate" :> Attribute("string", "ts"),
        ("traceparent" :> Attribute("string", "tp")) @@ ("tracestate" :> Attribute("string", "ts")),
        ("ext" :> Attribute("integer", "7")) @@ ("other" :> Attribute("uri", "http://h/s")),
        "Bad" :> Attribute("string", "x"),
        "id" :> Attribute("string", "x")}

ContextInputs ==
  {Input(Attributes("a", "/s", "t", "text/plain", schema, subject, time, ext), <<"text", "abc">>)
   : schema \in {"", "http://h/s"}, subject \in {"", "s"}, time \in {"", "t1"}, ext \in Extensions}

InvalidInputs ==
  {Input([Plain("") EXCEPT !.id = ""], <<"absent", "">>),
   Input([Plain("") EXCEPT !.type = "^G"], <<"absent", "">>),
   Input([Plain("") EXCEPT !.source = "abc"], <<"absent", "">>),
   Input([Plain("") EXCEPT !.dataSchema = "/s"], <<"absent", "">>)}

UnparsedTimeInputs == {Input([Plain("") EXCEPT !.time = "t10000"], <<"absent", "">>)}
NonUTF8Inputs ==
  {Input([Plain("") EXCEPT !.dataSchema = "http://h/?~"], <<"absent", "">>)}

SingleInputs ==
  TypedInputs \cup ContextInputs \cup InvalidInputs \cup UnparsedTimeInputs \cup NonUTF8Inputs

BatchInputs ==
  {Input(Plain("application/json"), <<"json", "{}">>),
   Input(Plain("application/json"), <<"json", " {}">>),
   Input(Plain(""), <<"text", "abc">>),
   Input(Plain("text/plain"), <<"json", "{}">>),
   Input([Plain("") EXCEPT !.extensions = "ext" :> Attribute("uri", "http://h/s")], <<"absent", "">>),
   Input([Plain("") EXCEPT !.id = "b"], <<"binary", "~">>)}

Limit(event, data, attributes, value, depth, batch) ==
  [MaxEventBytes |-> event, MaxDataBytes |-> data, MaxAttributes |-> attributes,
   MaxAttributeNameBytes |-> 12, MaxAttributeValueBytes |-> value, MaxDepth |-> depth,
   MaxBatchEvents |-> batch, MaxKafkaKeyBytes |-> 8, MaxKafkaHeaders |-> 12,
   MaxKafkaHeaderNameBytes |-> 20, MaxKafkaHeaderValueBytes |-> value]

AmpleLimits == {Limit(900, 100, 16, 40, 4, 4)}

\* Limits that the inputs below meet exactly, just miss, or that are zero or
\* the largest integer.  The content types that select structured and batch
\* mode are 28 and 34 bytes long, so smaller value limits admit binary mode (and
\* in Kafka, which bounds them by the header limit, structured mode) only.
EdgeLimits ==
  LET edge == Limit(400, 5, 6, 34, 2, 2) IN
  AmpleLimits
  \cup {[edge EXCEPT !.MaxEventBytes = n] : n \in {0, 72, 73, 200, MaxInt}}
  \cup {[edge EXCEPT !.MaxDataBytes = n] : n \in {0, 1, 2, 3, MaxInt}}
  \cup {[edge EXCEPT !.MaxAttributes = n] : n \in {0, 4, 5}}
  \cup {[edge EXCEPT !.MaxAttributeNameBytes = n] : n \in {0, 3, 4}}
  \cup {[edge EXCEPT !.MaxAttributeValueBytes = n] : n \in {0, 3, 10, 28, MaxInt}}
  \cup {[edge EXCEPT !.MaxDepth = n] : n \in {0, 1, MaxInt}}
  \cup {[edge EXCEPT !.MaxBatchEvents = n] : n \in {0, 1}}
  \cup {[edge EXCEPT !.MaxKafkaHeaders = n] : n \in {0, 4, 5}}
  \cup {[edge EXCEPT !.MaxKafkaHeaderValueBytes = n] : n \in {0, 10, 28}}
  \cup {[edge EXCEPT !.MaxKafkaHeaderNameBytes = n] : n \in {0, 11, 14}}
  \cup {[edge EXCEPT !.MaxKafkaKeyBytes = n] : n \in {0, 1}}

RelayInputs ==
  {Input(Plain("application/json"), <<"json", "[{}]">>),
   Input(Plain("text/plain"), <<"text", "abc">>),
   Input(Plain(""), <<"absent", "">>),
   Input(Plain(""), <<"binary", "~">>),
   Input([Plain("") EXCEPT !.subject = "s", !.time = "t1",
          !.extensions = "ext" :> Attribute("string", "x")], <<"absent", "">>),
   Input([Plain("text/plain") EXCEPT
          !.extensions = "partitionkey" :> Attribute("string", "kk")], <<"text", "">>),
   Input([Plain("text/plain") EXCEPT !.id = "<<<"], <<"text", "<<<">>),
   Input(Plain("application/cloudevents+json"), <<"json", "{inner a text}">>)}

RelayHeaders ==
  {"canonical", "lower"} \X {"id", "ext", "subject", "time", "data", "data_base64",
                             "datacontenttype", "specversion"}
                        \X {"", "a", "x", "t1+1h", "t9", "~", "text/plain"}

RelayMembers ==
  {<<"id", "'b'">>, <<"id", "null">>, <<"id", "7">>, <<"specversion", "'0.3'">>,
   <<"subject", "null">>, <<"subject", "'^G'">>, <<"time", "'t1+1h'">>, <<"time", "'t9'">>,
   <<"time", "'t9999-1h'">>, <<"time", "''">>,
   <<"datacontenttype", "'text/plain'">>, <<"datacontenttype", "'bogus'">>,
   <<"dataschema", "'/s'">>, <<"data", "{}">>, <<"data", "'abcdef'">>,
   <<"data_base64", "'#a'">>, <<"data_base64", "'#a|'">>, <<"data_base64", "'a'">>, <<"data_base64", "null">>,
   <<"ext", "true">>, <<"ext", "7">>, <<"ext", "-0">>, <<"ext", "1.5">>, <<"ext", "null">>,
   <<"ext", "[{}]">>, <<"ext", "'aaaaaaaaaaaaaaaaaaaaaaaaaaaaaaaaaa'">>,
   <<"ext", "'aaaaaaaaaaaaaaaaaaaaaaaaaaaaaaaaaaa'">>,
   <<"subject", "'aaaaaaaaaaaaaaaaaaaaaaaaaaaaaaaaaaa'">>, <<"Bad", "'x'">>, <<"toolongextension", "'x'">>}

Workload(inputs, ls, headers, members, events, n) ==
  [inputs |-> inputs, limits |-> ls, headers |-> headers, members |-> members,
   MaxEvents |-> events, MaxHops |-> n]

\* Single events over several bindings; single events that a relay touches; batches.
MCWorkloads ==
  [crossing |-> Workload(SingleInputs, AmpleLimits, {}, {}, 1, 3),
   relay    |-> Workload(RelayInputs, EdgeLimits, RelayHeaders, RelayMembers, 1, 1),
   batch    |-> Workload(BatchInputs, EdgeLimits, {}, RelayMembers, 2, 1)]

\* Every text of the workloads, so that the assumptions on strings speak of them.
TextsOf(w) ==
  UNION {LET a == i.attributes
         IN  {a.id, a.source, a.type, a.dataContentType, a.dataSchema, a.subject, a.time, i.bytes}
             \cup DOMAIN a.extensions \cup {a.extensions[n].text : n \in DOMAIN a.extensions}
         : i \in w.inputs}
  \cup UNION {{h[2], h[3]} : h \in w.headers}
  \cup UNION {{x[1], x[2]} : x \in w.members}

MCBridgeStrings == MCStringSet \cup UNION {TextsOf(MCWorkloads[w]) : w \in DOMAIN MCWorkloads}

\* One class of events that Unreported names.
Lossy(inputs) == [lossy |-> Workload(inputs, AmpleLimits, {}, {}, 1, 1)]
TextJSONLoad     == Lossy({Input(Plain("text/json"), <<"text", "abc">>)})
DatalessTypeLoad == Lossy({Input(Plain("text/plain"), <<"absent", "">>)})
UnparsedTimeLoad == Lossy(UnparsedTimeInputs)
=============================================================================
