----------------------------- MODULE MCRetained -----------------------------
(***************************************************************************)
(* Instances of Retained: one conversion with every kind of payload and    *)
(* context, or several conversions whose events and states may be mixed.   *)
(***************************************************************************)
EXTENDS Retained, MCAdapters

MCValidJob(m)          == TRUE
MCValidEncodedEvent(p) == p # ""
MCValidMessageID(id)   == id # "not an id"
MCValidHistory(h)      == TRUE
MCRawURL(s) ==
  CASE s = "a.b" -> "YS5i" [] s = "b.c" -> "Yi5j" [] s = "a" -> "YQ" [] s = "c" -> "Yw"

Context(names, given) ==
  [n \in Range(names) |-> IF n \in DOMAIN given THEN given[n] ELSE ""]

Outbox(id, payload, ct, schema, subject, time) ==
  [adapter |-> "outbox",
   envelope |-> [id |-> id, topic |-> "o", version |-> 1, payload |-> payload, rest |-> "r"],
   options |-> [source |-> "/s", type |-> "t", contentType |-> ct, schema |-> schema,
                subject |-> subject, time |-> time]]

Metadata(id, type, ct, given) ==
  [originalID |-> id, jobType |-> type, contentType |-> ct,
   context |-> Context(queueNames, given), rest |-> "r"]

Queue(body, metadata, id, type) ==
  [adapter |-> "queue",
   envelope |-> [body |-> body, metadata |-> metadata, rest |-> "r"],
   options |-> [source |-> "/s", stableID |-> id, type |-> type, time |-> ""]]

Stream(id, stream, version, ct, payload, given) ==
  [adapter |-> "stream",
   envelope |-> [id |-> id, stream |-> stream, eventVersion |-> version, name |-> "n",
                 contentType |-> ct, payload |-> payload, context |-> Context(streamNames, given),
                 streamVersion |-> 3, recordedAt |-> "t2", rest |-> "r"],
   options |-> [source |-> "/s", schema |-> "", time |-> ""]]

Workflow(id, kind, data) ==
  [adapter |-> "workflow",
   envelope |-> [sequence |-> 1, kind |-> kind, instance |-> "s", occurredAt |-> "t1",
                 data |-> data, rest |-> "r"],
   options |-> [source |-> "/s", stableID |-> id]]

Payloads == {NilSlice} \cup {Slice(s) : s \in {"", "abc", " {}", "~"}}
Types    == {"", "application/json", "text/plain", "bogus"}
BothTypes == {"text/json", "text/x+json", "x/json"}
Traced   == ("traceparent" :> "tp") @@ ("tracestate" :> "ts")

SingleConversions ==
  {Outbox("a", p, ct, "", "", "") : p \in Payloads, ct \in Types}
  \cup {Outbox("a", Slice(s), ct, "", "", "") : s \in {"abc", "{}"}, ct \in BothTypes}
  \cup {Outbox("a", Slice("abc"), "text/plain", "http://h/s", "s", "t1"),
        Outbox("", Slice("abc"), "", "", "", "")}
  \cup {Queue(p, Nil, "a", "t") : p \in {NilSlice, Slice(""), Slice("abc")}}
  \cup {Queue(p, Metadata("a", "t", ct, <<>>), "", "") :
          p \in {NilSlice, Slice("{}")}, ct \in Types \cup {"text/json"}}
  \cup {Queue(Slice(""), Metadata("a", "t", ct, <<>>), "", "") : ct \in {"", "application/json"}}
  \cup {Queue(Slice("abc"), Metadata(id[1], id[2], "", <<>>), "a", "t") : id \in {<<"", "t">>, <<"a", "">>}}
  \cup {Queue(Slice("abc"), Metadata("a", "", "", c), "", "t") :
          c \in {"correlationid" :> "c1", "requestid" :> "^G", "causationid" :> "k1", Traced,
                 "tracestate" :> "ts", "tenantid" :> "T1", "tenantid" :> "none"}}
  \cup {Queue(Slice("abc"), Metadata("", "t", "", <<>>), "", ""), Queue(Slice("abc"), Nil, "a", "")}
  \cup {Stream("a", <<"a", "c">>, 1, ct, p, <<>>) :
          ct \in {"application/json", "text/plain", "text/json", "bogus"}, p \in {"abc", "{}"}}
  \cup {Stream("a", <<"a", "c">>, 1, "text/plain", "abc", c) :
          c \in {"correlationid" :> "c1", "causationid" :> "k1", "tenantid" :> "T1",
                 "tenantid" :> "none", "partitionkey" :> "k", "causationid" :> "^G"}}
  \cup {Workflow(id, 1, d) : id \in {"", "a"}, d \in {NilSlice, Slice(""), Slice("abc")}}

SingleEdits ==
  {<<"core", "id", "b">>, <<"core", "source", "s">>, <<"core", "type", "u">>,
   <<"core", "type", "golib.workflow.history.01">>, <<"core", "type", "golib.workflow.history.2">>,
   <<"core", "dataSchema", "http://h/s">>, <<"core", "subject", "s">>, <<"core", "subject", "x">>,
   <<"core", "time", "t1">>, <<"core", "time", "">>,
   <<"ext", "ext", Attribute("integer", "7")>>, <<"ext", "correlationid", Attribute("string", "c2")>>,
   <<"ext", "correlationid", Nil>>, <<"ext", "tenantid", Attribute("string", "none")>>,
   <<"ext", "tenantid", Attribute("string", "t1")>>, <<"ext", "tenantid", Attribute("string", "T1")>>,
   <<"ext", "tenantid", Attribute("uri", "http://h/s")>>, <<"ext", "eventschema", Attribute("integer", "7")>>,
   <<"ext", "partitionkey", Attribute("string", "k2")>>, <<"data", "", NoData>>}
  \cup {<<"core", "dataContentType", ct>> : ct \in {"", "application/json", "text/plain", "text/json"}}
  \cup {<<"data", "", [kind |-> k, bytes |-> "{}"]>> : k \in {"json", "text", "binary"}}
  \cup {<<"data", "", [kind |-> k, bytes |-> ""]>> : k \in {"text", "binary"}}
  \cup {<<"data", "", [kind |-> k, bytes |-> "abc"]>> : k \in {"text", "binary"}}

\* What a strict crossing delivers the reporting one delivers too.
SingleRoutes == {"http", "kafka"} \X {"binary", "structured"} \X {FALSE}

SingleEnrichments == {"ext" :> "x", "correlationid" :> "c1", Traced}

\* Conversions that share an identity, a stream, or the letters of a stream.
MixedConversions ==
  {Outbox("a", Slice("abc"), "", "", "", ""), Outbox("b", NilSlice, "", "", "", ""),
   Queue(Slice("abc"), Metadata("a", "t", "", "correlationid" :> "c1"), "", ""),
   Queue(Slice("abc"), Metadata("b", "t", "", <<>>), "", ""), Queue(Slice("abc"), Nil, "a", "t"),
   Stream("a", <<"a.b", "c">>, 1, "text/plain", "abc", "correlationid" :> "c1"),
   Stream("b", <<"a", "b.c">>, 1, "text/plain", "abc", <<>>),
   Stream("b", <<"a.b", "c">>, 2, "text/plain", "abc", "tenantid" :> "t1"),
   Workflow("a", 1, NilSlice), Workflow("b", 2, Slice(""))}

MixedEdits == {<<"ext", "correlationid", Attribute("string", "c1")>>, <<"core", "source", "s">>}
MixedEnrichments == {"correlationid" :> "c1", "tenantid" :> "t1"}
MixedRoutes == {<<"http", "binary", TRUE>>, <<"kafka", "structured", FALSE>>}

\* Options that override an identity the message retains.
OverridingConversions ==
  {Queue(Slice("abc"), Metadata("a", "t", "", <<>>), "b", ""),
   Queue(Slice("abc"), Metadata("a", "t", "", <<>>), "", "u")}

Workload(conversions, enrichments, edits, routes, MaxSlots, MaxChanges) ==
  [conversions |-> conversions, enrichments |-> enrichments, edits |-> edits, routes |-> routes,
   MaxSlots |-> MaxSlots, MaxChanges |-> MaxChanges]

MCWorkloads ==
  [single |-> Workload(SingleConversions, SingleEnrichments, SingleEdits, SingleRoutes, 1, 2),
   mixed  |-> Workload(MixedConversions, MixedEnrichments, MixedEdits, MixedRoutes, 2, 1)]

OverridingLoad == [override |-> Workload(OverridingConversions, {}, {}, MCRoutes, 1, 1)]
=============================================================================
