---------------------------- MODULE MCEnrichment ----------------------------
(***************************************************************************)
(* An instance of Enrichment: events that already carry extensions under   *)
(* the adapters' names, well-formed or not, and additions that agree,      *)
(* conflict, or do not parse.                                              *)
(***************************************************************************)
EXTENDS Enrichment, MCAdapters

Start(ct, data, ext) ==
  withData(Attributes("a", "/s", "t", ct, "", "", "", ext), data)

Carried ==
  {<<>>, String("ext", "x"), String("correlationid", "c1"),
   "correlationid" :> Attribute("integer", "7"), String("requestid", ""),
   String("requestid", "^id"), String("tenantid", "T1"), String("tenantid", "none"),
   "tenantid" :> Attribute("uri", "http://h/s"), String("auditid", "r1"),
   String("auditoutcome", "01"), String("traceparent", "tp")}

MCFirstEvents ==
  {Start("", NoData, ext) : ext \in Carried}
  \cup {Start("", [kind |-> "text", bytes |-> "abc"], String("ext", "x")),
        Start("text/plain", [kind |-> "json", bytes |-> " {}"], <<>>)}

Value(c, r, k) ==
  [n \in correlationNames |-> CASE n = "correlationid" -> c [] n = "requestid" -> r [] OTHER -> k]

Record(id, outcome, c, k, t) ==
  [id |-> id, action |-> "act", outcome |-> outcome,
   context |-> [n \in contextNames |-> CASE n = "correlationid" -> c [] n = "causationid" -> k
                                         [] OTHER -> t]]

MCAdditions ==
  [adapter : {"correlation"},
   value : {Value("c1", "", ""), Value("", "q1", "k1")}]
  \cup [adapter : {"tenancy"}, value : {"", "t1", "t2"}]
  \cup [adapter : {"telemetry"},
        value : {Nil, ("traceparent" :> "tp") @@ ("baggage" :> "b"),
                 ("traceparent" :> "tp") @@ ("tracestate" :> "ts"), "traceparent" :> "bad",
                 "tracestate" :> "ts"}]
  \cup [adapter : {"audit"},
        value : {Record("r1", 1, "", "", ""), Record("r2", 2, "7", "k1", "T1"),
                 Record("r1", 1, "^id", "", ""), Record("r1", 1, "", "", "none"),
                 Record("", 1, "", "", "")}]

MCEnrichmentStrings ==
  MCStringSet \cup correlationNames \cup traceNames \cup contextNames
    \cup {"auditid", "auditaction", "auditoutcome", "ext", "x", "t", "c1", "q1", "k1", "r1", "r2",
          "act", "1", "2", "01", "t2", "T1", "none", "tp", "ts", "bad", "^id", "http://h/s"}
=============================================================================
