----------------------------- MODULE MCBrokers ------------------------------
(***************************************************************************)
(* An instance of Brokers: an event of every kind of data, with and        *)
(* without a partitionkey, keys and metadata that agree, conflict, repeat  *)
(* or belong to the binding.                                               *)
(***************************************************************************)
EXTENDS Brokers, MCAdapters

Event(ct, kind, bytes, ext) ==
  withData(Attributes("a", "/s", "t", ct, "", "", "", ext), [kind |-> kind, bytes |-> bytes])

Keyed == String("partitionkey", "k")

FirstEvents ==
  {Event("", "absent", "", ext) : ext \in {<<>>, Keyed}}
  \cup {Event("", "binary", "", Keyed), Event("application/json", "json", "{}", Keyed),
        Event("text/plain", "text", "abc", "ext" :> Attribute("integer", "7")),
        Event("text/json", "text", "abc", Keyed)}

Entry(name, value) == Header("transport", name, value)

FirstKeys     == {Nil, "", "k", "x"}
Twice         == <<Entry("h", "1"), Entry("h", "")>>
FirstMetadata == {<<>>, Twice, <<Header("ce", "ext", "x")>>,
                  <<Header("content-type", "", "text/plain")>>}

MCOrigins == [event : FirstEvents, key : FirstKeys, metadata : FirstMetadata]

\* For one origin two messages are in flight at once: an old one is consumed
\* again after its event has been forwarded.
MCMaxInFlight(o) ==
  IF o.event = Event("", "absent", "", Keyed) /\ o.key = "k" /\ o.metadata = Twice
  THEN 2 ELSE 1

MCBrokersStrings == MCStringSet \cup {"partitionkey", "k", "ext", "x", "t"}

MCTargets       == {<<"q", "">>, <<"", "q">>, <<"", "">>}
MCForeignKeys   == {Nil, "x"}
MCForeignIDs    == {"", "b"}
MCForeignEntries == {Entry("h", "2")}
MCForeignTypes  == {"application/json", "bogus"}

MCValidMessage(m)  == Len(m.properties) <= 2
MCValidDelivery(m) == m.partition # "" /\ m.hasOffset /\ Len(m.properties) <= 2

\* One header less than an event with two entries of metadata and a foreign one
\* needs.
MCBrokerLimits == [MCRouteLimits EXCEPT !.MaxKafkaHeaders = 8]
=============================================================================
