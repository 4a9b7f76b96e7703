------------------------------ MODULE MCSchema ------------------------------
(***************************************************************************)
(* Instances of SchemaValidation.                                          *)
(***************************************************************************)
EXTENDS SchemaValidation, MCStrings

URI1 == "http://h/s"
URI2 == "http://h/??"

Event(ct, schema, kind, bytes) ==
  withData(Attributes("a", "/s", "t", ct, schema, "", "", <<>>), [kind |-> kind, bytes |-> bytes])

MCEvents ==
  {Event("application/json", URI1, "json", "{}"),
   Event("application/json", URI2, "json", "7"),
   Event("", URI1, "json", "{}"), Event("application/json", "", "json", "{}"),
   Event("application/json", URI1, "absent", ""), Event("x/json", URI1, "json", "{}"),
   Event("text/x+json", URI1, "text", "abc")}

Schema(format, accepts) == [format |-> format, accepts |-> accepts]

MCSchemas == {Schema("json", {"{}"}), Schema("avro", {"7"})}

TwoURIs == {URI1, URI2}
=============================================================================
