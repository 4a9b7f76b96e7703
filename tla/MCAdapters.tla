----------------------------- MODULE MCAdapters -----------------------------
(***************************************************************************)
(* The constant operators of the adapter modules, for the instances of     *)
(* Enrichment, Retained and Brokers.  The identifier "^id" is a string the *)
(* correlation policy refuses; "T1" parses to the tenant "t1".             *)
(***************************************************************************)
EXTENDS MCStrings

MCParseID(s)       == IF s \in {"", "^id"} THEN Nil ELSE s
MCParseTenantID(s) == CASE s \in {"t1", "T1"} -> "t1" [] s = "t2" -> "t2" [] OTHER -> Nil
MCFormatUint(n)    == ToString(n)
MCParseUint8(s)    ==
  LET numbers == {n \in 0..255 : ToString(n) = s} IN
  IF numbers # {} THEN CHOOSE n \in numbers : TRUE ELSE IF s = "01" THEN 1 ELSE Nil

MCRoutes == {"http", "kafka"} \X {"binary", "structured"} \X BOOLEAN

MCRouteLimits ==
  [MaxEventBytes |-> 900, MaxDataBytes |-> 100, MaxAttributes |-> 20,
   MaxAttributeNameBytes |-> 16, MaxAttributeValueBytes |-> 40, MaxDepth |-> 4,
   MaxBatchEvents |-> 4, MaxKafkaKeyBytes |-> 8, MaxKafkaHeaders |-> 20,
   MaxKafkaHeaderNameBytes |-> 20, MaxKafkaHeaderValueBytes |-> 40]

String(name, text) == name :> Attribute("string", text)
=============================================================================
