------------------------------ MODULE Brokers -------------------------------
(***************************************************************************)
(* The broker adapters (adapters/kafka, adapters/rabbitstream) and an      *)
(* event that services forward from one broker to the next, handing on the *)
(* routing key and the transport metadata they received.  Brokers deliver  *)
(* at least once and in any order, and other parties rewrite transport     *)
(* metadata on the way.                                                    *)
(*                                                                         *)
(* A nil key is Nil.  Metadata entries are the headers of KafkaBinding;    *)
(* what Kafka calls a header, RabbitMQ calls a property.                   *)
(***************************************************************************)
EXTENDS AdapterHelpers

CONSTANTS
  Origins,            \* [event, key, metadata] the first service may send
  RouteLimits,        \* the limits of every consumer
  Targets,            \* <<stream, superStream>> a producer may name
  ForeignKeys,        \* the keys others may write into a message
  ForeignIDs,         \* the message IDs others may write
  ForeignEntries,     \* the metadata entries others may add
  ForeignTypes,       \* the content types others may write
  ValidMessage(_),    \* Message.Validate of go-rabbitmq-streams
  ValidDelivery(_),   \* Message.ValidateDelivery
  MaxInFlight(_)      \* bound on the messages in brokers, by origin

ErrValidation == "ErrValidation"

\* A service first sends a valid event of strings, with a slice of metadata.
ASSUME OriginAssumption ==
  \A o \in Origins :
    /\ Validate(o.event) = {} /\ o.event = withData(o.event, o.event.data) /\ EventOfStrings(o.event)
    /\ o.metadata \in Seq({o.metadata[i] : i \in DOMAIN o.metadata})

\* What others add to a record belongs to the transport, not to the binding.
ASSUME ForeignEntryAssumption == \A entry \in ForeignEntries : entry.owner = "transport"

ASSUME RouteLimitAssumption == RouteLimits.MaxKafkaHeaders \in Int

ASSUME ValidationErrorAssumption == ErrValidation # Nil

-----------------------------------------------------------------------------
(* adapters/kafka.                                                          *)

agreedKey(event, key) == IF KafkaPartitionKey(event) # Nil THEN KafkaPartitionKey(event) ELSE key

\* The partitionkey of the event and a key of the transport disagree.
keyCollision(event, key, none) ==
  KafkaPartitionKey(event) # Nil /\ key # none /\ key # KafkaPartitionKey(event)

\* Mutant: transport headers are not kept out of the binding's namespace.
ownedHeadersUnchecked(headers) == {}

ownedHeaders(headers) == {i \in DOMAIN headers : headers[i].owner # "transport"}

extended(message, headers) == [message EXCEPT !.headers = @ \o headers]

\* Mutant: the key of the transport wins.
EncodeKafkaTransportKey(event, mode, transport) ==
  {[r EXCEPT !.value = IF r.err # Nil THEN Nil ELSE extended(@.message, transport.headers)]
   : r \in strictly(EncodeKafkaWithReport(event, mode, transport.key))}

EncodeKafka(event, mode, transport) ==
  LET failures == When(\/ keyCollision(event, transport.key, Nil)
                       \/ ownedHeaders(transport.headers) # {}, ErrMetadataCollision)
  IN  IF failures # {} THEN Returns(failures, Nil)
      ELSE {[r EXCEPT !.value = IF r.err # Nil THEN Nil ELSE extended(@.message, transport.headers)]
            : r \in strictly(EncodeKafkaWithReport(event, mode, agreedKey(event, transport.key)))}

\* Topic, partition, offset and timestamp go from the record to State unchanged.
DecodeKafkaRecord(record, limits) ==
  IF Len(record.headers) > limits.MaxKafkaHeaders THEN Returns({ErrLimitExceeded}, Nil)
  ELSE DecodeKafka(record, limits)

-----------------------------------------------------------------------------
(* adapters/rabbitstream.                                                   *)

\* Mutant: entries without a value are left out.
cloneMetadataValued(entries) == SelectSeq(entries, LAMBDA e : e.value # "")

cloneMetadata(entries) == [i \in DOMAIN entries |-> entries[i]]

EncodeRabbit(event, transport) ==
  LET failures == When(\/ (transport.stream = "") = (transport.superStream = "")
                       \/ keyCollision(event, transport.routingKey, ""), ErrMetadataCollision)
      message(payload) ==
        [stream |-> transport.stream, superStream |-> transport.superStream,
         partition |-> "", hasOffset |-> FALSE, offset |-> 0,
         routingKey |-> agreedKey(event, transport.routingKey), messageID |-> event.id,
         contentType |-> JSONMediaType, payload |-> payload,
         properties |-> cloneMetadata(transport.properties)]
  IN  IF failures # {} THEN Returns(failures, Nil)
      ELSE UNION {IF r.err # Nil THEN {r}
                  ELSE Returns(When(~ValidMessage(message(r.value.body)), ErrValidation),
                               message(r.value.body))
                  : r \in strictly(EncodeJSONWithReport(event))}

validateMessage(message) ==
  When(~(IF message.partition # "" \/ message.hasOffset \/ message.offset # 0
         THEN ValidDelivery(message) ELSE ValidMessage(message)), ErrValidation)

DecodeRabbit(message, limits) ==
  LET failures == validateMessage(message)
                  ?? When(MediaClass(message.contentType) # "ce+json", ErrUnsupportedMode)
      collisions(event) ==
        When(\/ message.messageID \notin {"", event.id}
             \/ keyCollision(event, message.routingKey, ""), ErrMetadataCollision)
  IN  IF failures # {} THEN Returns(failures, Nil)
      ELSE UNION {IF r.err # Nil THEN {r}
                  ELSE Returns(collisions(r.value),
                               [event |-> r.value, properties |-> cloneMetadata(message.properties)])
                  : r \in DecodeJSON(message.payload, limits)}

-----------------------------------------------------------------------------
(* Services and brokers.                                                    *)

VARIABLES
  origin,   \* [event, key, metadata, from] of the first service
  held,     \* the same of the service that now holds the event
  inFlight, \* the messages in brokers: [broker, message, touched]
  touched   \* another party has rewritten some message

vars == <<origin, held, inFlight, touched>>

Init ==
  /\ origin \in {[event |-> o.event, key |-> o.key, metadata |-> o.metadata, from |-> "app"]
                  : o \in Origins}
  /\ held = origin
  /\ inFlight = {}
  /\ touched = FALSE

\* The service keeps what it holds when an encoder refuses it.
send(broker, results) ==
  /\ Cardinality(inFlight) < MaxInFlight(origin)
  /\ \E r \in results :
       inFlight' = IF r.err # Nil THEN inFlight
                   ELSE inFlight \cup {[broker |-> broker, message |-> r.value, touched |-> FALSE]}
  /\ UNCHANGED <<origin, held, touched>>

SendKafka(mode) ==
  send("kafka", EncodeKafka(held.event, mode, [key |-> held.key, headers |-> held.metadata]))

SendRabbit(target) ==
  send("rabbit", EncodeRabbit(held.event,
         [stream |-> target[1], superStream |-> target[2],
          routingKey |-> IF held.key = Nil THEN "" ELSE held.key, properties |-> held.metadata]))

\* A message stays in its broker until it is settled, so it may be consumed again.
Consume(m) ==
  /\ \/ /\ m.broker = "kafka"
        /\ \E r \in DecodeKafkaRecord(m.message, RouteLimits) :
             held' = IF r.err # Nil THEN held
                     ELSE [event |-> r.value.event, key |-> r.value.key,
                           metadata |-> r.value.transportHeaders, from |-> "kafka"]
     \/ /\ m.broker = "rabbit"
        /\ \E r \in DecodeRabbit(m.message, RouteLimits) :
             held' = IF r.err # Nil THEN held
                     ELSE [event |-> r.value.event,
                           key |-> IF m.message.routingKey = "" THEN Nil ELSE m.message.routingKey,
                           metadata |-> r.value.properties, from |-> "rabbit"]
  /\ UNCHANGED <<origin, inFlight, touched>>

\* Acknowledged, expired or dead-lettered.
Settle(m) ==
  /\ inFlight' = inFlight \ {m}
  /\ UNCHANGED <<origin, held, touched>>

replace(m, message, by) ==
  /\ inFlight' = (inFlight \ {m}) \cup
                 {[broker |-> m.broker, message |-> message, touched |-> m.touched \/ by]}
  /\ touched' = (touched \/ by)
  /\ UNCHANGED <<origin, held>>

\* The broker chooses a backing stream and an offset, which may be zero.
Assign(m, offset) ==
  /\ m.broker = "rabbit" /\ ~m.message.hasOffset
  /\ replace(m, [m.message EXCEPT !.stream = "p", !.partition = "p",
                                  !.hasOffset = TRUE, !.offset = offset], FALSE)

\* Another party rewrites what the transport owns.
RewriteKey(m, key) ==
  replace(m, IF m.broker = "kafka" THEN [m.message EXCEPT !.key = key]
             ELSE [m.message EXCEPT !.routingKey = IF key = Nil THEN "" ELSE key], TRUE)

RewriteID(m, id) ==
  m.broker = "rabbit" /\ replace(m, [m.message EXCEPT !.messageID = id], TRUE)

RewriteType(m, type) ==
  m.broker = "rabbit" /\ replace(m, [m.message EXCEPT !.contentType = type], TRUE)

AddEntry(m, entry) ==
  /\ ~m.touched
  /\ replace(m, IF m.broker = "kafka" THEN [m.message EXCEPT !.headers = Append(@, entry)]
                ELSE [m.message EXCEPT !.properties = Append(@, entry)], TRUE)

Next ==
  \/ \E m \in Modes : SendKafka(m)
  \/ \E t \in Targets : SendRabbit(t)
  \/ \E m \in inFlight :
       \/ Consume(m) \/ Settle(m)
       \/ \E o \in {0, 1} : Assign(m, o)
       \/ \E k \in ForeignKeys : RewriteKey(m, k)
       \/ \E i \in ForeignIDs : RewriteID(m, i)
       \/ \E t \in ForeignTypes : RewriteType(m, t)
       \/ \E e \in ForeignEntries : AddEntry(m, e)

Spec == Init /\ [][Next]_vars

-----------------------------------------------------------------------------
(* Properties.                                                              *)

\* The events whose crossings are known to change them are left to Bridge.
Exact == \A m \in Modes : ~Unreported(origin.event, "kafka", m)

keyOf(m) == IF m.broker = "kafka" THEN m.message.key ELSE m.message.routingKey

route(h) == IF agreedKey(h.event, h.key) = "" THEN Nil ELSE agreedKey(h.event, h.key)

\* Forwarding changes nothing: through any chain of brokers and modes, with
\* redeliveries, every service holds the event, the routing and the ordered
\* transport metadata of the first one, as long as no other party touches a
\* message (Encode and Decode of both adapters; RabbitMQ has no empty key).
ForwardingIsExact ==
  (Exact /\ ~touched) =>
    /\ held.event = origin.event
    /\ held.metadata = origin.metadata
    /\ route(held) = route(origin)

\* Whatever other parties do to keys, message IDs, properties and transport
\* headers, no service ever holds another event than the first one sent.
EventSurvivesTransport == Exact => held.event = origin.event

\* An event with a partitionkey is only ever sent under that key, to either
\* broker, also by a service that received it under a rewritten one, and a
\* stream consumer never gets it under another key (kafka.Encode,
\* rabbitstream.Encode and Decode).
RoutingFollowsEvent ==
  Exact /\ KafkaPartitionKey(origin.event) # Nil =>
    /\ \A m \in inFlight : ~m.touched => keyOf(m) = KafkaPartitionKey(origin.event)
    /\ held.from = "rabbit" => held.key \in {Nil, KafkaPartitionKey(origin.event)}
=============================================================================
