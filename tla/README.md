# Verification of go-cloudevents

TLA+ specifications of the CloudEvents package: its event model, the JSON
format, the HTTP and Kafka bindings, the cancellable HTTP read, schema
validation with a deadline, the adapters to other libraries, the grammar of the
tracing extensions, and the memory ownership rules that make its values
immutable. TLC checks them on small instances. TLAPS proves for every instance
what matters most about each: that a crossing of the bindings is exact and its
report complete, the guarantees of the HTTP read, of schema validation and of the
metadata, retained-envelope and broker adapters, the grammar of `traceparent`, and that
the ownership model implements a store of immutable values.

## The system

| Part | State | Operations | Hard because |
| --- | --- | --- | --- |
| Event model (`event.go`, `attribute.go`, `validation.go`, `extensions.go`) | immutable values over heap buffers | `New*Data`, `New*Attribute`, `NewEvent`, `Validate`, accessors | callers keep writing the buffers they passed in or got back, from any goroutine; the tracing grammar has seven length limits that interact |
| Conversion reports (`conversion.go`) | none | JSON and binary report, strict rejection | a report is a promise about what a decoder in another file will do |
| JSON format (`json.go`, `limits.go`) | none | encode, decode, batch | admission by encoded and decoded length, duplicate members, map iteration order, one failing event of a batch |
| HTTP binding (`http.go`) | one call: context, reader, bytes read | encode, decode in three modes | limit+1 read, cancellation racing the reader, headers repeated or respelled by intermediaries |
| Kafka binding (`kafka.go`) | none | encode, decode in two modes | tombstones, header order, metadata beside a structured value |
| Schema validation (`schema.go`, `adapters/jsonschema`, `adapters/schema-registry`) | a validator with its copy of the mapping; per call a deadline | `ValidateSchema`, construction, resolution, decoding | one timeout over two collaborators, a mapping its builder keeps changing, a registry that publishes meanwhile |
| Metadata adapters (`correlation`, `tenancy`, `telemetry`, `audit`) | none | add and extract context as extensions | several extend one event, in any order, with crossings in between that change attribute types |
| Retained-envelope adapters (`outbox`, `queue`, `event-sourcing`, `workflow`) | the state the caller keeps | to and from an event | retained state and event can disagree, be incomplete or belong to different envelopes |
| Broker adapters (`kafka`, `rabbitstream`) | none | encode, decode with routing key and transport metadata | redelivery, reordering, metadata rewritten on the way |

Components interact by calls only. The package starts no goroutine and keeps no
global state, so concurrency enters through its callers: shared buffers, the
reader and the context of `DecodeHTTP`, the collaborators of a validator. Events
meet messages in time: what one process encodes another decodes, under limits of
its own, after a proxy or a broker may have touched the message.

What makes each part correct:

- event model: to every goroutine the package looks like values that are made
  once and never change, and what was checked at construction stays true;
- tracing extensions: exactly the grammar is accepted, at every limit;
- reports: the strict encoders lose nothing outside the named classes, and a
  report names exactly what changes;
- JSON, HTTP, Kafka: whatever is accepted is valid, within the limits, and
  agrees with the metadata beside it, and no limit refuses what is within it;
- HTTP read: never more than limit+1 bytes, never a truncated body, never
  success after an early cancellation, and an end to every cancelled call whose
  reader cooperates;
- schema validation: success means that a schema the validator's own mapping
  allows accepted the data, one deadline covers the call, and the call ends;
- metadata adapters: what was added is extracted, nothing is overwritten, order
  does not matter, and the adapters that ask for trust return nothing without it;
- retained envelopes: conversion and reversal restore the envelope, every loss
  is reported, and state that retains something else than the event says is refused;
- brokers: the event survives, key and metadata are forwarded exactly, and
  routing follows the event.

## Modules

| Module | Models | Source |
| --- | --- | --- |
| `CloudEvent` | data, attributes, validation, reports | `event.go`, `attribute.go`, `validation.go`, `conversion.go` |
| `TraceContext` | `traceparent` and `tracestate`, character by character, and a left-to-right reference for each | `extensions.go` |
| `JSONFormat` | JSON documents and batches, limits | `json.go`, `limits.go` |
| `HTTPBinding` | messages in three modes, `DecodeHTTP` as one step | `http.go` |
| `KafkaBinding` | records in two modes | `kafka.go` |
| `Bindings` | both bindings behind one `encode`, `decode` and `cross` | `http.go`, `kafka.go` |
| `Bridge` | produce, encode, relay, deliver, send on | all of the above together |
| `CrossingLemmas` | what the constructors, encoders and decoders return: valid events, or an error of a kind; what each encoding carries and each decoding gives back, attribute by attribute | |
| `BridgeProofs` | proofs about `Bridge` | |
| `HTTPReceive` | `DecodeHTTP` read by read, with cancellation | `http.go` |
| `HTTPReceiveProofs` | proofs about `HTTPReceive` | |
| `ImmutableValues` | abstract specification: values that are made, kept and dropped | |
| `Ownership` | buffers, values, calls that check, copy and return | `event.go`, `attribute.go`, `kafka.go`, copies made by adapters |
| `ValueProofs` | proofs about `Ownership`, that it implements `ImmutableValues`, and about the grammars of `TraceContext` | |
| `AdapterHelpers` | string extensions, payload kinds, reconciliation, loss reports | `internal/adapter/adapter.go` |
| `MetadataAdapters` | add and extract of four adapters | `adapters/correlation`, `tenancy`, `telemetry`, `audit` |
| `Enrichment` | services that add to one event and send it on | the metadata adapters over the bindings |
| `EnrichmentProofs` | proofs about `Enrichment` | |
| `EnvelopeAdapters` | both conversions of four adapters | `adapters/outbox`, `queue`, `event-sourcing`, `workflow` |
| `Retained` | envelopes that travel as events while their state is kept | envelope and metadata adapters over the bindings |
| `RetainedProofs` | proofs about `Retained` | |
| `SchemaValidation` | `ValidateSchema` over both validators, call by call | `schema.go`, `adapters/jsonschema`, `adapters/schema-registry` |
| `SchemaProofs` | proofs about `SchemaValidation` | |
| `Brokers` | both broker adapters, services that forward, brokers that redeliver | `adapters/kafka`, `adapters/rabbitstream` |
| `BrokersProofs` | proofs about `Brokers` | |
| `MCStrings`, `MCAdapters`, `MCBridge`, `MCHTTPReceive`, `MCOwnership`, `MCEnrichment`, `MCRetained`, `MCSchema`, `MCBrokers`, `MCTrace` | instances for TLC | |

`HTTPReceive` and `Bridge` both use the operators of `HTTPBinding`;
`AnswersAsDecodeHTTP` ties the stepwise call to the one-step operator `Bridge`
uses. `Enrichment` and `Retained` compose the adapters with the bindings through
`cross`: an event between two adapter calls may go through HTTP or Kafka, in
either mode, strictly or not.

**Strings.** Go strings and byte slices are TLA+ strings. What the standard
library does to them (UTF-8 validity, URI and media type parsing, base64, JSON
quoting and parsing, percent-encoding) is a constant operator with stated laws, for instance
`Unquote(Quote(s)) = s` for UTF-8 text only; so are the parsers of the other
libraries the adapters call. The laws are assumptions (`StringAssumption`,
`JSONTypeAssumption`, `DocumentAssumption`, `RepairedTypeAssumption`, `EscapeAssumption`,
`NameAssumption` and so on), which TLC evaluates over
every text of the instance and the proofs use for all strings. They say no more
than the standard library does: a time with an offset may have a canonical UTC text in
the year 10000, which does not parse again; base64 with line breaks in it decodes, so
that `json.go` has to refuse them itself. Lengths are natural numbers
(`SizeAssumption`), no time is written as the empty string (`TimeAssumption`), and a
limit is an integer of either sign (`LimitAssumption`). `MCStrings` gives a small algebra in which the
interesting cases exist: text that is not UTF-8 and is repaired by JSON,
whitespace around JSON, escaped text up to six times as long as its value, a media type
that is both text and JSON, a CloudEvents type that is JSON by its suffix only, data that is
itself an event. `TraceContext` is the exception: its strings are sequences of
characters, one for each class the code tells apart.

**Errors.** A function that can fail yields a set of results, each a value or an
error. The order of the checks is the order of the code's early returns. The set
has several members only where the code ranges over a Go map and the first
failing entry decides; there it holds every error some entry could give.

**Slices.** Where nil and empty differ (payloads of envelopes, Kafka values) a
slice is `NilSlice` or `Slice(bytes)`, or `Nil` and `Bytes(value)`; elsewhere a nil
slice is the empty string.

**Bodies.** A JSON document is a function from member names to raw values with a
flag for repeated members; its size is computed exactly, because limits apply to
it. The data of a binary message is text, which may be a document too: `Document` is what
`json.Unmarshal` reads it as. When such data is declared `application/cloudevents+json`,
both decoders take the message for a structured one and deliver the event in the data,
provided that the context headers agree with it. `readMode` is the mode a decoder reads a
message in (`HTTPMessage.Mode`, `KafkaMessage.Mode`); the properties of a delivery speak
of that mode, not of the one the sender chose. Report wording, the sorting of issues and losses, and header order on output
are left out.

**Ownership.** A block is the backing store of a slice or map. A call lists the
copies it has to make, and checks, copies and returns in separate steps. From
`NewEvent`'s comment ("Input containers must stay stable while copied") callers
do not write a buffer that a call in progress still has to copy; after the copy
they write it freely. The window between the check and the copy of `NewJSONData` is
therefore not explored for writes: the model shows that nothing goes wrong for callers who
keep to the comment, and says nothing of those who do not. Text data comes from an immutable Go string and needs no
block of the caller's. `ImmutableValues` knows neither blocks nor calls: the
refinement mapping takes each live value to the contents of its blocks, so every
check, copy and caller's write has to be a stutter.

**Envelopes.** What an adapter copies without looking at it is one opaque field,
`rest`. The kept state may be `intact` or cut down to what the event does not
carry, and any kept state may be applied to any event of the same adapter.
`MispairedIsRefused` says what the adapters then compare (`meets`), for events of which
nothing the envelope represents was changed (`unharmed`). It does not say that the two
belong together: event-sourcing state retains the stream, the schema version and the
context, and no identity, so the state of one message also meets the event of another
message of the same stream, which then gets its stream version and sequence.

**Schema calls.** A call is its program counter, event, the schema resolved and
the ticks since its deadline was set. Resolution and decoding are steps of
collaborators that succeed, fail or stall, also after the deadline or a
cancellation, since the code checks neither after they answer.

Operators whose names end in what they get wrong (`FinishReadTruncating`,
`respelledAllowed`), marked "Mutant", are plausible bugs; substituting each for
the definition that follows it must break the property `PROJECT.json` pairs it
with.

## Runs

| Run | Configuration | Instance | Shows |
| --- | --- | --- | --- |
| `bridge` | `MCBridge.cfg` | three workloads: `crossing`, 13 content types x 20 data values, six of them events themselves, and all extension types through up to 3 encodings under ample limits; `relay`, 8 events, 112 added headers, 29 rewritten members, about 40 limit configurations that are met exactly, just missed, zero or the largest integer; `batch`, up to 2 events under the same limits and rewrites | strict crossings are exact if and only if the event is of no class in `Unreported`; reports are exact; a second crossing in the mode the first was read in changes nothing, even after a relay; what is delivered is valid, admitted and consistent with its headers; what fits the limits is delivered; no partial batch |
| `http_receive` | `MCHTTPReceive.cfg` | 12 calls in every mode, bodies from empty to twice the limit, 8 pairs of limits, each varied around the one length its mode is bounded by, chunks of up to `MaxChunk` = 3 bytes, under fairness | bounded read, no truncation, agreement with the one-step decoder, cancellation is final and a cancelled call returns |
| `ownership` | `MCOwnership.cfg` | 2 goroutines, 4 blocks, valid and invalid contents | isolation, immutability, JSON stays valid, `ImmutableValues` is implemented |
| `enrichment` | `MCEnrichment.cfg` | 14 first events, 15 additions that agree, conflict or do not parse, all routes, any number of steps | additions are extracted, survive crossings, overwrite nothing, commute, and need trust to be read (telemetry leaves trust to its caller's policy) |
| `retained` | `MCRetained.cfg` | two workloads: `single`, one of 74 conversions, up to 2 enrichments, edits or crossings; `mixed`, two conversions that share an identity, a stream or the letters of a stream, one change each, any pairing | the envelope is restored, losses are complete, nothing untrusted is adopted, state that retains another identity, type, context, stream or schema version is refused |
| `schema` | `MCSchema.cfg` | 2 goroutines, 7 events for every guard, 2 URIs, 1 lookup, a JSON and an Avro schema, a timeout of 2 ticks, under fairness | every success was checked, one deadline, every call returns. With one lookup and one JSON Schema a later schema is not told from an earlier one, nor one lookup from another: that is left to the theorem `CheckedSuccess` |
| `brokers` | `MCBrokers.cfg` | 6 events x 4 keys x 4 metadata lists, each forwarded without end; for one origin 2 messages in flight | the event survives, forwarding is exact, routing follows the event |
| `trace` | `MCTrace.cfg` | every text of up to 10 characters over a `traceparent` alphabet; of up to 10 over 8 character classes and up to 13 over 4 for `tracestate`, with at most 3 or 4 characters after a prefix that is beyond repair | both recognizers accept exactly the reference grammar |

The passing runs range from a few thousand states (`http_receive`) to about 930 000
(`bridge`), and each ends in under three minutes. In `retained` an event crosses without
the strict encoders, because what they deliver the others deliver too.

A workload is a constant record from which the initial state picks; it never
changes, so one run explores several instances with their own bounds.

Why the bounds are enough: only batch mode relates events, and two events show
order and partial failure. Three hops let an event that changed once be sent
through two further bindings. Two goroutines and four blocks let two calls share
an input while a third party writes; two goroutines and one lookup let a schema
be replaced between two calls, and between resolution and decoding of one; the
proofs remove these bounds. `TraceContext` scales the W3C lengths down but keeps
their relation (tenant + 1 + system = key, two full members exceed the whole) so
that each limit can be the first to bite. Two slots are the least that can be
mispaired.

Deadlock checking is off where an application simply stops when its bounds are
used up (`Bridge`, `Retained`, `TraceContext`). In `MCOwnership` the finite heap can be exhausted
by two calls in progress, which cannot happen to a Go program; such states
stutter. Symmetry of goroutines and blocks is used there, with safety properties
only.

### Disagreements with the documentation

`StrictLosesNothing` states what `http.go:43`, `kafka.go:46` and
`docs/conversions.md` say: a strict encoding that is accepted arrives unchanged.
Three runs violate it.

| Run | Event | What happens |
| --- | --- | --- |
| `text_json` | text data declared `text/json`, binary mode | accepted as text, decoded as JSON or refused |
| `dataless_type` | a content type and no data, HTTP binary mode | arrives with present empty data |
| `unparsed_time` | a time beyond year 9999 | every decoder refuses what every encoder wrote |

Three more classes have no run of their own: data declared
`application/cloudevents+json`, taken for a structured message in binary mode
(`Shadowed`); a `dataschema` with bytes that are not UTF-8 in its query, rewritten
by JSON and refused by HTTP and Kafka (`NonUTF8Schema`); a content type with such
bytes, lost everywhere but in HTTP binary mode (`NonUTF8Type`). Of a `Shadowed` event the
receiver gets nothing, or the event in its data. All six are
established by `StrictIsExact` in the run `bridge`, which is an equivalence: an
accepted strict encoding is delivered unchanged exactly when the event is of none
of these classes.

`queue_override` violates `KeptStateReverses`: `queue.ToCloudEvent` with an
overriding `StableID` or `Type` writes it to the event and not to the message it
returns for reversal, so `FromCloudEvent` refuses the pair as a collision.
`RestoresEnvelope` excludes exactly these conversions (`Overridden`).

Two smaller observations are built into the properties instead: binary mode
passes over headers named `data` and `data_base64` (`MetadataAgrees`), and the
content type of a Kafka record is bounded by the header limit, not the attribute
limit (`AdmittedWithinLimits`). `FittingIsDelivered` is the converse: a strict encoding of no
class in `Unreported` that was not touched on the way is only refused if its body, its
headers, its depth or what it holds exceed a limit, or if a limit is zero or leaves no room
for the one byte or level the code adds to it. A document without data is admitted whatever the limit on
data, negative ones included, so that conjunct speaks of data that is present.

### Fairness

`FairSpec` of `HTTPReceive` assumes that the steps of the call itself are taken
when they can be (a goroutine keeps running), and of the environment only that a
reader whose context is cancelled eventually returns that error. The code says
that much and no more: "a blocked Read must cooperate itself" (`readHTTPBody`).
Nothing is assumed about reads making progress, and cancellation is never
forced.

`FairSpec` of `SchemaValidation` assumes that clocks advance and that a
collaborator whose context is done gives up, which is what the comment on
`JSONSchemaConfig.Timeout` demands of them. Nothing is assumed about a
collaborator whose context is not done.

Every other property is a safety property.

## Proofs

`ValueProofs` proves about `Ownership`, for any sets of goroutines, blocks and contents, with
`JSON \subseteq Contents` as the only assumption:

- `Invariance`, `TypeCorrect`;
- `Isolation`: `Spec => []ValuesAreIsolated`;
- `JSONValidity`: `Spec => []JSONStaysValid`;
- `Immutability`: `Spec => ValuesNeverChange`, an action property;
- `Refinement`: `Spec => ImplementsValues`, that is, `Ownership` implements
  `ImmutableValues` under the mapping that reads each live value's contents.

None of the invariants is inductive alone. A value is isolated when it is
published only because the copy it comes from was shared with nobody before, and
its JSON is valid only because the buffer did not change between `json.Valid` and
the copy. `IInv` adds both: `CopiesAreUnshared` (a copy in progress shares its
block with no caller, value, pending read or other copy) and
`PendingJSONIsValid`. There is one lemma per kind of step; every write goes
through `WritePreserves` or `CopyPreserves`. The refinement rests on
`Immutability` for the steps that publish nothing, and on `JSONValidity` for those
that publish.

`HTTPReceiveProofs` proves, for any set of calls whose size is that of their body
(`CallAssumption`), limits that are integers and any chunk bound:

- `BoundedRead`: `Spec => []ReadIsBounded`;
- `NoTruncation`: `Spec => []NothingTruncated`;
- `CancellationIsFinal`: `Spec => CancellationWins`;
- `StepwiseAnswer`: `Spec => []AnswersAsDecodeHTTP`.

The invariant is `ReadInvariant`: during the read, bytes taken and bytes
`LimitedReader` still admits add up to limit+1, so the read ends either with the
whole body or with one byte too many. `CancellationIsFinal` adds that a call
cancelled early can only stay before the end of its read or fail. For
`StepwiseAnswer`, `AnswerInvariant` adds that past the first checks the mode is one that
`detectHTTPMode` may select and that its limit is usable; with `ReadInvariant` the
limit applied while reading and the one `DecodeHTTP` applies to the length then agree.

`SchemaProofs` proves, for any goroutines, events, mappings, lookups, schemas and
timeout:

- `SchemaInvariance`: `Spec => []SchemaInvariant`;
- `CheckedSuccess`: `Spec => []SuccessIsChecked`;
- `SharedDeadline`: `Spec => []OneDeadline`.

`SuccessIsChecked` speaks of finished calls only. `SchemaInvariant` carries it
back through the call: besides types it says that whatever is being resolved or
decoded was admitted by the validator's own copy of the mapping and has passed the
guards of `ValidateSchema` (`Admitted`), and that what a finished call holds was
checked (`Checked`). The caller's map appears in neither, which is why its later
changes cannot matter.

`BridgeProofs` proves, for any workloads, that is, any inputs, limits, relays and
bounds:

- `HeldEventsStayValid`: `Spec => []HeldEventsAreValid`;
- `StrictCrossesExactly`: `ClosedStrings` implies `Spec => []StrictIsExact`;
- `ReportsAreExact`: `ClosedStrings` implies `Spec => []ReportIsExact`;
- `NothingLeftToLose`: `ClosedStrings` implies `Spec => []SecondCrossingIsStrict`;
- `MetadataNeverDisagrees`: `ClosedStrings` implies `Spec => []MetadataAgrees`;
- `LimitsAreKept`: `ClosedStrings` implies `Spec => []AdmittedWithinLimits`.

`ClosedStrings` says that quoting, trimming, encoding and parsing a string of `Strings`
gives one again, and that the texts the package itself writes are among them. The
strings of a Go program are closed in this sense. No finite sample is (quoting
alone makes ever longer text), so it is a hypothesis of the theorems and not an
assumption TLC would have to evaluate. `TextAssumption` says that what an application
builds and a relay writes is made of `Strings`, that its times are canonical texts,
and that a relay which rewrites a member writes JSON.

Validity needs `CrossingInvariant`: a decoder can only be trusted with an HTTP message
that has a batch body in batch mode and in no other, which is what the encoders
write and no relay changes. The next three rest on `WholeInvariant`. Besides the types it
says that events held and sent are whole (valid, and made of strings with canonical
times); that a message in flight is made of strings, and is the encoding of what was sent
(`Carries`) until a relay touches it; that the report is the losses of what was
sent; that what arrived unrelayed differs from it as those losses say, or not at
all, or is of a class in `Unreported` (`Crossed`); and that whatever arrived, relayed or
not, its binding would lose nothing of it in the mode it was read in. That last part is what makes the second
crossing strict, and it holds of relayed messages only because the decoders
normalise: they refuse or canonicalise everything their encoder would not write. The mode is
that of the reading because the event in the data of a binary message may have a Boolean
extension, which binary mode would lose and structured mode keeps.

The last two speak of relayed messages above all, so the argument cannot go through
what was encoded. `DeliveredInvariant` says of a delivery what the decoder established of
the message as it was: the context headers, whatever a relay added, are those of the
event (`MetadataBeside`), no document it was read as repeats a member
(`DecodedDocuments`), and every event is within the limits (`EventsWithin`). It is
inductive beside `WholeInvariant`, which says what a message in flight is made of; only
`Deliver` establishes its second part, and only an encoding, which leaves the
status, changes what it speaks of. `DecodedBeside` and `DecodedWithin` follow each
decoder from its admission checks to the event: for a document the count of its members bounds
the count of attributes only because no attribute is without a member and `data` and
`data_base64` are not counted; for a binary message because a valid event leaves none of
the required names without a header. Binary data in a document is bounded by the length
its base64 text announces, which is its length because text with line breaks is refused.

`CrossingLemmas` carries the weight: for each route, what the encoder writes
(`CarriedStrings`), what the decoder makes of it under any limits (`CarriedOver`), and
that whatever a decoder returns is whole and without losses (`DecodedWhole`);
`CrossedOnce` puts them together for one event. No
lemma there speaks of the bounds of `Bridge`, so they serve any module that
composes `encode` and `decode`.

`EnrichmentProofs` proves, for any additions and first events:

- `NoOverwriting`: `Spec => NothingOverwritten`, an action property;
- `AdditionsCommute`: `Spec => []OrderIrrelevant`;
- `TrustIsRequired`: `Spec => []UntrustedReadsNothing`;
- `AddedContextSurvives`: `ClosedStrings` implies `Spec => []AdditionsSurvive`.

`TrustIsRequired` speaks of correlation, tenancy and audit, which decide on trust
themselves; telemetry passes the question to its caller's policy.

The first three need no invariant: they hold of every step and of every event, reachable
or not.
`OrderIrrelevant` compares two additions in both orders on whatever event is there;
its one exception, a trace state without a parent, which is refused unless the
parent came first, is part of the property. The lemma behind it is that
`AddStringExtensions` merges maps that agree where they meet.

`AdditionsSurvive` is about a whole journey and rests on `EnrichmentInvariant`: the event
is whole, and holds as a string extension every text some service added. An addition
keeps it because it merges without overwriting; a crossing because it brings every
extension of type String back as it was (`KeepsStrings`), also for the events of
`Unreported`, whose other parts it may change. What the extracting adapters make of
texts that are still there is then a matter of their parsers. The assumptions are about
what a service may add: services start from valid events whose data is not itself declared to be a CloudEvent
(`FirstEventAssumption`: a receiver may be given the event in such data, in which the
extension that was added as a string can be a Boolean that reads the same); a
`TenantID` was parsed and parses to itself (`AdditionAssumption`, `TenantAssumption`); a
record of go-audit with an id has an action and an outcome, which `AddMetadata` does not
check itself.

`RetainedProofs` proves, for any workloads of envelopes their own libraries would
accept (`EnvelopeAssumption`), names of streams whose encodings differ
(`SubjectAssumption`: unpadded base64url has no dot) and edits of one field
(`EditAssumption`):

- `RetainedCorrect`: `Spec => []RetainedInvariant`;
- `ThereAndBack`: `Spec => []RestoresEnvelope`;
- `NothingUntrusted`: `Spec => []NothingAdoptedUntrusted`;
- `WrongStateIsRefused`: `Spec => []MispairedIsRefused` (under Envelopes above: what it does
  not claim);
- `ReportsAreComplete`: `Spec => []LossesAreComplete`.

`RetainedInvariant` says of every slot that its event is valid, wherever it has been, and
that event sent and state kept are what one conversion returned, the state cut down
or not; and of a result that it is what the adapter returns for the slots as they
now are. From there each theorem is about one conversion and its reverse, adapter by
adapter. `LossesAreComplete` once
claimed that reports name every difference; the proof failed on an event whose
tenant is spelt `T1` instead of `t1`, which gives the same envelope and is in no report,
and the property now says so (`respelledTenant`).

`BrokersProofs` proves, for any first events that are valid and made of `Strings`, any keys
and transport metadata (`OriginAssumption`), any entries other parties add under names
the bindings do not own (`ForeignEntryAssumption`), any limits with an integer number of
headers (`RouteLimitAssumption`), and whatever RabbitMQ Streams accepts as a message, each
from `ClosedStrings`:

- `ForwardedEventSurvives`: `Spec => []EventSurvivesTransport`;
- `ForwardingPreservesAll`: `Spec => []ForwardingIsExact`;
- `RoutingIsBoundToEvent`: `Spec => []RoutingFollowsEvent`.

What a service holds follows from what was in flight, so the invariant is about messages
above all. `ForwardInvariant` says of every one of them that it still carries the event of
the first service, in some mode, with headers or properties behind it that belong to the
transport (`CarriedBy`); that metadata and route are those of the origin unless
some message was rewritten; and that its key is the partitionkey unless this message was
rewritten. `Exact` keeps out the classes of `Unreported`, which no forwarding repairs. A
Kafka record is not what the encoder wrote, since headers of the transport follow it:
the lemmas show that `DecodeKafka` takes the record apart into exactly these two
parts, in order, repetitions included. For that its loop over the headers is a recursive
function (`transportHeaders`), whose value at each index is unfolded once per lemma. The
attempt to prove the first theorem also showed an origin of `MCBrokers` to be no valid event
(a `partitionkey` that is an integer); it is now one with another integer extension.

`ValueProofs` also proves the two grammars of the tracing values. `TraceParentGrammar` is
`TraceSpec => []ParentAgrees` for texts of any length over any characters, and any lengths
of the four parts but zero (`TraceLengthAssumption`; zero would allow an empty part, which
the code refuses). The invariant is only that the text is a sequence; the weight is in the
lemma `ParentGrammar`, about any text. `SplitCuts` shows that `Split` cuts a text in order
and at every separator, by ranking the cuts; `NextCut` and `CutsCover` that from a cut the
next one is the next separator and that every character lies in a part or on a cut. Then
the first four cuts of an accepted text are where the reference expects its dashes, and
the reverse (`AlignedPositioned`).

`TraceStateGrammar` is `TraceSpec => []StateAgrees`, again for any text and for any lengths
that are natural numbers, at least one member allowed (`StateLengthAssumption`). The code
and the automaton are each compared with a third definition, `StateAt`, which says by
positions where members, keys, equals signs and values lie.

- The code's side (`StateByPositions`): the parts of `Split` are the stretches between
  neighbouring commas (`PartIsMember`, `MemberIsPart`), `Trim` keeps what lies between the
  first and the last character that is no blank, and `Before` and `After` cut at the first
  equals sign; a member is accepted exactly if it is well formed, and the key the code
  compares is then the only one it can have (`MemberAgrees`, `OneKeyText`), so
  `duplicateKeys` finds a duplicate exactly if two members share a key (`KeysAgree`).
- The automaton's side: the invariant `Scanned` says, for each phase, how the text read so
  far divides into finished members, whose keys are those in `keys`, and a beginning of the
  next one, with its counters; in the dead phase it says that no text which begins so is a
  tracestate (`Doomed`). The second half makes the proof: every way the automaton gives up
  needs its own reason why nothing that follows can repair it. `ScanStep` puts the phases
  together, and `AutomatonAgrees` reads acceptance off the invariant.

The laws of the strings are assumptions of `BridgeProofs`, `EnrichmentProofs`,
`RetainedProofs` and `BrokersProofs`. Errors are never nil (`ErrorAssumption` and its kin).

Only model-checked are the liveness properties (`CancelledCallReturns`, `CallsReturn`),
which need fairness and `ENABLED` and are beyond the prover, and `FittingIsDelivered`, whose
proof would follow every encoder and decoder once more for the absence of each failure. Every other property of a
passing run is a theorem.

## Not modelled

- The `golib` facade (`adapters/golib`), which only delegates, and scripts,
  fixtures and integration tests.
- URI, media type and Cloud string grammars and percent-decoding: constant
  operators with laws. The constructors of tracing attributes in `extensions.go`
  are a check followed by `NewStringAttribute`, and need no definition of their
  own.
- `PutStringExtension` of `internal/adapter`, which only tests call.
- Fields the broker adapters copy into `State` and nothing reads (topic,
  partition, offset, timestamps), and what audit and telemetry report about
  values that never enter the event.
- A nil slice as the value of a header: it is the empty value.
- Panics of a caller's reader or collaborator, and unrelated HTTP headers, which
  the package leaves to its caller.
- Crashes: the package persists nothing. What survives a restart is what its
  callers kept, which is the state of `Retained` and the messages of `Brokers`.

## Plan

1. Done: the event model, both bindings, `Bridge`, `HTTPReceive`, `Ownership`
   with their proofs.
2. Done: metadata adapters (`Enrichment`), retained envelopes (`Retained`),
   schema validation with its proofs, broker adapters, the tracing grammar, and
   `Ownership` as an implementation of `ImmutableValues`.
3. Done: proofs about the crossing (`BridgeProofs` over `CrossingLemmas`) and about the
   adapters (`EnrichmentProofs`, `RetainedProofs`) from the laws of the string operators.
4. Done: proofs about the broker adapters (`BrokersProofs`) and the grammars of
   `traceparent` and `tracestate` (`ValueProofs`).

The plan is complete. Liveness stays with TLC.
