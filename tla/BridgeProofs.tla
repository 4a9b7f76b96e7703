---------------------------- MODULE BridgeProofs ----------------------------
(***************************************************************************)
(* Proofs about events that cross the bindings: whatever a relay does to a *)
(* message and whatever the limits, an application holds valid events; a   *)
(* strict crossing is exact, a report names every change, and a crossing   *)
(* leaves nothing to lose the second time; a delivered event agrees with   *)
(* the headers beside it and is within the receiver's limits.              *)
(***************************************************************************)
EXTENDS Bridge, CrossingLemmas

-----------------------------------------------------------------------------
(* HeldEventsAreValid.                                                      *)

\* The inductive invariant: the events held are a sequence of valid events, an
\* encoder refused for one of two reasons, and what is in flight over HTTP is a
\* message of the mode it was encoded in, whatever the relay did.
CrossingInvariant ==
  /\ AllValid(held)
  /\ status = "refused" => err \in {ErrConversionLoss, ErrUnsupportedMode}
  /\ mode \in Modes
  /\ status = "inflight" /\ binding = "http" => HTTPMessage(mode, message)

\* An event an application builds of checked parts is valid.
LEMMA ProducedIsValid ==
  ASSUME NEW a, NEW kind, NEW bytes, NEW d \in newData(kind, bytes),
         NEW e \in (IF d.err # Nil THEN {d} ELSE NewEvent(a, d.value)), e.err = Nil
  PROVE  ValidEvent(e.value)
<1>1. newData(kind, bytes) \in {NewJSONData(bytes), NewTextData(bytes),
                                Returns({}, NewBinaryData(bytes)), Returns({}, NoData)}
  BY DEF newData
<1>2. /\ \A r \in Returns({}, NewBinaryData(bytes)) : DataResult(r)
      /\ \A r \in Returns({}, NoData) : DataResult(r)
  BY NewDataResult, ReturnsData
<1>3. DataResult(d)
  BY <1>1, <1>2, NewDataResult
<1> QED BY <1>3, NewEventValid DEF DataResult

\* A sequence of valid events stays one when a valid event joins it.
LEMMA AppendValid ==
  ASSUME NEW events, AllValid(events), NEW e, ValidEvent(e)
  PROVE  AllValid(Append(events, e))
<1> DEFINE S == {events[i] : i \in DOMAIN events}
<1>1. events \in Seq(S \cup {e})
  <2>1. events \in Seq(S) BY DEF AllValid, IsSequence
  <2> HIDE DEF S
  <2> QED BY <2>1
<1> HIDE DEF S
<1>2. IsSequence(Append(events, e))
  <2>1. Append(events, e) \in Seq(S \cup {e}) BY <1>1
  <2> QED BY <2>1, SequenceOfMembers
<1>3. ASSUME NEW i \in DOMAIN Append(events, e) PROVE ValidEvent(Append(events, e)[i])
  <2>1. \/ i \in DOMAIN events /\ Append(events, e)[i] = events[i]
        \/ Append(events, e)[i] = e
    BY <1>1
  <2> QED BY <2>1 DEF AllValid
<1> QED BY <1>2, <1>3 DEF AllValid

\* Whatever a relay adds to a message of some mode, it stays one.
LEMMA RelayedMessage ==
  ASSUME NEW m, NEW msg, HTTPMessage(m, msg)
  PROVE  /\ \A h : HTTPMessage(m, [msg EXCEPT !.header = h])
         /\ m = "structured" => \A name, raw, again :
              HTTPMessage(m, [msg EXCEPT !.body = withMember(@, name, raw, again)])
         /\ m = "batch" => \A name, raw, again :
              HTTPMessage(m, [msg EXCEPT !.body.docs[1] = withMember(@, name, raw, again)])
<1>1. ASSUME NEW h PROVE HTTPMessage(m, [msg EXCEPT !.header = h])
  <2>1. [msg EXCEPT !.header = h]
          = [contentType |-> msg.contentType, header |-> h, body |-> msg.body]
    BY DEF HTTPMessage
  <2> QED BY <2>1 DEF HTTPMessage
<1>2. ASSUME NEW name, NEW raw, NEW again, m = "structured"
      PROVE  HTTPMessage(m, [msg EXCEPT !.body = withMember(@, name, raw, again)])
  <2>1. [msg EXCEPT !.body = withMember(@, name, raw, again)]
          = [contentType |-> msg.contentType, header |-> msg.header,
             body |-> withMember(msg.body, name, raw, again)]
    BY DEF HTTPMessage
  <2>2. withMember(msg.body, name, raw, again).form = "doc"
    BY DEF withMember, Doc
  <2> QED BY <1>2, <2>1, <2>2 DEF HTTPMessage
<1>3. ASSUME NEW name, NEW raw, NEW again, m = "batch"
      PROVE  HTTPMessage(m, [msg EXCEPT !.body.docs[1] = withMember(@, name, raw, again)])
  <2> DEFINE docs == [msg.body.docs EXCEPT ![1] = withMember(@, name, raw, again)]
  <2>1. msg.body = [form |-> "batch", docs |-> msg.body.docs]
    BY <1>3 DEF HTTPMessage, Batch
  <2>2. [msg.body EXCEPT !.docs[1] = withMember(@, name, raw, again)] = Batch(docs)
    BY <2>1 DEF Batch
  <2>3. [msg EXCEPT !.body.docs[1] = withMember(@, name, raw, again)]
          = [contentType |-> msg.contentType, header |-> msg.header, body |-> Batch(docs)]
    BY <2>2 DEF HTTPMessage
  <2>4. docs = [i \in DOMAIN msg.body.docs |-> docs[i]]
    OBVIOUS
  <2> HIDE DEF docs
  <2>5. IsSequence(docs)
    BY <1>3, <2>4, SameIndices DEF HTTPMessage
  <2>6. Batch(docs).docs = docs
    BY DEF Batch
  <2> QED BY <1>3, <2>3, <2>5, <2>6 DEF HTTPMessage
<1> QED BY <1>1, <1>2, <1>3

LEMMA InitCrossing == Init => CrossingInvariant
<1> SUFFICES ASSUME Init PROVE CrossingInvariant
  OBVIOUS
<1>1. <<>> \in Seq({}) /\ DOMAIN <<>> = {}
  OBVIOUS
<1>2. IsSequence(<<>>)
  BY <1>1, SequenceOfMembers
<1> QED BY <1>1, <1>2 DEF Init, CrossingInvariant, AllValid, mode, Modes

\* Every step preserves it.
LEMMA NextCrossing == CrossingInvariant /\ [Next]_vars => CrossingInvariant'
<1> SUFFICES ASSUME CrossingInvariant, [Next]_vars PROVE CrossingInvariant'
  OBVIOUS
<1> USE DEF binding, mode
<1>1. ASSUME NEW a, NEW kind, NEW bytes, Produce(a, kind, bytes) PROVE CrossingInvariant'
  <2>1. PICK d \in newData(kind, bytes) :
          \E e \in (IF d.err # Nil THEN {d} ELSE NewEvent(a, d.value)) :
            held' = IF e.err # Nil THEN held ELSE Append(held, e.value)
    BY <1>1 DEF Produce
  <2>2. PICK e \in (IF d.err # Nil THEN {d} ELSE NewEvent(a, d.value)) :
          held' = IF e.err # Nil THEN held ELSE Append(held, e.value)
    BY <2>1
  <2>3. AllValid(held')
    <3>1. CASE e.err # Nil BY <2>2, <3>1 DEF CrossingInvariant
    <3>2. CASE e.err = Nil
      <4>1. ValidEvent(e.value) BY <3>2, ProducedIsValid
      <4> QED BY <2>2, <3>2, <4>1, AppendValid DEF CrossingInvariant
    <3> QED BY <3>1, <3>2
  <2>4. status = "building" /\ UNCHANGED <<status, route>>
    BY <1>1 DEF Produce
  <2> QED BY <2>3, <2>4 DEF CrossingInvariant
<1>2. ASSUME NEW b \in {"http", "kafka"}, NEW m \in Modes, NEW s \in BOOLEAN, Encode(b, m, s)
      PROVE  CrossingInvariant'
  <2>1. /\ AllValid(held) /\ held' = held
        /\ b = "kafka" => Len(held) = 1
        /\ route' = <<b, m, s>>
    BY <1>2 DEF Encode, CrossingInvariant
  <2>2. PICK r \in encode(b, m, s, held) :
          /\ err' = r.err
          /\ status' = IF r.err # Nil THEN "refused" ELSE "inflight"
          /\ message' = IF r.err # Nil THEN Nil ELSE r.value.message
    BY <1>2 DEF Encode
  <2>3. Encoded(b, m, held, r)
    BY <2>1, EncodeValid
  <2>4. binding' = b /\ mode' = m
    BY <2>1
  <2> QED BY <2>1, <2>2, <2>3, <2>4 DEF CrossingInvariant, Encoded
<1>3. ASSUME NEW spelling, NEW name, NEW value, RelayHeader(spelling, name, value)
      PROVE  CrossingInvariant'
  <2>1. UNCHANGED <<held, route, status, err>> /\ status = "inflight"
    BY <1>3 DEF RelayHeader
  <2>2. ASSUME binding = "http" PROVE HTTPMessage(mode, message')
    <3>1. HTTPMessage(mode, message)
      BY <2>1, <2>2 DEF CrossingInvariant
    <3>2. \E h : message' = [message EXCEPT !.header = h]
      BY <1>3, <2>2 DEF RelayHeader
    <3> QED BY <3>1, <3>2, RelayedMessage
  <2> QED BY <2>1, <2>2 DEF CrossingInvariant
<1>4. ASSUME NEW name, NEW raw, NEW again, RelayMember(name, raw, again)
      PROVE  CrossingInvariant'
  <2>1. UNCHANGED <<held, route, status, err>> /\ status = "inflight" /\ mode # "binary"
    BY <1>4 DEF RelayMember
  <2>2. ASSUME binding = "http" PROVE HTTPMessage(mode, message')
    <3>1. HTTPMessage(mode, message)
      BY <2>1, <2>2 DEF CrossingInvariant
    <3>2. CASE mode = "structured"
      BY <1>4, <2>2, <3>1, <3>2, RelayedMessage DEF RelayMember
    <3>3. CASE mode = "batch"
      <4>1. \/ message' = message
            \/ message' = [message EXCEPT !.body.docs[1] = withMember(@, name, raw, again)]
        BY <1>4, <2>2, <3>3 DEF RelayMember
      <4> QED BY <3>1, <3>3, <4>1, RelayedMessage
    <3> QED BY <2>1, <3>2, <3>3 DEF CrossingInvariant, Modes
  <2> QED BY <2>1, <2>2 DEF CrossingInvariant
<1>5. ASSUME Deliver PROVE CrossingInvariant'
  <2>1. PICK r \in decode(binding, message, limits) :
          /\ status' = IF r.err # Nil THEN "failed" ELSE "delivered"
          /\ held' = IF r.err # Nil THEN held ELSE r.value
    BY <1>5 DEF Deliver
  <2>2. binding = "http" => (message.body.form = "batch" => IsSequence(message.body.docs))
    BY <1>5 DEF Deliver, CrossingInvariant, HTTPMessage
  <2>3. EventsResult(r, message.body)
    BY <2>2, DecodeResult
  <2>4. AllValid(held')
    BY <2>1, <2>3 DEF EventsResult, AllValid, CrossingInvariant
  <2>5. UNCHANGED route
    BY <1>5 DEF Deliver
  <2> QED BY <2>1, <2>4, <2>5 DEF CrossingInvariant
<1>6. CASE UNCHANGED vars
  BY <1>6 DEF vars, CrossingInvariant
<1> QED BY <1>1, <1>2, <1>3, <1>4, <1>5, <1>6 DEF Next

\* The events an application holds pass Validate, whatever was built, encoded,
\* changed on the way and decoded, under any limits; so an encoder refuses them
\* only for what they would lose or for a mode it does not have, never as invalid
\* (event.go Validate at the head of every encoder).
THEOREM HeldEventsStayValid == Spec => []HeldEventsAreValid
<1>1. CrossingInvariant => HeldEventsAreValid
  BY DEF CrossingInvariant, AllValid, ValidEvent, HeldEventsAreValid
<1> QED BY <1>1, InitCrossing, NextCrossing, PTL DEF Spec

-----------------------------------------------------------------------------
(* What a relay does to a message of strings.                               *)

\* What a relay adds to a message of strings leaves one.
LEMMA RelayedHeaders ==
  ASSUME NEW header, HeaderOfStrings(header), ClosedStrings, NEW key,
         key[2] \in Strings \cup reservedAttributeNames, NEW value \in Strings,
         NEW old, old = IF key \in DOMAIN header THEN header[key] ELSE <<>>
  PROVE  HeaderOfStrings(Single(key, Append(old, Escape(value))) ++ header)
<1> DEFINE more == Append(old, Escape(value))
           now  == Single(key, more) ++ header
<1>1. old \in Seq(Strings)
  <2>1. CASE key \in DOMAIN header BY <2>1 DEF HeaderOfStrings
  <2>2. CASE key \notin DOMAIN header BY <2>2
  <2> QED BY <2>1, <2>2
<1>2. more \in Seq(Strings)
  <2>1. Escape(value) \in Strings BY DEF ClosedStrings
  <2> QED BY <1>1, <2>1
<1> HIDE DEF more
<1>3. /\ DOMAIN now = DOMAIN header \cup {key}
      /\ now[key] = more
      /\ \A k \in DOMAIN header : k # key => now[k] = header[k]
  BY DEF Single, ++
<1> HIDE DEF now
<1>4. ASSUME NEW k \in DOMAIN now
      PROVE  k[2] \in Strings \cup reservedAttributeNames /\ now[k] \in Seq(Strings)
  BY <1>2, <1>3 DEF HeaderOfStrings
<1>5. IsFiniteSet(DOMAIN now)
  BY <1>3, FS_AddElement DEF HeaderOfStrings
<1>6. HeaderOfStrings(now)
  BY <1>4, <1>5 DEF HeaderOfStrings
<1> QED BY <1>6 DEF now, more

LEMMA RelayedHTTPHeader ==
  ASSUME NEW m, NEW msg, HTTPOfStrings(m, msg), NEW header, HeaderOfStrings(header)
  PROVE  HTTPOfStrings(m, [msg EXCEPT !.header = header])
<1> DEFINE now == [msg EXCEPT !.header = header]
<1>1. now = [contentType |-> msg.contentType, header |-> header, body |-> msg.body]
  <2>1. msg = [contentType |-> msg.contentType, header |-> msg.header, body |-> msg.body]
    BY Zenon DEF HTTPOfStrings
  <2> QED BY <2>1
<1>2. now.contentType = msg.contentType /\ now.header = header /\ now.body = msg.body
  BY <1>1
<1>3. now = [contentType |-> now.contentType, header |-> now.header, body |-> now.body]
  BY <1>1
<1> HIDE DEF now
<1>4. HTTPOfStrings(m, now)
  BY <1>2, <1>3 DEF HTTPOfStrings
<1> QED BY <1>4 DEF now

\* A header of the event behind the others: the content type stays what it was.
LEMMA RelayedRecord ==
  ASSUME NEW m, NEW msg, KafkaOfStrings(m, msg),
         NEW name \in Strings \cup reservedAttributeNames, NEW value \in Strings
  PROVE  KafkaOfStrings(m, [msg EXCEPT !.headers = Append(@, Header("ce", name, value))])
<1> DEFINE h   == Header("ce", name, value)
           hs  == msg.headers
           S   == {hs[i] : i \in DOMAIN hs}
           new == Append(hs, h)
           now == [msg EXCEPT !.headers = Append(@, h)]
<1>1. h.owner = "ce" /\ h.name = name /\ h.value = value
  BY DEF Header
<1>2. HeadersOfStrings(hs) /\ IsSequence(hs)
  BY DEF KafkaOfStrings, HeadersOfStrings
<1>3. now = [key |-> msg.key, value |-> msg.value, headers |-> new]
  <2>1. msg = [key |-> msg.key, value |-> msg.value, headers |-> msg.headers]
    BY Zenon DEF KafkaOfStrings
  <2>2. now = [msg EXCEPT !.headers = new]
    BY Zenon
  <2> HIDE DEF now, new
  <2> QED BY <2>1, <2>2
<1> HIDE DEF h
<1>4. hs \in Seq(S)
  BY <1>2 DEF IsSequence
<1>5. DOMAIN hs = 1..Len(hs) /\ Len(hs) \in Nat
  <2> HIDE DEF S
  <2> QED BY <1>4
<1>6. /\ IsSequence(new)
      /\ DOMAIN new = 1..(Len(hs) + 1)
      /\ \A i \in 1..Len(hs) : new[i] = hs[i]
      /\ new[Len(hs) + 1] = h
  <2>1. hs \in Seq(S \cup {h}) BY <1>4
  <2> HIDE DEF S
  <2>2. new \in Seq(S \cup {h}) BY <2>1
  <2>3. IsSequence(new) BY <2>2, SequenceOfMembers
  <2> QED BY <2>1, <2>3
<1> HIDE DEF new, hs, S
<1>7. HeadersOfStrings(new)
  <2>1. ASSUME NEW i \in DOMAIN new
        PROVE  new[i].value \in Strings
               /\ (new[i].owner = "ce" => new[i].name \in Strings \cup reservedAttributeNames)
    <3>1. CASE i \in 1..Len(hs)
      BY <1>2, <1>5, <1>6, <3>1 DEF HeadersOfStrings
    <3>2. CASE i = Len(hs) + 1
      BY <1>1, <1>6, <3>2
    <3> QED BY <1>5, <1>6, <3>1, <3>2
  <2> QED BY <1>6, <2>1 DEF HeadersOfStrings
<1>8. ownedBy(new, "content-type") = ownedBy(hs, "content-type")
  <2>1. ASSUME NEW i PROVE i \in ownedBy(new, "content-type") <=> i \in ownedBy(hs, "content-type")
    <3>1. CASE i \in 1..Len(hs)
      BY <1>5, <1>6, <3>1 DEF ownedBy
    <3>2. CASE i \notin 1..Len(hs)
      BY <1>1, <1>5, <1>6, <3>2 DEF ownedBy
    <3> QED BY <3>1, <3>2
  <2> QED BY <2>1
<1>9. collected(new, ownedBy(new, "content-type")) = collected(hs, ownedBy(hs, "content-type"))
  <2>1. \A i \in ownedBy(hs, "content-type") : new[i].value = hs[i].value
    BY <1>5, <1>6 DEF ownedBy
  <2> QED BY <1>8, <2>1 DEF collected
<1>10. now.key = msg.key /\ now.value = msg.value /\ now.headers = new
  BY <1>3
<1>11. now = [key |-> now.key, value |-> now.value, headers |-> now.headers]
  BY <1>3
<1> HIDE DEF now
<1>12. ASSUME NEW ct, TypedRecord(msg, ct) PROVE TypedRecord(now, ct)
  BY <1>9, <1>10, <1>12 DEF TypedRecord, contentTypesOf, hs
<1>13. KafkaOfStrings(m, now)
  <2>1. m # "batch" BY DEF KafkaOfStrings
  <2>2. m = "structured" => TypedRecord(now, JSONMediaType) /\ DocOfStrings(now.value)
    BY <1>10, <1>12 DEF KafkaOfStrings
  <2>3. m = "binary" => \E ct \in Strings :
          TypedRecord(now, ct) /\ (now.value = Nil \/ (ct # "" /\ \E s \in Strings : now.value = Bytes(s)))
    BY <1>10, <1>12 DEF KafkaOfStrings
  <2> QED BY <1>7, <1>10, <1>11, <2>1, <2>2, <2>3 DEF KafkaOfStrings
<1> QED BY <1>13 DEF now, h

LEMMA RelayedDoc ==
  ASSUME NEW doc, DocOfStrings(doc), NEW name \in Strings \cup reservedAttributeNames,
         NEW raw \in Strings, ValidJSON(raw), NEW again
  PROVE  DocOfStrings(withMember(doc, name, raw, again))
<1> DEFINE members == Single(name, raw) ++ doc.members
           duplicate == doc.duplicate \/ (again /\ name \in DOMAIN doc.members)
           now == withMember(doc, name, raw, again)
<1>1. now = Doc(members, duplicate)
  BY DEF withMember
<1>2. /\ DOMAIN members = DOMAIN doc.members \cup {name}
      /\ members[name] = raw
      /\ \A n \in DOMAIN doc.members : n # name => members[n] = doc.members[n]
  BY DEF Single, ++
<1> HIDE DEF members, duplicate, now
<1>3. now.members = members /\ now.duplicate = duplicate
  BY <1>1 DEF Doc
<1>4. ASSUME NEW n \in DOMAIN members
      PROVE  n \in Strings \cup reservedAttributeNames /\ members[n] \in Strings /\ ValidJSON(members[n])
  BY <1>2 DEF DocOfStrings
<1>5. IsFiniteSet(DOMAIN members)
  BY <1>2, FS_AddElement DEF DocOfStrings
<1>6. DocOfStrings(now)
  BY <1>1, <1>3, <1>4, <1>5 DEF DocOfStrings
<1> QED BY <1>6 DEF now

\* A body of a message of strings, changed.
LEMMA RelayedBodies ==
  ASSUME NEW m, NEW msg, HTTPOfStrings(m, msg), NEW name \in Strings \cup reservedAttributeNames,
         NEW raw \in Strings, ValidJSON(raw), NEW again
  PROVE  /\ m = "structured" => HTTPOfStrings(m, [msg EXCEPT !.body = withMember(@, name, raw, again)])
         /\ m = "batch" /\ msg.body.docs # <<>> =>
              HTTPOfStrings(m, [msg EXCEPT !.body.docs[1] = withMember(@, name, raw, again)])
<1>1. msg = [contentType |-> msg.contentType, header |-> msg.header, body |-> msg.body]
  BY Zenon DEF HTTPOfStrings
<1>2. HeaderOfStrings(msg.header)
  BY Zenon DEF HTTPOfStrings
<1>3. ASSUME m = "structured"
      PROVE  HTTPOfStrings(m, [msg EXCEPT !.body = withMember(@, name, raw, again)])
  <2> DEFINE body == withMember(msg.body, name, raw, again)
             now  == [msg EXCEPT !.body = withMember(@, name, raw, again)]
  <2>1. msg.contentType = <<JSONMediaType>> /\ DocOfStrings(msg.body)
    BY <1>3 DEF HTTPOfStrings
  <2>2. DocOfStrings(body)
    BY <2>1, RelayedDoc
  <2>3. now = [msg EXCEPT !.body = body]
    BY Zenon
  <2> HIDE DEF body, now
  <2>4. now = [contentType |-> msg.contentType, header |-> msg.header, body |-> body]
    BY <1>1, <2>3
  <2>5. now.contentType = msg.contentType /\ now.header = msg.header /\ now.body = body
    BY <2>4
  <2>6. HTTPOfStrings(m, now)
    BY <1>2, <1>3, <2>1, <2>2, <2>4, <2>5 DEF HTTPOfStrings
  <2> QED BY <2>6 DEF now
<1>4. ASSUME m = "batch", msg.body.docs # <<>>
      PROVE  HTTPOfStrings(m, [msg EXCEPT !.body.docs[1] = withMember(@, name, raw, again)])
  <2> DEFINE old  == msg.body.docs
             doc  == withMember(old[1], name, raw, again)
             docs == [old EXCEPT ![1] = doc]
             now  == [msg EXCEPT !.body.docs[1] = withMember(@, name, raw, again)]
  <2>1. /\ msg.contentType = <<JSONBatchMediaType>> /\ msg.body = Batch(old)
        /\ IsSequence(old) /\ \A i \in DOMAIN old : DocOfStrings(old[i])
    BY <1>4, Zenon DEF HTTPOfStrings
  <2>2. 1 \in DOMAIN old
    <3> DEFINE S == {old[i] : i \in DOMAIN old}
    <3>1. old \in Seq(S) BY <2>1 DEF IsSequence
    <3> HIDE DEF S, old
    <3> QED BY <1>4, <3>1 DEF old
  <2>3. DocOfStrings(doc)
    <3>1. DocOfStrings(old[1]) BY <2>1, <2>2
    <3> HIDE DEF old
    <3> QED BY <3>1, RelayedDoc
  <2>4. now = [contentType |-> msg.contentType, header |-> msg.header, body |-> Batch(docs)]
    <3>1. [msg.body EXCEPT !.docs[1] = withMember(@, name, raw, again)] = Batch(docs)
      BY <2>1 DEF Batch
    <3> HIDE DEF docs
    <3> QED BY <1>1, <3>1
  <2>5. DOMAIN docs = DOMAIN old /\ docs = [i \in DOMAIN old |-> docs[i]]
    <3> HIDE DEF old, doc
    <3> QED OBVIOUS
  <2>6. docs[1] = doc /\ \A i \in DOMAIN old : i # 1 => docs[i] = old[i]
    <3> HIDE DEF old, doc
    <3> QED BY <2>2
  <2> HIDE DEF now, docs, doc, old
  <2>7. IsSequence(docs)
    BY <2>1, <2>5, SameIndices
  <2>8. \A i \in DOMAIN docs : DocOfStrings(docs[i])
    BY <2>1, <2>3, <2>5, <2>6
  <2>9. now.contentType = msg.contentType /\ now.header = msg.header /\ now.body = Batch(docs)
    BY <2>4
  <2>10. Batch(docs).docs = docs
    BY DEF Batch
  <2>11. HTTPOfStrings(m, now)
    BY <1>2, <1>4, <2>1, <2>4, <2>7, <2>8, <2>9, <2>10 DEF HTTPOfStrings
  <2> QED BY <2>11 DEF now
<1> QED BY <1>3, <1>4

\* A record's document, changed.
LEMMA RelayedValue ==
  ASSUME NEW m, NEW msg, KafkaOfStrings(m, msg), m # "binary", m \in Modes,
         NEW name \in Strings \cup reservedAttributeNames,
         NEW raw \in Strings, ValidJSON(raw), NEW again
  PROVE  KafkaOfStrings(m, [msg EXCEPT !.value = withMember(@, name, raw, again)])
<1> DEFINE value == withMember(msg.value, name, raw, again)
           now   == [msg EXCEPT !.value = withMember(@, name, raw, again)]
<1>1. msg = [key |-> msg.key, value |-> msg.value, headers |-> msg.headers]
  BY Zenon DEF KafkaOfStrings
<1>2. m = "structured"
  BY DEF KafkaOfStrings, Modes
<1>3. HeadersOfStrings(msg.headers) /\ TypedRecord(msg, JSONMediaType) /\ DocOfStrings(msg.value)
  BY <1>2 DEF KafkaOfStrings
<1>4. DocOfStrings(value)
  BY <1>3, RelayedDoc
<1>5. now = [msg EXCEPT !.value = value]
  BY Zenon
<1> HIDE DEF value, now
<1>6. now = [key |-> msg.key, value |-> value, headers |-> msg.headers]
  BY <1>1, <1>5
<1>7. now.key = msg.key /\ now.value = value /\ now.headers = msg.headers
  BY <1>6
<1>8. TypedRecord(now, JSONMediaType)
  BY <1>3, <1>7 DEF TypedRecord, contentTypesOf
<1>9. KafkaOfStrings(m, now)
  BY <1>2, <1>3, <1>4, <1>6, <1>7, <1>8 DEF KafkaOfStrings
<1> QED BY <1>9 DEF now

-----------------------------------------------------------------------------
\* An input of a workload.
InputOfStrings(a, bytes) == AttributesOfStrings(a) /\ bytes \in Strings

LEMMA ProducedIsWhole ==
  ASSUME NEW a, NEW bytes, InputOfStrings(a, bytes), ClosedStrings, NEW kind, NEW d \in newData(kind, bytes),
         NEW e \in (IF d.err # Nil THEN {d} ELSE NewEvent(a, d.value)), e.err = Nil
  PROVE  EventOfStrings(e.value)
<1>1. newData(kind, bytes) \in {NewJSONData(bytes), NewTextData(bytes),
                                Returns({}, NewBinaryData(bytes)), Returns({}, NoData)}
  BY DEF newData
<1>2. CASE d.err # Nil
  BY <1>2
<1>3. CASE d.err = Nil
  <2>1. bytes \in Strings BY DEF InputOfStrings
  <2>2. ASSUME NEW k \in {"json", "text", "binary"}, d.value = [kind |-> k, bytes |-> bytes]
        PROVE  DataOfStrings(d.value)
    <3>1. d.value.kind = k /\ d.value.bytes = bytes /\ k # "absent"
      BY <2>2
    <3>2. d.value = [kind |-> d.value.kind, bytes |-> d.value.bytes]
      BY <2>2
    <3> QED BY <2>1, <3>1, <3>2 DEF DataOfStrings
  <2>3. DataOfStrings(d.value)
    <3>1. CASE newData(kind, bytes) = NewJSONData(bytes) BY <1>3, <2>2, <3>1, NewData
    <3>2. CASE newData(kind, bytes) = NewTextData(bytes) BY <1>3, <2>2, <3>2, NewData
    <3>3. CASE newData(kind, bytes) = Returns({}, NewBinaryData(bytes)) BY <2>2, <3>3, NewData
    <3>4. CASE newData(kind, bytes) = Returns({}, NoData) BY <3>4, AbsentData
    <3> QED BY <1>1, <3>1, <3>2, <3>3, <3>4
  <2>4. e \in NewEvent(a, d.value) BY <1>3
  <2>5. e.value = withData(a, d.value) BY <2>4, NewEventResult
  <2> QED BY <2>3, <2>5, MadeOfStrings DEF InputOfStrings
<1> QED BY <1>2, <1>3

-----------------------------------------------------------------------------
(* StrictIsExact, ReportIsExact and SecondCrossingIsStrict.                 *)

\* The inductive invariant of the crossing, where the strings are closed.  What is
\* held and what was sent is whole: valid, canonical and made of strings.  A message
\* in flight is made of strings, and is what the encoder wrote until a relay
\* touches it; the report is the loss of what was sent.  What arrived crossed as
\* its losses say, or was changed by a relay; either way its route loses nothing
\* of it any more.
WholeInvariant ==
  /\ workload \in DOMAIN Workloads
  /\ binding \in {"http", "kafka"} /\ mode \in Modes /\ strict \in BOOLEAN
  /\ AllWhole(held) /\ AllWhole(sent)
  /\ status = "inflight" =>
       /\ MessageOfStrings(binding, mode, message)
       /\ ~relayed => Carries(binding, mode, sent, message)
  /\ status \in {"inflight", "delivered", "failed"} =>
       report = losses(mode, sent) /\ (strict => report = {})
  /\ status = "delivered" =>
       /\ LET read == readMode(binding, message) IN
          losses(read, held) = {} /\ Supported(binding, read, held)
       /\ ~relayed => Crossed(binding, mode, sent, held, Nil)
  /\ status = "failed" =>
       err # Nil /\ (~relayed => Crossed(binding, mode, sent, held, err))

LEMMA AppendWhole ==
  ASSUME NEW events, AllWhole(events), NEW e, WholeEvent(e)
  PROVE  AllWhole(Append(events, e))
<1> DEFINE S == {events[i] : i \in DOMAIN events}
           new == Append(events, e)
<1>1. events \in Seq(S \cup {e})
  <2>1. events \in Seq(S) BY DEF AllWhole, IsSequence
  <2> HIDE DEF S
  <2> QED BY <2>1
<1> HIDE DEF S
<1>2. IsSequence(new)
  <2>1. new \in Seq(S \cup {e}) BY <1>1
  <2> QED BY <2>1, SequenceOfMembers
<1>3. ASSUME NEW i \in DOMAIN new PROVE WholeEvent(new[i])
  <2>1. \/ i \in DOMAIN events /\ new[i] = events[i]
        \/ new[i] = e
    BY <1>1
  <2> QED BY <2>1 DEF AllWhole
<1> QED BY <1>2, <1>3 DEF AllWhole

LEMMA WholeIsValid ==
  ASSUME NEW events, AllWhole(events)
  PROVE  AllValid(events)
  BY DEF AllWhole, AllValid, WholeEvent

LEMMA NothingIsWhole == AllWhole(<<>>)
<1>1. <<>> \in Seq({}) /\ DOMAIN <<>> = {}
  OBVIOUS
<1>2. IsSequence(<<>>)
  BY <1>1, SequenceOfMembers
<1> QED BY <1>1, <1>2 DEF AllWhole

\* An error is the crossing's, whatever is held beside it.
LEMMA CrossedWithError ==
  ASSUME NEW b, NEW m, NEW events, NEW got, NEW other, NEW error, error # Nil,
         Crossed(b, m, events, got, error)
  PROVE  Crossed(b, m, events, other, error)
  BY DEF Crossed

LEMMA InitWhole == Init => WholeInvariant
<1> SUFFICES ASSUME Init PROVE WholeInvariant
  OBVIOUS
<1>1. /\ workload \in DOMAIN Workloads /\ held = <<>> /\ sent = <<>> /\ status = "building"
      /\ binding = "http" /\ mode = "binary" /\ strict = FALSE
  BY DEF Init, binding, mode, strict
<1>2. mode \in Modes
  BY <1>1 DEF Modes
<1> QED BY <1>1, <1>2, NothingIsWhole DEF WholeInvariant

LEMMA ProduceWhole ==
  ASSUME ClosedStrings, WholeInvariant, CrossingInvariant,
         NEW i \in work.inputs, Produce(i.attributes, i.kind, i.bytes)
  PROVE  WholeInvariant'
<1>1. InputOfStrings(i.attributes, i.bytes)
  <2>1. workload \in DOMAIN Workloads /\ i \in Workloads[workload].inputs
    BY DEF WholeInvariant, work
  <2> DEFINE a == i.attributes
             ext == a.extensions
  <2>2. /\ {a.id, a.source, a.type, a.dataContentType, a.dataSchema, a.subject, a.time,
            i.bytes} \subseteq Strings
        /\ a.time # "" => ValidUTF8(a.time) /\ ParseTime(a.time) \in {Nil, a.time}
        /\ ext = [n \in DOMAIN ext |-> Attribute(ext[n].kind, ext[n].text)]
        /\ \A n \in DOMAIN ext : n \in Strings /\ ext[n].text \in Strings
        /\ IsFiniteSet(DOMAIN ext)
    BY <2>1, TextAssumption
  <2> QED BY <2>2 DEF InputOfStrings, AttributesOfStrings
<1>2. PICK d \in newData(i.kind, i.bytes) :
        \E e \in (IF d.err # Nil THEN {d} ELSE NewEvent(i.attributes, d.value)) :
          held' = IF e.err # Nil THEN held ELSE Append(held, e.value)
  BY DEF Produce
<1>3. PICK e \in (IF d.err # Nil THEN {d} ELSE NewEvent(i.attributes, d.value)) :
        held' = IF e.err # Nil THEN held ELSE Append(held, e.value)
  BY <1>2
<1>4. AllWhole(held')
  <2>1. AllWhole(held) BY DEF WholeInvariant
  <2>2. CASE e.err # Nil BY <1>3, <2>1, <2>2
  <2>3. CASE e.err = Nil
    <3>1. ValidEvent(e.value) BY <2>3, ProducedIsValid
    <3>2. EventOfStrings(e.value) BY <1>1, <2>3, ProducedIsWhole
    <3> QED BY <1>3, <2>1, <2>3, <3>1, <3>2, AppendWhole DEF WholeEvent
  <2> QED BY <2>2, <2>3
<1>5. status = "building" /\ UNCHANGED <<workload, sent, route, status>>
  BY DEF Produce
<1>6. UNCHANGED <<binding, mode, strict>>
  BY <1>5 DEF binding, mode, strict
<1> QED BY <1>4, <1>5, <1>6 DEF WholeInvariant

LEMMA EncodeWhole ==
  ASSUME ClosedStrings, WholeInvariant,
         NEW b \in {"http", "kafka"}, NEW m \in Modes, NEW s \in BOOLEAN, Encode(b, m, s)
  PROVE  WholeInvariant'
<1>1. AllWhole(held) /\ AllValid(held) /\ workload \in DOMAIN Workloads
  BY WholeIsValid DEF WholeInvariant
<1>2. /\ held' = held /\ sent' = held /\ workload' = workload /\ relayed' = FALSE
      /\ route' = <<b, m, s>>
      /\ b = "kafka" => Len(held) = 1
  BY DEF Encode
<1>3. binding' = b /\ mode' = m /\ strict' = s
  BY <1>2 DEF binding, mode, strict
<1>4. PICK r \in encode(b, m, s, held) :
        /\ err' = r.err
        /\ status' = IF r.err # Nil THEN "refused" ELSE "inflight"
        /\ message' = IF r.err # Nil THEN Nil ELSE r.value.message
        /\ report' = IF r.err # Nil THEN {} ELSE indexedReport(b, r.value.report)
  BY DEF Encode
<1>5. r.err = Nil => /\ Carries(b, m, held, r.value.message)
                     /\ indexedReport(b, r.value.report) = losses(m, held)
                     /\ s => losses(m, held) = {}
  BY <1>1, <1>2, EncodeReports
<1>6. CASE r.err # Nil
  <2>1. status' = "refused" BY <1>4, <1>6
  <2> QED BY <1>1, <1>2, <1>3, <2>1 DEF WholeInvariant
<1>7. CASE r.err = Nil
  <2>1. status' = "inflight" /\ message' = r.value.message /\ report' = losses(m, held)
    BY <1>4, <1>5, <1>7
  <2>2. Carries(b, m, held, message') /\ (s => report' = {})
    BY <1>5, <1>7, <2>1
  <2>3. MessageOfStrings(b, m, message')
    BY <1>1, <2>2, CarriedStrings
  <2> QED BY <1>1, <1>2, <1>3, <2>1, <2>2, <2>3 DEF WholeInvariant
<1> QED BY <1>6, <1>7

LEMMA RelayHeaderWhole ==
  ASSUME ClosedStrings, WholeInvariant, NEW h \in work.headers, RelayHeader(h[1], h[2], h[3])
  PROVE  WholeInvariant'
<1>1. h[2] \in Strings \cup reservedAttributeNames /\ h[3] \in Strings
  BY TextAssumption DEF WholeInvariant, work
<1>2. /\ UNCHANGED <<workload, held, sent, route, report, status, err>>
      /\ status = "inflight" /\ relayed' = TRUE
  BY DEF RelayHeader
<1>3. UNCHANGED <<binding, mode, strict>>
  BY <1>2 DEF binding, mode, strict
<1>4. MessageOfStrings(binding, mode, message) /\ binding \in {"http", "kafka"}
  BY <1>2 DEF WholeInvariant
<1>5. MessageOfStrings(binding, mode, message')
  <2>1. CASE binding = "kafka"
    <3>1. KafkaOfStrings(mode, message)
      BY <1>4, <2>1 DEF MessageOfStrings
    <3>2. message' = [message EXCEPT !.headers = Append(@, Header("ce", h[2], h[3]))]
      BY <2>1, Zenon DEF RelayHeader
    <3>3. KafkaOfStrings(mode, message')
      BY <1>1, <3>1, <3>2, RelayedRecord
    <3> QED BY <2>1, <3>3 DEF MessageOfStrings
  <2>2. CASE binding = "http"
    <3> DEFINE key == <<h[1], h[2]>>
               old == IF key \in DOMAIN message.header THEN message.header[key] ELSE <<>>
               header == Single(key, Append(old, Escape(h[3]))) ++ message.header
    <3>1. HTTPOfStrings(mode, message)
      BY <1>4, <2>2 DEF MessageOfStrings
    <3>2. binding # "kafka"
      BY <2>2
    <3>3. message' = [message EXCEPT !.header = header]
      BY <3>2, Zenon DEF RelayHeader
    <3>4. key[2] \in Strings \cup reservedAttributeNames
      BY <1>1
    <3>5. HeaderOfStrings(message.header)
      BY <3>1, Zenon DEF HTTPOfStrings
    <3>6. HeaderOfStrings(header)
      <4> HIDE DEF key
      <4> QED BY <1>1, <3>4, <3>5, RelayedHeaders
    <3> HIDE DEF header
    <3>7. HTTPOfStrings(mode, message')
      BY <3>1, <3>3, <3>6, RelayedHTTPHeader
    <3> QED BY <2>2, <3>7 DEF MessageOfStrings
  <2> QED BY <1>4, <2>1, <2>2
<1> QED BY <1>2, <1>3, <1>5 DEF WholeInvariant

LEMMA RelayMemberWhole ==
  ASSUME ClosedStrings, WholeInvariant, NEW x \in work.members, NEW again \in BOOLEAN,
         RelayMember(x[1], x[2], again)
  PROVE  WholeInvariant'
<1>1. x[1] \in Strings \cup reservedAttributeNames /\ x[2] \in Strings /\ ValidJSON(x[2])
  BY TextAssumption DEF WholeInvariant, work
<1>2. /\ UNCHANGED <<workload, held, sent, route, report, status, err>>
      /\ status = "inflight" /\ relayed' = TRUE /\ mode # "binary"
  BY DEF RelayMember
<1>3. UNCHANGED <<binding, mode, strict>>
  BY <1>2 DEF binding, mode, strict
<1>4. MessageOfStrings(binding, mode, message) /\ binding \in {"http", "kafka"} /\ mode \in Modes
  BY <1>2 DEF WholeInvariant
<1>5. MessageOfStrings(binding, mode, message')
  <2>1. CASE binding = "kafka"
    <3>1. KafkaOfStrings(mode, message)
      BY <1>4, <2>1 DEF MessageOfStrings
    <3>2. message' = [message EXCEPT !.value = withMember(@, x[1], x[2], again)]
      BY <2>1, Zenon DEF RelayMember
    <3>3. KafkaOfStrings(mode, message')
      BY <1>1, <1>2, <1>4, <3>1, <3>2, RelayedValue
    <3> QED BY <2>1, <3>3 DEF MessageOfStrings
  <2>2. CASE binding = "http"
    <3>1. HTTPOfStrings(mode, message)
      BY <1>4, <2>2 DEF MessageOfStrings
    <3>2. binding # "kafka"
      BY <2>2
    <3>3. CASE mode = "structured"
      <4>1. message' = [message EXCEPT !.body = withMember(@, x[1], x[2], again)]
        BY <3>2, <3>3, Zenon DEF RelayMember
      <4>2. HTTPOfStrings(mode, message')
        BY <1>1, <3>1, <3>3, <4>1, RelayedBodies
      <4> QED BY <2>2, <4>2 DEF MessageOfStrings
    <3>4. CASE mode = "batch"
      <4>1. mode # "structured" BY <3>4
      <4>2. CASE message.body.docs = <<>>
        <5>1. message' = message
          BY <3>2, <4>1, <4>2, Zenon DEF RelayMember
        <5> QED BY <1>4, <5>1
      <4>3. CASE message.body.docs # <<>>
        <5>1. message' = [message EXCEPT !.body.docs[1] = withMember(@, x[1], x[2], again)]
          BY <3>2, <4>1, <4>3, Zenon DEF RelayMember
        <5>2. HTTPOfStrings(mode, message')
          BY <1>1, <3>1, <3>4, <4>3, <5>1, RelayedBodies
        <5> QED BY <2>2, <5>2 DEF MessageOfStrings
      <4> QED BY <4>2, <4>3
    <3> QED BY <1>2, <1>4, <3>3, <3>4 DEF Modes
  <2> QED BY <1>4, <2>1, <2>2
<1> QED BY <1>2, <1>3, <1>5 DEF WholeInvariant

LEMMA DeliverWhole ==
  ASSUME ClosedStrings, WholeInvariant, Deliver
  PROVE  WholeInvariant'
<1>1. /\ UNCHANGED <<workload, sent, route, message, report, relayed>> /\ status = "inflight"
  BY DEF Deliver
<1>2. UNCHANGED <<binding, mode, strict>>
  BY <1>1 DEF binding, mode, strict
<1>3. PICK r \in decode(binding, message, limits) :
        /\ err' = r.err
        /\ status' = IF r.err # Nil THEN "failed" ELSE "delivered"
        /\ held' = IF r.err # Nil THEN held ELSE r.value
  BY DEF Deliver
<1>4. /\ binding \in {"http", "kafka"} /\ mode \in Modes
      /\ MessageOfStrings(binding, mode, message) /\ AllWhole(sent) /\ AllWhole(held)
      /\ ~relayed => Carries(binding, mode, sent, message)
      /\ report = losses(mode, sent) /\ (strict => report = {})
  BY <1>1 DEF WholeInvariant
<1>5. ~relayed => Crossed(binding, mode, sent, r.value, r.err)
  BY <1>4, CarriedOver
<1>6. CASE r.err # Nil
  <2>1. status' = "failed" /\ held' = held /\ err' # Nil BY <1>3, <1>6
  <2>2. ~relayed => Crossed(binding, mode, sent, held', err')
    BY <1>3, <1>5, <1>6, CrossedWithError
  <2> QED BY <1>1, <1>2, <1>4, <2>1, <2>2 DEF WholeInvariant
<1>7. CASE r.err = Nil
  <2>1. status' = "delivered" /\ held' = r.value BY <1>3, <1>7
  <2>2. AllWhole(held') /\ losses(readMode(binding, message), held') = {}
        /\ Supported(binding, readMode(binding, message), held')
    BY <1>4, <1>7, <2>1, DecodedWhole
  <2>3. ~relayed => Crossed(binding, mode, sent, held', Nil)
    BY <1>5, <1>7, <2>1
  <2> QED BY <1>1, <1>2, <1>4, <2>1, <2>2, <2>3 DEF WholeInvariant
<1> QED BY <1>6, <1>7

LEMMA NextWhole ==
  ASSUME ClosedStrings, WholeInvariant, CrossingInvariant, [Next]_vars
  PROVE  WholeInvariant'
<1>1. ASSUME NEW i \in work.inputs, Produce(i.attributes, i.kind, i.bytes) PROVE WholeInvariant'
  BY <1>1, ProduceWhole
<1>2. ASSUME NEW b \in {"http", "kafka"}, NEW m \in Modes, NEW s \in BOOLEAN, Encode(b, m, s)
      PROVE  WholeInvariant'
  BY <1>2, EncodeWhole
<1>3. ASSUME NEW h \in work.headers, RelayHeader(h[1], h[2], h[3]) PROVE WholeInvariant'
  BY <1>3, RelayHeaderWhole
<1>4. ASSUME NEW x \in work.members, NEW again \in BOOLEAN, RelayMember(x[1], x[2], again)
      PROVE  WholeInvariant'
  BY <1>4, RelayMemberWhole
<1>5. CASE Deliver
  BY <1>5, DeliverWhole
<1>6. CASE UNCHANGED vars
  <2>1. UNCHANGED <<workload, held, sent, route, message, report, relayed, status, err>>
    BY <1>6 DEF vars
  <2>2. UNCHANGED <<binding, mode, strict>>
    BY <2>1 DEF binding, mode, strict
  <2> QED BY <2>1, <2>2 DEF WholeInvariant
<1> QED BY <1>1, <1>2, <1>3, <1>4, <1>5, <1>6 DEF Next

LEMMA SameLength ==
  ASSUME NEW p \in Nat, NEW q \in Nat, 1..p = 1..q
  PROVE  p = q
<1>1. ASSUME p < q PROVE FALSE
  <2>1. q \in 1..q /\ q \notin 1..p BY <1>1
  <2> QED BY <2>1
<1>2. ASSUME q < p PROVE FALSE
  <2>1. p \in 1..p /\ p \notin 1..q BY <1>2
  <2> QED BY <2>1
<1> QED BY <1>1, <1>2

\* The changes between events and what arrived.
changesOf(events, got) ==
  UNION {{<<i, field>> : field \in changed(events[i], got[i])} : i \in DOMAIN events}

\* What the invariant says of an event that crossed.
LEMMA CrossedExactly ==
  ASSUME NEW b, NEW m, NEW events, AllWhole(events), NEW got, AllWhole(got),
         Crossed(b, m, events, got, Nil)
  PROVE  /\ Len(got) = Len(events)
         /\ (\A i \in DOMAIN events : ~Unreported(events[i], b, m)) =>
              losses(m, events) = changesOf(events, got)
         /\ losses(m, events) = {} =>
              (got = events <=> \A i \in DOMAIN events : ~Unreported(events[i], b, m))
<1>1. /\ got = [i \in DOMAIN events |-> got[i]]
      /\ \A i \in DOMAIN events :
           Arrives(events[i], Unreported(events[i], b, m), reported(m, events[i]), got[i])
  BY DEF Crossed
<1>2. PICK S, T : events \in Seq(S) /\ got \in Seq(T)
  BY DEF AllWhole, IsSequence
<1>3. /\ DOMAIN events = 1..Len(events) /\ Len(events) \in Nat
      /\ DOMAIN got = 1..Len(got) /\ Len(got) \in Nat
  BY <1>2
<1>4. DOMAIN got = DOMAIN events
  BY <1>1
<1>5. Len(got) = Len(events)
  BY <1>3, <1>4, SameLength
<1>6. ASSUME \A i \in DOMAIN events : ~Unreported(events[i], b, m)
      PROVE  losses(m, events) = changesOf(events, got)
  <2>1. \A i \in DOMAIN events : changed(events[i], got[i]) = reported(m, events[i])
    BY <1>1, <1>6 DEF Arrives
  <2> QED BY <2>1 DEF losses, changesOf
<1>7. ASSUME losses(m, events) = {}
      PROVE  got = events <=> \A i \in DOMAIN events : ~Unreported(events[i], b, m)
  <2>1. ASSUME NEW i \in DOMAIN events PROVE reported(m, events[i]) = {}
    <3>1. {<<i, field>> : field \in reported(m, events[i])} = {}
      BY <1>7 DEF losses
    <3> QED BY <3>1
  <2>2. ASSUME NEW i \in DOMAIN events PROVE got[i] = events[i] <=> ~Unreported(events[i], b, m)
    BY <1>1, <2>1, <2>2 DEF Arrives
  <2>3. events = [i \in DOMAIN events |-> events[i]]
    BY <1>2
  <2>4. got = events <=> \A i \in DOMAIN events : got[i] = events[i]
    BY <1>1, <2>3
  <2> QED BY <2>2, <2>4
<1> QED BY <1>5, <1>6, <1>7

LEMMA TurnedAwayBy ==
  ASSUME NEW b, NEW m, NEW events, NEW got, NEW error, error # Nil,
         Crossed(b, m, events, got, error), error # ErrLimitExceeded,
         \A i \in DOMAIN events : ~Unreported(events[i], b, m)
  PROVE  \E i \in DOMAIN events : <<i, Core("data")>> \in losses(m, events)
<1>1. PICK i \in DOMAIN events : Core("data") \in reported(m, events[i])
  BY DEF Crossed, TurnedAway
<1> QED BY <1>1 DEF losses

LEMMA EncodesAgain ==
  ASSUME NEW b \in {"http", "kafka"}, NEW m, NEW events, AllValid(events), Supported(b, m, events),
         losses(m, events) = {}, NEW s \in BOOLEAN, NEW r \in encode(b, m, s, events)
  PROVE  r.err = Nil
<1>1. b = "kafka" => Len(events) = 1
  BY DEF Supported
<1> QED BY <1>1, EncodeReports

LEMMA WholeIsExact == WholeInvariant => StrictIsExact
<1> SUFFICES ASSUME WholeInvariant, strict, ~relayed PROVE
      /\ status = "delivered" => (held = sent <=> Clean)
      /\ status = "failed" => err = ErrLimitExceeded \/ ~Clean
  BY DEF StrictIsExact
<1>1. AllWhole(held) /\ AllWhole(sent)
  BY DEF WholeInvariant
<1>2. ASSUME status = "delivered" PROVE held = sent <=> Clean
  <2>1. losses(mode, sent) = {} /\ Crossed(binding, mode, sent, held, Nil)
    BY <1>2 DEF WholeInvariant
  <2>2. held = sent <=> \A i \in DOMAIN sent : ~Unreported(sent[i], binding, mode)
    BY <1>1, <2>1, CrossedExactly
  <2> QED BY <2>2 DEF Clean
<1>3. ASSUME status = "failed" PROVE err = ErrLimitExceeded \/ ~Clean
  <2>1. losses(mode, sent) = {} /\ Crossed(binding, mode, sent, held, err) /\ err # Nil
    BY <1>3 DEF WholeInvariant
  <2> QED BY <2>1, TurnedAwayBy DEF Clean
<1> QED BY <1>2, <1>3

LEMMA WholeIsReported == WholeInvariant => ReportIsExact
<1> SUFFICES ASSUME WholeInvariant, Clean PROVE
      /\ status = "delivered" => Len(held) = Len(sent) /\ changes = report
      /\ status = "failed" =>
           \/ err = ErrLimitExceeded
           \/ \E i \in DOMAIN sent : <<i, Core("data")>> \in report
  BY DEF ReportIsExact
<1>1. /\ AllWhole(held) /\ AllWhole(sent) /\ ~relayed
      /\ \A i \in DOMAIN sent : ~Unreported(sent[i], binding, mode)
  BY DEF WholeInvariant, Clean
<1>2. ASSUME status = "delivered" PROVE Len(held) = Len(sent) /\ changes = report
  <2>1. report = losses(mode, sent) /\ Crossed(binding, mode, sent, held, Nil)
    BY <1>1, <1>2 DEF WholeInvariant
  <2>2. Len(held) = Len(sent) /\ losses(mode, sent) = changesOf(sent, held)
    BY <1>1, <2>1, CrossedExactly
  <2> QED BY <2>1, <2>2 DEF changes, changesOf
<1>3. ASSUME status = "failed"
      PROVE  err = ErrLimitExceeded \/ \E i \in DOMAIN sent : <<i, Core("data")>> \in report
  <2>1. report = losses(mode, sent) /\ Crossed(binding, mode, sent, held, err) /\ err # Nil
    BY <1>1, <1>3 DEF WholeInvariant
  <2> QED BY <1>1, <2>1, TurnedAwayBy
<1> QED BY <1>2, <1>3

LEMMA WholeCrossesAgain == WholeInvariant => SecondCrossingIsStrict
<1> SUFFICES ASSUME WholeInvariant, status = "delivered",
                    NEW r \in encode(binding, readMode(binding, message), TRUE, held)
             PROVE  r.err = Nil
  BY DEF SecondCrossingIsStrict
<1>1. /\ binding \in {"http", "kafka"} /\ AllValid(held)
      /\ losses(readMode(binding, message), held) = {}
      /\ Supported(binding, readMode(binding, message), held)
  BY WholeIsValid DEF WholeInvariant
<1> QED BY <1>1, EncodesAgain

-----------------------------------------------------------------------------
\* The invariants together.
LEMMA CrossingIsWhole == ASSUME ClosedStrings PROVE Spec => [](WholeInvariant /\ CrossingInvariant)
<1>1. Init => WholeInvariant /\ CrossingInvariant
  BY InitWhole, InitCrossing
<1>2. WholeInvariant /\ CrossingInvariant /\ [Next]_vars => WholeInvariant' /\ CrossingInvariant'
  BY NextWhole, NextCrossing
<1> QED BY <1>1, <1>2, PTL DEF Spec

\* A strict encoding crosses exactly: what it accepts arrives as it was sent, or
\* is of a class Unreported names, or exceeds the receiver's limits (EncodeHTTP,
\* EncodeKafka, DecodeHTTP, DecodeKafka), for any events, limits and strings.
THEOREM StrictCrossesExactly == ASSUME ClosedStrings PROVE Spec => []StrictIsExact
  BY CrossingIsWhole, WholeIsExact, PTL

\* What a report names is what the crossing changes, no more and no less
\* (EncodeHTTPWithReport, EncodeKafkaWithReport against the decoders).
THEOREM ReportsAreExact == ASSUME ClosedStrings PROVE Spec => []ReportIsExact
  BY CrossingIsWhole, WholeIsReported, PTL

\* What was delivered, relayed or not, the strict encoder of its binding accepts in
\* the mode the decoder read it in: the mode it was sent in, or structured for the
\* event that binary data declared to be an event is (detectHTTPMode, detectKafkaMode).
THEOREM NothingLeftToLose == ASSUME ClosedStrings PROVE Spec => []SecondCrossingIsStrict
  BY CrossingIsWhole, WholeCrossesAgain, PTL

-----------------------------------------------------------------------------
(* MetadataAgrees.                                                          *)

\* A context header n with the value v says what the event f says.
Says(m, f, n, v) ==
  LET expected == expectedMetadata(f) IN
  \/ m = "binary" /\ n \in {"data", "data_base64"}
  \/ m = "binary" /\ v = "" /\ n \in reservedAttributeNames
  \/ m = "binary" /\ n = "time" /\ ParseTime(v) = expected["time"]
  \/ n \in DOMAIN expected /\ expected[n] = v

\* What a header is compared with.
LEMMA ExpectedRead ==
  ASSUME NEW e
  PROVE  LET x == expectedMetadata(e)
             c == coreAttributes(e)
         IN  /\ \A n \in DOMAIN c : n \in DOMAIN x /\ x[n] = c[n]
             /\ \A n \in DOMAIN e.extensions \ reservedAttributeNames :
                  n \in DOMAIN x /\ x[n] = e.extensions[n].text
<1> DEFINE c == coreAttributes(e)
           t == [n \in DOMAIN e.extensions |-> e.extensions[n].text]
           d == Optional("datacontenttype", e.dataContentType)
           x == expectedMetadata(e)
<1>1. x = (c ++ t) ++ d
  BY DEF expectedMetadata, contextAttributes
<1>2. DOMAIN c \subseteq reservedAttributeNames
  <2>1. DOMAIN c = {"specversion", "id", "source", "type"}
                   \cup (IF e.dataSchema # "" THEN {"dataschema"} ELSE {})
                   \cup (IF e.subject # "" THEN {"subject"} ELSE {})
                   \cup (IF e.time # "" THEN {"time"} ELSE {})
    BY CoreAttributesWritten
  <2> HIDE DEF c
  <2> QED BY <2>1 DEF reservedAttributeNames
<1> HIDE DEF c, d
<1>3. \A n \in DOMAIN c : n \in DOMAIN x /\ x[n] = c[n]
  BY <1>1 DEF ++
<1>4. \A n \in DOMAIN e.extensions \ reservedAttributeNames :
        n \in DOMAIN x /\ x[n] = e.extensions[n].text
  BY <1>1, <1>2 DEF ++
<1> QED BY <1>3, <1>4 DEF c

\* Every string a binary message gives is what its event says.
LEMMA BinarySays ==
  ASSUME NEW c, ContextOfStrings(c), NEW ct, contextFailures(c) = {},
         "datacontenttype" \notin DOMAIN c, NEW data, NEW f, f = withData(AttributesFrom(c, ct), data)
  PROVE  \A n \in DOMAIN c : Says("binary", f, n, c[n])
<1> DEFINE get(n) == IF n \in DOMAIN c THEN c[n] ELSE ""
           E == DOMAIN c \ reservedAttributeNames
           ext == [n \in E |-> Attribute("string", c[n])]
           time == IF "time" \in DOMAIN c THEN ParseTime(c["time"]) ELSE ""
           x == expectedMetadata(f)
           core == coreAttributes(f)
<1>1. AttributesFrom(c, ct)
        = Attributes(get("id"), get("source"), get("type"), ct, get("dataschema"), get("subject"), time, ext)
  BY DEF AttributesFrom
<1>2. \A n \in E : ext[n].text = c[n]
  BY DEF Attribute
<1>3. \A n \in DOMAIN c : get(n) = c[n]
  OBVIOUS
<1>4. DOMAIN ext = E
  OBVIOUS
<1>5. /\ When(~("specversion" \in DOMAIN c /\ c["specversion"] = specVersion), ErrInvalidEvent) = {}
      /\ When("time" \in DOMAIN c /\ ParseTime(c["time"]) = Nil, ErrInvalidEvent) = {}
  BY DEF contextFailures, ??
<1>6. c["specversion"] = "1.0"
  BY <1>5 DEF When, specVersion
<1>7. "time" \in DOMAIN c => time = ParseTime(c["time"]) /\ time # ""
  BY TimeAssumption DEF ContextOfStrings
<1> HIDE DEF get, ext, time
<1>8. /\ f.id = get("id") /\ f.source = get("source") /\ f.type = get("type")
      /\ f.dataSchema = get("dataschema") /\ f.subject = get("subject") /\ f.time = time
      /\ f.extensions = ext
  BY <1>1 DEF withData, Attributes
<1>9. /\ DOMAIN core = {"specversion", "id", "source", "type"}
                       \cup (IF f.dataSchema # "" THEN {"dataschema"} ELSE {})
                       \cup (IF f.subject # "" THEN {"subject"} ELSE {})
                       \cup (IF f.time # "" THEN {"time"} ELSE {})
      /\ core["specversion"] = "1.0" /\ core["id"] = f.id /\ core["source"] = f.source
      /\ core["type"] = f.type
      /\ f.dataSchema # "" => core["dataschema"] = f.dataSchema
      /\ f.subject # "" => core["subject"] = f.subject
      /\ f.time # "" => core["time"] = f.time
  BY CoreAttributesWritten
<1>10. /\ \A n \in DOMAIN core : n \in DOMAIN x /\ x[n] = core[n]
       /\ \A n \in DOMAIN f.extensions \ reservedAttributeNames :
            n \in DOMAIN x /\ x[n] = f.extensions[n].text
  BY ExpectedRead
<1> HIDE DEF x, core
<1> TAKE n \in DOMAIN c
<1>11. CASE n \in E
  <2>1. n \in DOMAIN x /\ x[n] = c[n]
    BY <1>2, <1>4, <1>8, <1>10, <1>11
  <2> QED BY <2>1 DEF Says, x
<1>12. CASE n \in {"specversion", "id", "source", "type"}
  <2>1. n \in DOMAIN core /\ core[n] = c[n]
    BY <1>3, <1>6, <1>8, <1>9, <1>12, ZenonT(40)
  <2> QED BY <1>10, <2>1 DEF Says, x
<1>13. CASE n \in {"dataschema", "subject"}
  <2>1. c[n] # "" => n \in DOMAIN core /\ core[n] = c[n]
    BY <1>3, <1>8, <1>9, <1>13, ZenonT(40)
  <2>2. n \in reservedAttributeNames BY <1>13 DEF reservedAttributeNames
  <2> QED BY <1>10, <2>1, <2>2 DEF Says, x
<1>14. CASE n = "time"
  <2>1. "time" \in DOMAIN core /\ core["time"] = ParseTime(c["time"])
    BY <1>7, <1>8, <1>9, <1>14
  <2>2. x["time"] = ParseTime(c[n]) BY <1>10, <1>14, <2>1
  <2> QED BY <1>14, <2>2 DEF Says, x
<1>15. CASE n \in {"data", "data_base64"}
  BY <1>15 DEF Says
<1> QED BY <1>11, <1>12, <1>13, <1>14, <1>15 DEF reservedAttributeNames

\* The context headers of a message, as Occurrences lists them.
HTTPOccurrences(header) ==
  UNION {{<<<<k, i>>, k[2], Unescape(header[k][i])>> : i \in DOMAIN header[k]} : k \in DOMAIN header}

KafkaOccurrences(headers) ==
  {<<i, headers[i].name, headers[i].value>> : i \in {j \in DOMAIN headers : headers[j].owner = "ce"}}

\* The headers O beside the event f: each occurs once and says what f says.
Beside(m, f, O) ==
  /\ \A o, p \in O : o[2] = p[2] => o = p
  /\ \A o \in O : Says(m, f, o[2], o[3])

\* Headers of one value each under one spelling each are told by their names.
LEMMA HTTPBeside ==
  ASSUME NEW m, NEW f, NEW header, HeaderOfStrings(header), respelled(header) = {},
         \A k \in DOMAIN header : Len(header[k]) = 1 /\ Says(m, f, k[2], Unescape(header[k][1]))
  PROVE  Beside(m, f, HTTPOccurrences(header))
<1> DEFINE O == HTTPOccurrences(header)
<1>1. ASSUME NEW o \in O
      PROVE  \E k \in DOMAIN header : o = <<<<k, 1>>, k[2], Unescape(header[k][1])>>
  <2>1. PICK k \in DOMAIN header : \E i \in DOMAIN header[k] : o = <<<<k, i>>, k[2], Unescape(header[k][i])>>
    BY DEF HTTPOccurrences
  <2>2. DOMAIN header[k] = 1..1
    BY DEF HeaderOfStrings
  <2> QED BY <2>1, <2>2
<1>2. \A j, k \in DOMAIN header : j[2] = k[2] => j = k
  BY DEF respelled, When
<1> HIDE DEF O
<1>3. ASSUME NEW o \in O, NEW p \in O, o[2] = p[2] PROVE o = p
  <2>1. PICK k \in DOMAIN header : o = <<<<k, 1>>, k[2], Unescape(header[k][1])>> BY <1>1
  <2>2. PICK j \in DOMAIN header : p = <<<<j, 1>>, j[2], Unescape(header[j][1])>> BY <1>1
  <2>3. o[2] = k[2] /\ p[2] = j[2] BY <2>1, <2>2
  <2>4. j = k BY <1>2, <1>3, <2>3
  <2> QED BY <2>1, <2>2, <2>4
<1>4. ASSUME NEW o \in O PROVE Says(m, f, o[2], o[3])
  <2>1. PICK k \in DOMAIN header : o = <<<<k, 1>>, k[2], Unescape(header[k][1])>> BY <1>1
  <2>2. o[2] = k[2] /\ o[3] = Unescape(header[k][1]) BY <2>1
  <2> QED BY <2>2
<1> QED BY <1>3, <1>4 DEF Beside, O

\* A binary message that was decoded.
LEMMA HTTPBinaryBeside ==
  ASSUME NEW header, HeaderOfStrings(header), NEW ct, NEW body, NEW lim, ClosedStrings,
         NEW r \in decodeHTTPBinary(header, ct, body, lim), r.err = Nil
  PROVE  Beside("binary", r.value, HTTPOccurrences(header))
<1> DEFINE c == decodedHeader(header)
           key(n) == CHOOSE k \in DOMAIN header : k[2] = n
<1>1. respelled(header) = {} /\ HTTPAdmitted(header, ct, body, lim, r.value)
  BY DecodeHTTPBinaryParts, HTTPBinaryAdmitted
<1>2. /\ \A k \in DOMAIN header : binaryHeaderFailure(k, header[k], lim) = {}
      /\ contextFailures(c) = {}
      /\ \E q \in httpData(ct, body) : q.err = Nil /\ r.value = withData(AttributesFrom(c, ct), q.value)
  BY <1>1, Zenon DEF HTTPAdmitted
<1>3. PICK q : r.value = withData(AttributesFrom(c, ct), q.value)
  BY <1>2
<1>4. ContextOfStrings(c)
  BY <1>2, DecodedHeaderStrings
<1>5. \A k \in DOMAIN header : Len(header[k]) = 1 /\ k[2] # "datacontenttype"
  BY <1>2 DEF binaryHeaderFailure, When, ??
<1>6. ASSUME NEW k \in DOMAIN header
      PROVE  k[2] \in DOMAIN c /\ c[k[2]] = Unescape(header[k][1])
  <2>1. \A j \in DOMAIN header : j[2] = k[2] => j = k
    BY <1>1 DEF respelled, When
  <2>2. key(k[2]) = k
    BY <2>1
  <2>3. k[2] \in headerNames(header)
    BY DEF headerNames
  <2>4. DOMAIN c = headerNames(header) /\ c[k[2]] = Unescape(header[key(k[2])][1])
    BY <2>3 DEF decodedHeader
  <2> QED BY <2>2, <2>3, <2>4
<1>7. "datacontenttype" \notin DOMAIN c
  <2>1. DOMAIN c = headerNames(header) BY DEF decodedHeader
  <2> QED BY <1>5, <2>1 DEF headerNames
<1> HIDE DEF c
<1>8. \A n \in DOMAIN c : Says("binary", r.value, n, c[n])
  BY <1>2, <1>3, <1>4, <1>7, BinarySays
<1>9. \A k \in DOMAIN header : Len(header[k]) = 1 /\ Says("binary", r.value, k[2], Unescape(header[k][1]))
  BY <1>5, <1>6, <1>8
<1> QED BY <1>1, <1>9, HTTPBeside

\* A structured message whose redundant headers were compared with its event.
LEMMA HTTPStructuredBeside ==
  ASSUME NEW header, HeaderOfStrings(header), NEW f, NEW lim,
         validateStructuredHTTPMetadata(header, f, lim) = {}
  PROVE  Beside("structured", f, HTTPOccurrences(header))
<1>1. respelled(header) = {}
  BY DEF validateStructuredHTTPMetadata
<1>2. ASSUME NEW k \in DOMAIN header
      PROVE  Len(header[k]) = 1 /\ Says("structured", f, k[2], Unescape(header[k][1]))
  <2>1. validateStructuredHTTPHeader(k, header[k], expectedMetadata(f), lim) = {}
    BY DEF validateStructuredHTTPMetadata
  <2>2. /\ Len(header[k]) = 1
        /\ k[2] \in DOMAIN expectedMetadata(f) /\ Unescape(header[k][1]) = expectedMetadata(f)[k[2]]
    BY <2>1 DEF validateStructuredHTTPHeader, When, ??
  <2> QED BY <2>2 DEF Says
<1> QED BY <1>1, <1>2, HTTPBeside

\* The same of the headers of a record, which are collected by name.
LEMMA KafkaBeside ==
  ASSUME NEW m, NEW f, NEW hs,
         LET headers == cloudEventHeaders(hs) IN
           \A n \in DOMAIN headers : ~repeated(headers[n]) /\ Says(m, f, n, soleValue(headers[n]))
  PROVE  Beside(m, f, KafkaOccurrences(hs))
<1> DEFINE O == KafkaOccurrences(hs)
           places == ownedBy(hs, "ce")
           headers == cloudEventHeaders(hs)
<1>1. ASSUME NEW o \in O PROVE \E i \in places : o = <<i, hs[i].name, hs[i].value>>
  BY DEF KafkaOccurrences, ownedBy
<1>2. ASSUME NEW i \in places
      PROVE  /\ hs[i].name \in DOMAIN headers
             /\ <<i, hs[i].value>> \in headers[hs[i].name]
  <2> DEFINE n == hs[i].name
  <2>1. n \in DOMAIN headers /\ headers[n] = collected(hs, {j \in places : hs[j].name = n})
    BY DEF cloudEventHeaders
  <2> QED BY <2>1 DEF collected
<1>3. ASSUME NEW n \in DOMAIN headers, NEW u \in headers[n], NEW v \in headers[n] PROVE u = v
  BY DEF repeated
<1>4. \A n \in DOMAIN headers : Says(m, f, n, soleValue(headers[n]))
  OBVIOUS
<1> HIDE DEF O, places, headers
<1>5. ASSUME NEW o \in O, NEW p \in O, o[2] = p[2] PROVE o = p
  <2>1. PICK i \in places : o = <<i, hs[i].name, hs[i].value>> BY <1>1
  <2>2. PICK j \in places : p = <<j, hs[j].name, hs[j].value>> BY <1>1
  <2>3. hs[i].name = hs[j].name BY <1>5, <2>1, <2>2
  <2>4. <<i, hs[i].value>> = <<j, hs[j].value>> BY <1>2, <1>3, <2>3
  <2>5. i = j BY <2>4
  <2> QED BY <2>1, <2>2, <2>5
<1>6. ASSUME NEW o \in O PROVE Says(m, f, o[2], o[3])
  <2>1. PICK i \in places : o = <<i, hs[i].name, hs[i].value>> BY <1>1
  <2> DEFINE n == hs[i].name
             w == CHOOSE u \in headers[n] : TRUE
  <2>2. n \in DOMAIN headers /\ <<i, hs[i].value>> \in headers[n] BY <1>2
  <2>3. w \in headers[n] BY <2>2
  <2> HIDE DEF w
  <2>4. w = <<i, hs[i].value>> BY <1>3, <2>2, <2>3
  <2>5. soleValue(headers[n]) = w[2] BY DEF soleValue, w
  <2>6. soleValue(headers[n]) = hs[i].value BY <2>4, <2>5
  <2>7. o[2] = n /\ o[3] = hs[i].value BY <2>1
  <2> QED BY <1>4, <2>2, <2>6, <2>7
<1> QED BY <1>5, <1>6 DEF Beside, O

LEMMA KafkaBinaryBeside ==
  ASSUME NEW hs, HeadersOfStrings(hs), NEW ct, NEW value, NEW lim,
         NEW r \in decodeKafkaBinary(value, ct, cloudEventHeaders(hs), lim), r.err = Nil
  PROVE  Beside("binary", r.value, KafkaOccurrences(hs))
<1> DEFINE headers == cloudEventHeaders(hs)
           c == soleValues(headers)
<1>1. /\ "datacontenttype" \notin DOMAIN headers
      /\ \A n \in DOMAIN headers : contextHeaderFailure(n, headers[n], lim) = {}
  BY DecodeKafkaBinaryParts
<1>2. /\ contextFailures(c) = {}
      /\ \E q \in kafkaData(value, ct, lim) : q.err = Nil /\ r.value = withData(AttributesFrom(c, ct), q.value)
  <2>1. KafkaAdmitted(value, ct, headers, lim, r.value)
    BY KafkaBinaryAdmitted
  <2> QED BY <2>1, Zenon DEF KafkaAdmitted
<1>3. PICK q : r.value = withData(AttributesFrom(c, ct), q.value)
  BY <1>2
<1>4. ContextOfStrings(c)
  BY DecodedKafkaStrings
<1>5. DOMAIN c = DOMAIN headers /\ \A n \in DOMAIN headers : c[n] = soleValue(headers[n])
  BY DEF soleValues
<1>6. \A n \in DOMAIN headers : ~repeated(headers[n])
  BY <1>1 DEF contextHeaderFailure, When, ??
<1> HIDE DEF c
<1>7. \A n \in DOMAIN c : Says("binary", r.value, n, c[n])
  BY <1>1, <1>2, <1>3, <1>4, <1>5, BinarySays
<1>8. \A n \in DOMAIN headers : ~repeated(headers[n]) /\ Says("binary", r.value, n, soleValue(headers[n]))
  BY <1>5, <1>6, <1>7
<1> QED BY <1>8, KafkaBeside

LEMMA KafkaStructuredBeside ==
  ASSUME NEW hs, NEW f, NEW lim, validateStructuredKafkaMetadata(cloudEventHeaders(hs), f, lim) = {}
  PROVE  Beside("structured", f, KafkaOccurrences(hs))
<1> DEFINE headers == cloudEventHeaders(hs)
           x == expectedMetadata(f)
<1>1. ASSUME NEW n \in DOMAIN headers
      PROVE  ~repeated(headers[n]) /\ n \in DOMAIN x /\ soleValue(headers[n]) = x[n]
  <2>1. contextHeaderFailure(n, headers[n], lim)
          ?? When(~(n \in DOMAIN x /\ soleValue(headers[n]) = x[n]), ErrInvalidEvent) = {}
    <3> HIDE DEF headers
    <3>1. validateStructuredKafkaMetadata(headers, f, lim) = {} BY DEF headers
    <3> QED BY <3>1 DEF validateStructuredKafkaMetadata, ??
  <2>2. contextHeaderFailure(n, headers[n], lim) = {} /\ n \in DOMAIN x /\ soleValue(headers[n]) = x[n]
    BY <2>1 DEF ??, When
  <2> QED BY <2>2 DEF contextHeaderFailure, When, ??
<1>2. \A n \in DOMAIN headers : ~repeated(headers[n]) /\ Says("structured", f, n, soleValue(headers[n]))
  BY <1>1 DEF Says
<1> QED BY <1>2, KafkaBeside

occurrencesOf(b, msg) == IF b = "kafka" THEN KafkaOccurrences(msg.headers) ELSE HTTPOccurrences(msg.header)

\* The headers of a message read in the mode k beside the events decoded from it.
MetadataBeside(b, k, msg, events) ==
  IF k = "batch" THEN occurrencesOf(b, msg) = {} ELSE Beside(k, events[1], occurrencesOf(b, msg))

\* A decoder that returns events read the message in a mode of its binding, which is
\* the one it was written in unless that is binary.
LEMMA DecodedMode ==
  ASSUME NEW b \in {"http", "kafka"}, NEW m \in Modes, NEW msg, MessageOfStrings(b, m, msg),
         NEW lim, NEW d \in decode(b, msg, lim), d.err = Nil,
         NEW k, k = readMode(b, msg)
  PROVE  /\ k = m \/ (m = "binary" /\ k = "structured")
         /\ b = "kafka" => k # "batch" /\ m # "batch"
<1>1. CASE b = "http"
  <2>1. d \in DecodeHTTP(msg, lim) /\ HTTPOfStrings(m, msg)
    BY <1>1 DEF decode, MessageOfStrings
  <2> QED BY <1>1, <2>1, HTTPReadMode
<1>2. CASE b = "kafka"
  <2>1. KafkaOfStrings(m, msg) BY <1>2 DEF MessageOfStrings
  <2>2. m \in {"binary", "structured"} BY <2>1 DEF KafkaOfStrings, Modes
  <2> QED BY <1>2, <2>1, <2>2, KafkaReadMode
<1> QED BY <1>1, <1>2

\* A decoder that returns events has compared the headers with them.
LEMMA DecodedBeside ==
  ASSUME NEW b \in {"http", "kafka"}, NEW m \in Modes, NEW msg, MessageOfStrings(b, m, msg),
         ClosedStrings, NEW lim, NEW d \in decode(b, msg, lim), d.err = Nil,
         NEW k, k = readMode(b, msg)
  PROVE  MetadataBeside(b, k, msg, d.value)
<1>0. k = m \/ (m = "binary" /\ k = "structured")
  BY DecodedMode
<1>1. CASE b = "http"
  <2>1. d \in DecodeHTTP(msg, lim) /\ HTTPOfStrings(m, msg)
    BY <1>1 DEF decode, MessageOfStrings
  <2>2. HeaderOfStrings(msg.header)
    BY <2>1 DEF HTTPOfStrings
  <2>3. occurrencesOf(b, msg) = HTTPOccurrences(msg.header)
    BY <1>1 DEF occurrencesOf
  <2>4. CASE k = "binary"
    <3>1. PICK f : d.value = <<f>> /\ HTTPBinaryTaken(msg.header, lim, f)
      BY <1>0, <1>1, <2>1, <2>4, BinaryPosted
    <3>2. PICK ct, s : \E p \in decodeHTTPBinary(msg.header, ct, s, lim) : p.err = Nil /\ f = p.value
      BY <3>1 DEF HTTPBinaryTaken
    <3>3. Beside("binary", f, HTTPOccurrences(msg.header))
      BY <2>2, <3>2, HTTPBinaryBeside
    <3>4. d.value[1] = f BY <3>1
    <3> QED BY <2>3, <2>4, <3>3, <3>4 DEF MetadataBeside
  <2>5. CASE k = "structured"
    <3>1. PICK f : d.value = <<f>> /\ validateStructuredHTTPMetadata(msg.header, f, lim) = {}
      BY <1>0, <1>1, <2>1, <2>5, StructuredPosted
    <3>2. Beside("structured", f, HTTPOccurrences(msg.header))
      BY <2>2, <3>1, HTTPStructuredBeside
    <3>3. d.value[1] = f BY <3>1
    <3> QED BY <2>3, <2>5, <3>2, <3>3 DEF MetadataBeside
  <2>6. CASE k = "batch"
    <3>1. DOMAIN msg.header = {}
      BY <1>0, <2>1, <2>6, BatchPosted
    <3>2. HTTPOccurrences(msg.header) = {}
      BY <3>1 DEF HTTPOccurrences
    <3> QED BY <2>3, <2>6, <3>2 DEF MetadataBeside
  <2> QED BY <1>0, <2>4, <2>5, <2>6 DEF Modes
<1>2. CASE b = "kafka"
  <2>1. PICK r \in DecodeKafka(msg, lim) : r.err = Nil /\ d.value = <<r.value.event>>
    BY <1>2, DecodedRecord
  <2>2. KafkaOfStrings(m, msg) BY <1>2 DEF MessageOfStrings
  <2>3. occurrencesOf(b, msg) = KafkaOccurrences(msg.headers)
    BY <1>2 DEF occurrencesOf
  <2> DEFINE f == r.value.event
  <2>4. d.value[1] = f BY <2>1
  <2> HIDE DEF f
  <2>5. CASE k = "binary"
    <3>1. KafkaBinaryTaken(msg, lim, f)
      BY <1>0, <1>2, <2>1, <2>2, <2>5, BinaryRead DEF f
    <3>2. PICK ct : \E p \in decodeKafkaBinary(msg.value, ct, cloudEventHeaders(msg.headers), lim) :
                      p.err = Nil /\ f = p.value
      BY <3>1 DEF KafkaBinaryTaken
    <3>3. HeadersOfStrings(msg.headers) BY <2>2 DEF KafkaOfStrings
    <3>4. Beside("binary", f, KafkaOccurrences(msg.headers))
      BY <3>2, <3>3, KafkaBinaryBeside
    <3> QED BY <2>3, <2>4, <2>5, <3>4 DEF MetadataBeside
  <2>6. CASE k = "structured"
    <3>1. validateStructuredKafkaMetadata(cloudEventHeaders(msg.headers), f, lim) = {}
      BY <1>0, <1>2, <2>1, <2>2, <2>6, StructuredRead DEF f
    <3>2. Beside("structured", f, KafkaOccurrences(msg.headers))
      BY <3>1, KafkaStructuredBeside
    <3> QED BY <2>3, <2>4, <2>6, <3>2 DEF MetadataBeside
  <2> QED BY <1>0, <2>2, <2>5, <2>6 DEF KafkaOfStrings, Modes
<1> QED BY <1>1, <1>2

\* The documents a message is read as, none of which names a member twice.
documentsOf(b, msg) ==
  LET body == asDocument(IF b = "http" THEN msg.body ELSE msg.value)
  IN  CASE readMode(b, msg) = "structured" -> {body}
        [] readMode(b, msg) = "batch"      -> {body.docs[i] : i \in DOMAIN body.docs}
        [] OTHER                           -> {}

LEMMA TakenOnce ==
  ASSUME NEW body, NEW lim, NEW f, DocumentTaken(body, lim, f)
  PROVE  ~asDocument(body).duplicate
<1> DEFINE doc == asDocument(body)
<1>1. PICK p \in DecodeJSON(body, lim) : p.err = Nil
  BY DEF DocumentTaken
<1>2. inspectJSON(doc, lim.MaxDepth) = {} /\ doc.form = "doc"
  BY <1>1, DecodeJSONStages
<1> HIDE DEF doc
<1> DEFINE deep == deeper(doc, lim.MaxDepth)
<1>3. inspectJSON(doc, lim.MaxDepth)
        = When(lim.MaxDepth <= 0, ErrLimitExceeded)
          ?? (When(deep, ErrLimitExceeded) \cup When(doc.duplicate, ErrInvalidEvent))
  BY <1>2 DEF inspectJSON
<1> HIDE DEF deep
<1>4. When(doc.duplicate, ErrInvalidEvent) = {}
  BY <1>2, <1>3 DEF ??
<1>5. ~doc.duplicate
  BY <1>4 DEF When
<1> QED BY <1>5 DEF doc

LEMMA DecodedDocuments ==
  ASSUME NEW b \in {"http", "kafka"}, NEW m \in Modes, NEW msg, MessageOfStrings(b, m, msg),
         ClosedStrings, NEW lim, NEW d \in decode(b, msg, lim), d.err = Nil
  PROVE  \A doc \in documentsOf(b, msg) : ~doc.duplicate
<1> DEFINE k == readMode(b, msg)
<1>0. /\ k = m \/ (m = "binary" /\ k = "structured")
      /\ b = "kafka" => k # "batch" /\ m # "batch"
  BY DecodedMode
<1>1. CASE k = "structured"
  <2> DEFINE body == IF b = "http" THEN msg.body ELSE msg.value
  <2>1. documentsOf(b, msg) = {asDocument(body)}
    BY <1>1 DEF documentsOf
  <2>2. \E f : DocumentTaken(body, lim, f)
    <3>1. CASE b = "http"
      <4>1. d \in DecodeHTTP(msg, lim) /\ HTTPOfStrings(m, msg)
        BY <3>1 DEF decode, MessageOfStrings
      <4> QED BY <1>0, <1>1, <3>1, <4>1, StructuredPosted
    <3>2. CASE b = "kafka"
      <4>1. PICK r \in DecodeKafka(msg, lim) : r.err = Nil
        BY <3>2, DecodedRecord
      <4>2. KafkaOfStrings(m, msg) BY <3>2 DEF MessageOfStrings
      <4>3. DocumentTaken(msg.value, lim, r.value.event)
        BY <1>0, <1>1, <3>2, <4>1, <4>2, StructuredRead
      <4> QED BY <3>2, <4>3
    <3> QED BY <3>1, <3>2
  <2> HIDE DEF body
  <2> QED BY <2>1, <2>2, TakenOnce
<1>2. CASE k = "batch"
  <2>1. d \in DecodeHTTP(msg, lim) /\ HTTPOfStrings("batch", msg) /\ b = "http"
    BY <1>0, <1>2 DEF decode, MessageOfStrings
  <2> DEFINE docs == msg.body.docs
  <2>2. \A i \in DOMAIN docs : DocumentTaken(docs[i], lim, d.value[i])
    BY <2>1, BatchPosted
  <2>3. \A i \in DOMAIN docs : DocOfStrings(docs[i])
    BY <2>1 DEF HTTPOfStrings
  <2>4. asDocument(msg.body) = msg.body
    <3>1. msg.body = Batch(docs) BY <2>1 DEF HTTPOfStrings
    <3>2. Batch(docs).form = "batch" BY DEF Batch
    <3>3. msg.body.form = "batch" BY <3>1, <3>2, Zenon
    <3> QED BY <3>3 DEF asDocument
  <2>5. documentsOf(b, msg) = {docs[i] : i \in DOMAIN docs}
    BY <1>2, <2>1, <2>4 DEF documentsOf
  <2> HIDE DEF docs
  <2>6. \A i \in DOMAIN docs : ~docs[i].duplicate
    BY <2>2, <2>3, TakenOnce, ReadDocument
  <2> QED BY <2>5, <2>6
<1>3. CASE k = "binary"
  BY <1>3 DEF documentsOf
<1> QED BY <1>0, <1>1, <1>2, <1>3 DEF Modes

-----------------------------------------------------------------------------
(* AdmittedWithinLimits.                                                    *)

\* The limits the decoders compare lengths with.
IntegerLimits(lim) ==
  {lim.MaxEventBytes, lim.MaxDataBytes, lim.MaxAttributes, lim.MaxAttributeNameBytes,
   lim.MaxAttributeValueBytes, lim.MaxBatchEvents, lim.MaxKafkaHeaderValueBytes} \subseteq Int

\* What the limits bound of an event, and what they count: its context and types more.
SizesWithin(lim, e) ==
  LET context == contextAttributes(e) IN
  /\ present(e.data) => Size(e.data.bytes) <= lim.MaxDataBytes
  /\ \A n \in DOMAIN context \ {"time"} : Size(context[n]) <= lim.MaxAttributeValueBytes
  /\ \A n \in DOMAIN e.extensions : Size(n) <= lim.MaxAttributeNameBytes

CountWithin(lim, e, types) ==
  Cardinality(DOMAIN contextAttributes(e)) + types <= lim.MaxAttributes

\* The context of an event, of whose texts each is bounded and each name is in M.
LEMMA ContextWithin ==
  ASSUME NEW e, NEW limit, NEW M,
         \A s \in {"1.0", e.id, e.source, e.type} : Size(s) <= limit,
         e.dataSchema # "" => Size(e.dataSchema) <= limit /\ "dataschema" \in M,
         e.subject # "" => Size(e.subject) <= limit /\ "subject" \in M,
         e.time # "" => "time" \in M,
         {"specversion", "id", "source", "type"} \subseteq M,
         \A n \in DOMAIN e.extensions : Size(e.extensions[n].text) <= limit /\ n \in M
  PROVE  LET context == contextAttributes(e) IN
         /\ \A n \in DOMAIN context \ {"time"} : Size(context[n]) <= limit
         /\ DOMAIN context \subseteq M
         /\ \A n \in DOMAIN context : n \in DOMAIN e.extensions \/
              n \in {"specversion", "id", "source", "type", "dataschema", "subject", "time"}
<1> DEFINE c == coreAttributes(e)
           t == [n \in DOMAIN e.extensions |-> e.extensions[n].text]
           context == contextAttributes(e)
<1>1. context = c ++ t
  BY DEF contextAttributes
<1>2. /\ DOMAIN c = {"specversion", "id", "source", "type"}
                    \cup (IF e.dataSchema # "" THEN {"dataschema"} ELSE {})
                    \cup (IF e.subject # "" THEN {"subject"} ELSE {})
                    \cup (IF e.time # "" THEN {"time"} ELSE {})
      /\ c["specversion"] = "1.0" /\ c["id"] = e.id /\ c["source"] = e.source
      /\ c["type"] = e.type
      /\ e.dataSchema # "" => c["dataschema"] = e.dataSchema
      /\ e.subject # "" => c["subject"] = e.subject
  BY CoreAttributesWritten
<1>3. /\ DOMAIN t = DOMAIN e.extensions
      /\ \A n \in DOMAIN t : Size(t[n]) <= limit /\ n \in M
  OBVIOUS
<1> HIDE DEF c, t
<1>4. /\ DOMAIN context = DOMAIN c \cup DOMAIN t
      /\ \A n \in DOMAIN context : context[n] = IF n \in DOMAIN c THEN c[n] ELSE t[n]
  BY <1>1 DEF ++
<1> HIDE DEF context
<1>5. \A n \in DOMAIN c \ {"time"} : Size(c[n]) <= limit
  BY <1>2
<1>6. DOMAIN c \subseteq M
  BY <1>2
<1>7. \A n \in DOMAIN context \ {"time"} : Size(context[n]) <= limit
  BY <1>3, <1>4, <1>5
<1>8. DOMAIN context \subseteq M
  BY <1>3, <1>4, <1>6
<1>9. \A n \in DOMAIN c : n \in {"specversion", "id", "source", "type", "dataschema", "subject", "time"}
  BY <1>2
<1> QED BY <1>3, <1>4, <1>7, <1>8, <1>9 DEF context

\* A member the context was read from.
LEMMA MemberWithin ==
  ASSUME NEW doc, DocOfStrings(doc), ClosedStrings, NEW lim, IntegerLimits(lim),
         NEW n, NEW required \in BOOLEAN, stringMember(doc, n, required, lim) = {}
  PROVE  /\ required => hasMember(doc, n)
         /\ hasMember(doc, n) => /\ 0 < lim.MaxAttributeValueBytes
                                 /\ Size(memberText(doc, n)) <= lim.MaxAttributeValueBytes
         /\ ~hasMember(doc, n) => memberText(doc, n) = ""
<1> DEFINE raw   == doc.members[n]
           limit == lim.MaxAttributeValueBytes
<1>1. limit \in Int
  BY DEF IntegerLimits
<1>2. required => hasMember(doc, n)
  BY DEF stringMember, When
<1>3. ASSUME hasMember(doc, n)
      PROVE  ~exceedsJSONEncodedStringLimit(Size(raw), limit) /\ Unquote(raw) # Nil /\ ~(Size(Unquote(raw)) > limit)
  BY <1>3 DEF stringMember, When, ??
<1>4. ASSUME hasMember(doc, n) PROVE 0 < limit /\ Size(memberText(doc, n)) <= limit
  <2>1. raw \in Strings BY <1>4 DEF hasMember, DocOfStrings
  <2>2. memberText(doc, n) = Unquote(raw) BY <1>4 DEF memberText
  <2>3. Unquote(raw) \in Strings BY <1>3, <1>4, <2>1 DEF ClosedStrings
  <2>4. Size(Unquote(raw)) \in Nat BY <2>3, SizeAssumption
  <2>5. ~(limit <= 0) BY <1>3, <1>4 DEF exceedsJSONEncodedStringLimit
  <2>6. ~(Size(Unquote(raw)) > limit) BY <1>3, <1>4
  <2> HIDE DEF raw, limit
  <2> QED BY <1>1, <2>2, <2>4, <2>5, <2>6
<1>5. ~hasMember(doc, n) => memberText(doc, n) = ""
  BY Zenon DEF memberText
<1> QED BY <1>2, <1>4, <1>5

\* The data of a document.
LEMMA DataWithin ==
  ASSUME NEW doc, DocOfStrings(doc), ClosedStrings, NEW ct, NEW lim, IntegerLimits(lim),
         NEW r \in decodeJSONData(doc, ct, lim), r.err = Nil
  PROVE  present(r.value) => Size(r.value.bytes) <= lim.MaxDataBytes
<1> DEFINE limit  == lim.MaxDataBytes
           base64 == Unquote(doc.members["data_base64"])
           raw    == TrimSpace(doc.members["data"])
           text   == IF JSONType(raw) = "null" THEN "" ELSE Unquote(raw)
           textFailures ==
                When(exceedsJSONEncodedStringLimit(Size(raw), limit), ErrLimitExceeded)
             ?? When(text = Nil, ErrInvalidEvent)
             ?? When(Size(text) > limit, ErrLimitExceeded)
           base64Failures ==
                When(~hasMember(doc, "data_base64") \/ base64 = Nil, ErrInvalidEvent)
             ?? When(limit <= 0 \/ Base64Length(base64) > limit, ErrLimitExceeded)
             ?? When(Unbase64(base64) = Nil \/ Base64(Unbase64(base64)) # base64, ErrInvalidEvent)
<1>n. Nil # ErrInvalidEvent /\ Nil # ErrLimitExceeded
  BY ErrorsAreNotNil DEF Errors
<1>1. r \in (IF {"data", "data_base64"} \subseteq DOMAIN doc.members THEN Returns({ErrInvalidEvent}, Nil)
             ELSE IF "data_base64" \in DOMAIN doc.members
             THEN Returns(base64Failures, NewBinaryData(Unbase64(base64)))
             ELSE IF "data" \notin DOMAIN doc.members THEN Returns({}, NoData)
             ELSE IF isJSONMediaType(ct)
             THEN IF limit <= 0 \/ Size(raw) > limit THEN Returns({ErrLimitExceeded}, Nil)
                  ELSE NewJSONData(raw)
             ELSE IF textFailures # {} THEN Returns(textFailures, Nil)
             ELSE NewTextData(text))
  BY DEF decodeJSONData
<1>2. base64Failures = {} => base64 # Nil /\ ~(Base64Length(base64) > limit)
                             /\ Unbase64(base64) # Nil /\ Base64(Unbase64(base64)) = base64
  BY DEF ??, When
<1>3. textFailures = {} => ~(Size(text) > limit)
  BY DEF ??, When
<1>4. Nil \notin base64Failures /\ Nil \notin textFailures
  BY <1>n DEF ??, When
<1>5. ReadData(r.value, ct)
  BY DecodedData
<1>6. limit \in Int /\ Size(r.value.bytes) \in Nat
  BY <1>5, SizeAssumption DEF IntegerLimits, ReadData
<1> HIDE DEF limit, base64, raw, text, textFailures, base64Failures
<1>7. \A k, v : [kind |-> k, bytes |-> v].bytes = v
  OBVIOUS
<1>8. CASE {"data", "data_base64"} \subseteq DOMAIN doc.members
  <2>1. r \in Returns({ErrInvalidEvent}, Nil) BY <1>1, <1>8
  <2> QED BY <1>n, <2>1 DEF Returns
<1>9. CASE "data_base64" \in DOMAIN doc.members /\ "data" \notin DOMAIN doc.members
  <2>1. r \in Returns(base64Failures, NewBinaryData(Unbase64(base64))) BY <1>1, <1>9
  <2>2. base64Failures = {} /\ r.value = NewBinaryData(Unbase64(base64))
    BY <1>4, <2>1, ReturnsEither
  <2>3. r.value.bytes = Unbase64(base64)
    BY <1>7, <2>2 DEF NewBinaryData
  <2> DEFINE s == Unbase64(base64)
  <2>4. s \in Strings BY <1>5, <2>3 DEF ReadData
  <2>5. Base64(s) = base64 /\ ~(Base64Length(base64) > limit) BY <1>2, <2>2
  <2> HIDE DEF s
  <2>6. Base64Length(base64) = Size(s) BY <2>4, <2>5, Base64LengthAssumption
  <2>7. ~(Size(r.value.bytes) > limit) BY <2>3, <2>5, <2>6 DEF s
  <2> QED BY <1>6, <2>7 DEF limit
<1>10. CASE "data_base64" \notin DOMAIN doc.members /\ "data" \notin DOMAIN doc.members
  <2>1. r \in Returns({}, NoData) BY <1>1, <1>10
  <2>2. ~present(r.value) BY <2>1, AbsentData
  <2> QED BY <2>2
<1>11. CASE "data_base64" \notin DOMAIN doc.members /\ "data" \in DOMAIN doc.members /\ isJSONMediaType(ct)
  <2>1. r \in (IF limit <= 0 \/ Size(raw) > limit THEN Returns({ErrLimitExceeded}, Nil) ELSE NewJSONData(raw))
    BY <1>1, <1>11
  <2>2. r \notin Returns({ErrLimitExceeded}, Nil)
    BY <1>n DEF Returns
  <2>3. ~(Size(raw) > limit) /\ r.value = [kind |-> "json", bytes |-> raw]
    BY <2>1, <2>2, NewData
  <2>4. ~(Size(r.value.bytes) > limit) BY <1>7, <2>3
  <2> QED BY <1>6, <2>4 DEF limit
<1>12. CASE "data_base64" \notin DOMAIN doc.members /\ "data" \in DOMAIN doc.members /\ ~isJSONMediaType(ct)
  <2>1. r \in (IF textFailures # {} THEN Returns(textFailures, Nil) ELSE NewTextData(text))
    BY <1>1, <1>12
  <2>2. textFailures # {} => r \notin Returns(textFailures, Nil)
    BY <1>4, ReturnsEither
  <2>3. textFailures = {} /\ r.value = [kind |-> "text", bytes |-> text]
    BY <2>1, <2>2, NewData
  <2>4. ~(Size(r.value.bytes) > limit) BY <1>3, <1>7, <2>3
  <2> QED BY <1>6, <2>4 DEF limit
<1> QED BY <1>8, <1>9, <1>10, <1>11, <1>12

\* An extension of a document.
LEMMA ExtensionWithin ==
  ASSUME NEW doc, DocOfStrings(doc), ClosedStrings, NEW lim, IntegerLimits(lim),
         \A n \in extensionMembers(doc) : extensionFailure(doc, n, lim) = {}
  PROVE  LET ext == decodedExtensions(doc) IN
         \A n \in DOMAIN ext : /\ Size(n) <= lim.MaxAttributeNameBytes
                               /\ Size(ext[n].text) <= lim.MaxAttributeValueBytes
<1> DEFINE ext == decodedExtensions(doc)
           some(n) == CHOOSE r \in decodeJSONAttribute(doc.members[n]) : TRUE
<1>1. \A n \in DOMAIN ext : n \in extensionMembers(doc) /\ hasMember(doc, n) /\ ext[n] = some(n).value
  BY DEF decodedExtensions
<1>2. \A n \in DOMAIN ext : n \in Strings /\ ext[n].text \in Strings
  BY DecodedExtensions
<1>3. ASSUME NEW n, extensionFailure(doc, n, lim) = {}, hasMember(doc, n)
      PROVE  ~(Size(n) > lim.MaxAttributeNameBytes) /\ ~(Size(some(n).value.text) > lim.MaxAttributeValueBytes)
  <2>1. /\ When(lim.MaxAttributeNameBytes <= 0 \/ Size(n) > lim.MaxAttributeNameBytes, ErrLimitExceeded) = {}
        /\ When(Size(some(n).value.text) > lim.MaxAttributeValueBytes, ErrLimitExceeded) = {}
    BY <1>3 DEF extensionFailure, ??
  <2> HIDE DEF some
  <2> QED BY <2>1 DEF When
<1> HIDE DEF ext, some
<1>4. lim.MaxAttributeNameBytes \in Int /\ lim.MaxAttributeValueBytes \in Int
  BY DEF IntegerLimits
<1>5. ASSUME NEW n \in DOMAIN ext
      PROVE  Size(n) <= lim.MaxAttributeNameBytes /\ Size(ext[n].text) <= lim.MaxAttributeValueBytes
  <2>1. ~(Size(n) > lim.MaxAttributeNameBytes) /\ ~(Size(ext[n].text) > lim.MaxAttributeValueBytes)
    BY <1>1, <1>3
  <2>2. Size(n) \in Nat /\ Size(ext[n].text) \in Nat
    BY <1>2, SizeAssumption
  <2> QED BY <1>4, <2>1, <2>2
<1> QED BY <1>5 DEF ext

\* Fewer names than the limit.
LEMMA NamesWithin ==
  ASSUME NEW C, NEW M, IsFiniteSet(M), C \subseteq M, NEW limit \in Int, ~(Cardinality(M) > limit)
  PROVE  /\ Cardinality(C) <= limit
         /\ \A x \in M : x \notin C => Cardinality(C) + 1 <= limit
<1>1. IsFiniteSet(C) /\ Cardinality(C) <= Cardinality(M)
  BY FS_Subset
<1>2. Cardinality(C) \in Nat /\ Cardinality(M) \in Nat
  BY <1>1, FS_CardinalityType
<1>3. ASSUME NEW x \in M, x \notin C PROVE Cardinality(C) + 1 <= limit
  <2>1. IsFiniteSet(C \cup {x}) /\ Cardinality(C \cup {x}) = Cardinality(C) + 1
    BY <1>1, <1>3, FS_AddElement
  <2>2. Cardinality(C \cup {x}) <= Cardinality(M)
    BY FS_Subset
  <2> QED BY <1>2, <2>1, <2>2
<1> QED BY <1>1, <1>2, <1>3

\* An event read from a document is within the limits.
LEMMA DocumentWithin ==
  ASSUME NEW body, NEW lim, IntegerLimits(lim), ClosedStrings, NEW f, DocumentTaken(body, lim, f),
         NEW doc, doc = asDocument(body)
  PROVE  /\ SizesWithin(lim, f) /\ CountWithin(lim, f, IF f.dataContentType = "" THEN 0 ELSE 1)
         /\ Size(f.dataContentType) <= lim.MaxAttributeValueBytes
<1> DEFINE a == jsonAttributes(doc)
           ct == memberText(doc, "datacontenttype")
           ext == decodedExtensions(doc)
           V == lim.MaxAttributeValueBytes
           M == DOMAIN doc.members \ {"data", "data_base64"}
           string(n, required) == stringMember(doc, n, required, lim)
           core == {"specversion", "id", "source", "type", "datacontenttype", "dataschema", "subject", "time"}
<1>1. PICK p \in DecodeJSON(body, lim) : p.err = Nil /\ f = p.value
  BY DEF DocumentTaken
<1>2. DocOfStrings(doc)
  BY DEF DocumentTaken
<1>3. /\ ~(countJSONAttributes(doc) > lim.MaxAttributes)
      /\ decodeContext(doc, lim) = {}
      /\ \A n \in extensionMembers(doc) : extensionFailure(doc, n, lim) = {}
      /\ \E q \in decodeJSONData(doc, ct, lim) : q.err = Nil /\ f = withData(a, q.value)
  BY <1>1, DecodeJSONStages
<1>4. PICK q \in decodeJSONData(doc, ct, lim) : q.err = Nil /\ f = withData(a, q.value)
  BY <1>3
<1>5. /\ string("specversion", TRUE) = {} /\ memberText(doc, "specversion") = "1.0"
      /\ string("id", TRUE) = {} /\ string("source", TRUE) = {} /\ string("type", TRUE) = {}
      /\ string("datacontenttype", FALSE) = {} /\ string("dataschema", FALSE) = {}
      /\ string("subject", FALSE) = {}
  <2>1. /\ string("specversion", TRUE) = {} /\ When(memberText(doc, "specversion") # specVersion, ErrInvalidEvent) = {}
        /\ string("id", TRUE) = {} /\ string("source", TRUE) = {} /\ string("type", TRUE) = {}
        /\ string("datacontenttype", FALSE) = {} /\ string("dataschema", FALSE) = {}
        /\ string("subject", FALSE) = {}
    BY <1>3 DEF decodeContext, ??
  <2> HIDE DEF string
  <2> QED BY <2>1 DEF When, specVersion
<1>6. \A n \in {"specversion", "id", "source", "type"} :
        hasMember(doc, n) /\ 0 < V /\ Size(memberText(doc, n)) <= V
  BY <1>2, <1>5, MemberWithin
<1>7. \A n \in {"datacontenttype", "dataschema", "subject"} :
        memberText(doc, n) # "" => hasMember(doc, n) /\ Size(memberText(doc, n)) <= V
  BY <1>2, <1>5, MemberWithin
<1>8. /\ f.id = memberText(doc, "id") /\ f.source = memberText(doc, "source") /\ f.type = memberText(doc, "type")
      /\ f.dataContentType = ct /\ f.dataSchema = memberText(doc, "dataschema")
      /\ f.subject = memberText(doc, "subject") /\ f.extensions = ext
      /\ f.time = IF hasMember(doc, "time") THEN ParseTime(memberText(doc, "time")) ELSE ""
      /\ f.data = q.value
  <2>1. /\ a.id = memberText(doc, "id") /\ a.source = memberText(doc, "source") /\ a.type = memberText(doc, "type")
        /\ a.dataContentType = ct /\ a.dataSchema = memberText(doc, "dataschema")
        /\ a.subject = memberText(doc, "subject") /\ a.extensions = ext
        /\ a.time = IF hasMember(doc, "time") THEN ParseTime(memberText(doc, "time")) ELSE ""
    BY DEF jsonAttributes, Attributes
  <2> DEFINE t == IF hasMember(doc, "time") THEN ParseTime(memberText(doc, "time")) ELSE ""
  <2> HIDE DEF a, ct, ext, t
  <2> QED BY <1>4, <2>1 DEF withData, t
<1>9. \A n \in core : hasMember(doc, n) => n \in M
  BY DEF hasMember
<1>10. /\ \A n \in DOMAIN ext : Size(n) <= lim.MaxAttributeNameBytes /\ Size(ext[n].text) <= V
       /\ DOMAIN ext \subseteq DOMAIN doc.members \ reservedAttributeNames
  BY <1>2, <1>3, ExtensionWithin, DecodedExtensions
<1>11. DOMAIN ext \subseteq M /\ "datacontenttype" \notin DOMAIN ext
  BY <1>10 DEF reservedAttributeNames
<1>12. f.time # "" => hasMember(doc, "time")
  BY <1>8
<1>13. IsFiniteSet(M) /\ ~(Cardinality(M) > lim.MaxAttributes) /\ lim.MaxAttributes \in Int /\ V \in Int
  BY <1>2, <1>3, FS_Subset DEF DocOfStrings, countJSONAttributes, IntegerLimits
<1>14. present(f.data) => Size(f.data.bytes) <= lim.MaxDataBytes
  BY <1>2, <1>4, <1>8, DataWithin
<1> HIDE DEF a, ct, ext, V, M
<1> DEFINE context == contextAttributes(f)
<1>15. /\ \A n \in DOMAIN context \ {"time"} : Size(context[n]) <= V
       /\ DOMAIN context \subseteq M
       /\ \A n \in DOMAIN context : n \in DOMAIN f.extensions \/
            n \in {"specversion", "id", "source", "type", "dataschema", "subject", "time"}
  <2>1. \A s \in {"1.0", f.id, f.source, f.type} : Size(s) <= V
    BY <1>5, <1>6, <1>8
  <2>2. f.dataSchema # "" => Size(f.dataSchema) <= V /\ "dataschema" \in M
    BY <1>7, <1>8, <1>9
  <2>3. f.subject # "" => Size(f.subject) <= V /\ "subject" \in M
    BY <1>7, <1>8, <1>9
  <2>4. f.time # "" => "time" \in M
    BY <1>9, <1>12
  <2>5. {"specversion", "id", "source", "type"} \subseteq M
    BY <1>6, <1>9
  <2>6. \A n \in DOMAIN f.extensions : Size(f.extensions[n].text) <= V /\ n \in M
    BY <1>8, <1>10, <1>11
  <2> QED BY <2>1, <2>2, <2>3, <2>4, <2>5, <2>6, ContextWithin
<1> HIDE DEF context
<1>16. SizesWithin(lim, f)
  BY <1>8, <1>10, <1>14, <1>15 DEF SizesWithin, context, V
<1>17. Cardinality(DOMAIN context) <= lim.MaxAttributes
       /\ \A x \in M : x \notin DOMAIN context => Cardinality(DOMAIN context) + 1 <= lim.MaxAttributes
  BY <1>13, <1>15, NamesWithin
<1>18. CountWithin(lim, f, IF f.dataContentType = "" THEN 0 ELSE 1)
  <2>1. CASE f.dataContentType = ""
    <3>1. IsFiniteSet(DOMAIN context) BY <1>13, <1>15, FS_Subset
    <3>2. Cardinality(DOMAIN context) \in Nat BY <3>1, FS_CardinalityType
    <3>3. Cardinality(DOMAIN context) + 0 <= lim.MaxAttributes BY <1>13, <1>17, <3>2
    <3>4. (IF f.dataContentType = "" THEN 0 ELSE 1) = 0 BY <2>1, Zenon
    <3> QED BY <3>3, <3>4 DEF CountWithin, context
  <2>2. CASE f.dataContentType # ""
    <3>1. "datacontenttype" \in M BY <1>7, <1>8, <1>9, <2>2 DEF ct
    <3>2. "datacontenttype" \notin DOMAIN context BY <1>8, <1>11, <1>15
    <3> QED BY <1>17, <2>2, <3>1, <3>2 DEF CountWithin, context
  <2> QED BY <2>1, <2>2
<1>19. Size(f.dataContentType) <= V
  <2>1. CASE ct = ""
    <3>1. 0 < V BY <1>6
    <3>2. Size("") = 0 BY Zenon, SizeAssumption
    <3>3. 0 <= V BY <1>13, <3>1
    <3>4. f.dataContentType = "" BY <1>8, <2>1, Zenon
    <3> QED BY <3>2, <3>3, <3>4
  <2>2. CASE ct # "" BY <1>7, <1>8, <2>2 DEF ct
  <2> QED BY <2>1, <2>2
<1> QED BY <1>16, <1>18, <1>19 DEF V

\* An event of context strings that are within the limits is.
LEMMA BinaryWithin ==
  ASSUME NEW c, ContextOfStrings(c), contextFailures(c) = {}, NEW ct, NEW data, NEW f,
         f = withData(AttributesFrom(c, ct), data), CoreValid(f), NEW lim, IntegerLimits(lim),
         \A n \in DOMAIN c : /\ ~(Size(n) > lim.MaxAttributeNameBytes)
                             /\ ~(Size(c[n]) > lim.MaxAttributeValueBytes),
         ~(Cardinality(DOMAIN c) > lim.MaxAttributes),
         present(data) => Size(data.bytes) <= lim.MaxDataBytes
  PROVE  /\ SizesWithin(lim, f) /\ CountWithin(lim, f, 0) /\ f.dataContentType = ct
         /\ 0 <= lim.MaxAttributeValueBytes
<1> DEFINE get(n) == IF n \in DOMAIN c THEN c[n] ELSE ""
           E == DOMAIN c \ reservedAttributeNames
           ext == [n \in E |-> Attribute("string", c[n])]
           time == IF "time" \in DOMAIN c THEN ParseTime(c["time"]) ELSE ""
           V == lim.MaxAttributeValueBytes
           N == lim.MaxAttributeNameBytes
<1>1. AttributesFrom(c, ct)
        = Attributes(get("id"), get("source"), get("type"), ct, get("dataschema"), get("subject"), time, ext)
  BY DEF AttributesFrom
<1>2. DOMAIN ext = E /\ \A n \in E : ext[n].text = c[n]
  BY DEF Attribute
<1>3. \A n : get(n) # "" => n \in DOMAIN c /\ get(n) = c[n]
  OBVIOUS
<1>4. "specversion" \in DOMAIN c /\ c["specversion"] = "1.0"
  <2>1. When(~("specversion" \in DOMAIN c /\ c["specversion"] = specVersion), ErrInvalidEvent) = {}
    BY DEF contextFailures, ??
  <2> QED BY <2>1 DEF When, specVersion
<1>5. time # "" => "time" \in DOMAIN c
  OBVIOUS
<1>6. V \in Int /\ N \in Int /\ lim.MaxAttributes \in Int
  BY DEF IntegerLimits
<1>7. ASSUME NEW n \in DOMAIN c PROVE 0 <= V /\ Size(c[n]) <= V
  <2>1. Size(c[n]) \in Nat BY SizeAssumption DEF ContextOfStrings
  <2>2. ~(Size(c[n]) > V) OBVIOUS
  <2> HIDE DEF V
  <2> QED BY <1>6, <2>1, <2>2
<1>8. ASSUME NEW n \in E PROVE Size(n) <= N
  <2>1. Size(n) \in Nat BY SizeAssumption DEF ContextOfStrings
  <2>2. ~(Size(n) > N) OBVIOUS
  <2> HIDE DEF N
  <2> QED BY <1>6, <2>1, <2>2
<1> HIDE DEF get, ext, time
<1>9. /\ f.id = get("id") /\ f.source = get("source") /\ f.type = get("type")
      /\ f.dataSchema = get("dataschema") /\ f.subject = get("subject") /\ f.time = time
      /\ f.extensions = ext /\ f.dataContentType = ct /\ f.data = data
  BY <1>1 DEF withData, Attributes
<1>10. f.id # "" /\ f.source # "" /\ f.type # ""
  BY DEF CoreValid
<1> DEFINE context == contextAttributes(f)
           M == DOMAIN c
<1> HIDE DEF V, N, E
<1>11. /\ \A n \in DOMAIN context \ {"time"} : Size(context[n]) <= V
       /\ DOMAIN context \subseteq M
  <2>1. \A s \in {"1.0", f.id, f.source, f.type} : Size(s) <= V
    BY <1>3, <1>4, <1>7, <1>9, <1>10, ZenonT(40)
  <2>2. f.dataSchema # "" => Size(f.dataSchema) <= V /\ "dataschema" \in M
    BY <1>3, <1>7, <1>9
  <2>3. f.subject # "" => Size(f.subject) <= V /\ "subject" \in M
    BY <1>3, <1>7, <1>9
  <2>4. f.time # "" => "time" \in M
    BY <1>5, <1>9
  <2>5. {"specversion", "id", "source", "type"} \subseteq M
    BY <1>3, <1>4, <1>9, <1>10
  <2>6. \A n \in DOMAIN f.extensions : Size(f.extensions[n].text) <= V /\ n \in M
    BY <1>2, <1>7, <1>9 DEF E
  <2> HIDE DEF M
  <2> QED BY <2>1, <2>2, <2>3, <2>4, <2>5, <2>6, ContextWithin
<1> HIDE DEF context
<1>12. SizesWithin(lim, f)
  BY <1>2, <1>8, <1>9, <1>11 DEF SizesWithin, context, V, N
<1>13. Cardinality(DOMAIN context) <= lim.MaxAttributes
  BY <1>6, <1>11, NamesWithin DEF ContextOfStrings
<1>14. CountWithin(lim, f, 0)
  <2>1. IsFiniteSet(DOMAIN context) BY <1>11, FS_Subset DEF ContextOfStrings
  <2>2. Cardinality(DOMAIN context) \in Nat BY <2>1, FS_CardinalityType
  <2>3. Cardinality(DOMAIN context) + 0 <= lim.MaxAttributes BY <1>6, <1>13, <2>2
  <2> QED BY <2>3 DEF CountWithin, context
<1>15. 0 <= V BY <1>4, <1>7
<1> QED BY <1>9, <1>12, <1>14, <1>15 DEF V

\* A binary message gives context strings within the limits.
LEMMA HTTPBinaryWithin ==
  ASSUME NEW header, HeaderOfStrings(header), NEW lim, IntegerLimits(lim), ClosedStrings,
         NEW f, HTTPBinaryTaken(header, lim, f), CoreValid(f)
  PROVE  /\ SizesWithin(lim, f) /\ CountWithin(lim, f, 0)
         /\ Size(f.dataContentType) <= lim.MaxAttributeValueBytes
<1> DEFINE c == decodedHeader(header)
           key(n) == CHOOSE k \in DOMAIN header : k[2] = n
           V == lim.MaxAttributeValueBytes
<1>1. PICK ct \in Strings, s \in Strings :
        /\ ct = "" => s = ""
        /\ ~(ct # "" /\ Size(ct) > V)
        /\ readHTTPBody(Size(s), lim.MaxDataBytes) = {}
        /\ \E p \in decodeHTTPBinary(header, ct, s, lim) : p.err = Nil /\ f = p.value
  BY DEF HTTPBinaryTaken
<1>2. PICK p \in decodeHTTPBinary(header, ct, s, lim) : p.err = Nil /\ f = p.value
  BY <1>1
<1>3. /\ DOMAIN header # {} => ~(Cardinality(headerNames(header)) > lim.MaxAttributes)
      /\ HTTPAdmitted(header, ct, s, lim, p.value)
  BY <1>2, DecodeHTTPBinaryParts, HTTPBinaryAdmitted
<1>4. /\ \A k \in DOMAIN header : binaryHeaderFailure(k, header[k], lim) = {}
      /\ contextFailures(c) = {}
      /\ \E q \in httpData(ct, s) : q.err = Nil /\ p.value = withData(AttributesFrom(c, ct), q.value)
  BY <1>3, Zenon DEF HTTPAdmitted
<1>5. PICK q \in httpData(ct, s) : q.err = Nil /\ p.value = withData(AttributesFrom(c, ct), q.value)
  BY <1>4
<1>6. ContextOfStrings(c)
  BY <1>4, DecodedHeaderStrings
<1>7. DOMAIN c = headerNames(header) /\ \A n \in DOMAIN c : c[n] = Unescape(header[key(n)][1])
  BY DEF decodedHeader
<1>8. \A n \in headerNames(header) : key(n) \in DOMAIN header /\ key(n)[2] = n
  BY DEF headerNames
<1>9. \A k \in DOMAIN header : ~(Size(k[2]) > lim.MaxAttributeNameBytes) /\ ~(Size(Unescape(header[k][1])) > V)
  BY <1>4 DEF binaryHeaderFailure, nameTooLong, When, ??
<1> HIDE DEF c, key
<1>10. \A n \in DOMAIN c : ~(Size(n) > lim.MaxAttributeNameBytes) /\ ~(Size(c[n]) > V)
  BY <1>7, <1>8, <1>9
<1>11. present(q.value) => Size(q.value.bytes) <= lim.MaxDataBytes
  <2>1. CASE ct = ""
    <3>1. q \in Returns({}, NoData) BY <1>1, <1>5, <2>1 DEF httpData
    <3> QED BY <3>1, AbsentData
  <2>2. CASE ct # ""
    <3>1. q \in dataOf(ct, s) BY <1>5, <2>2 DEF httpData
    <3>2. q.value = [kind |-> q.value.kind, bytes |-> s] BY <1>5, <3>1, DataOfMatches
    <3> DEFINE v == q.value
    <3>3. v = [kind |-> v.kind, bytes |-> s] BY <3>2
    <3> HIDE DEF v
    <3>4. v.bytes = s BY <3>3
    <3>5. ~(Size(s) > lim.MaxDataBytes) BY <1>1 DEF readHTTPBody, When, ??
    <3>6. Size(s) \in Nat /\ lim.MaxDataBytes \in Int BY SizeAssumption DEF IntegerLimits
    <3>7. Size(s) <= lim.MaxDataBytes BY <3>5, <3>6
    <3> QED BY <3>4, <3>7 DEF v
  <2> QED BY <2>1, <2>2
<1>12. f = withData(AttributesFrom(c, ct), q.value) BY <1>2, <1>5
<1>13. ~(Cardinality(DOMAIN c) > lim.MaxAttributes)
  <2>1. "specversion" \in DOMAIN c BY <1>4 DEF contextFailures, When, ??
  <2>2. headerNames(header) # {} BY <1>7, <2>1
  <2>3. DOMAIN header # {} BY <2>2 DEF headerNames
  <2> QED BY <1>3, <1>7, <2>3
<1>14. SizesWithin(lim, f) /\ CountWithin(lim, f, 0) /\ f.dataContentType = ct /\ 0 <= V
  BY <1>4, <1>6, <1>10, <1>11, <1>12, <1>13, BinaryWithin
<1>15. Size(ct) <= V
  <2>1. V \in Int /\ Size(ct) \in Nat BY SizeAssumption DEF IntegerLimits
  <2>2. CASE ct = ""
    <3>1. Size("") = 0 BY Zenon, SizeAssumption
    <3>2. Size(ct) = 0 BY <2>2, <3>1, Zenon
    <3>3. 0 <= V BY <1>14
    <3> QED BY <3>2, <3>3
  <2>3. CASE ct # ""
    <3>1. ~(Size(ct) > V) BY <1>1, <2>3
    <3> HIDE DEF V
    <3> QED BY <2>1, <3>1
  <2> QED BY <2>2, <2>3
<1> QED BY <1>14, <1>15

\* So does a record, whose content type is bounded as a header is.
LEMMA KafkaBinaryWithin ==
  ASSUME NEW record, HeadersOfStrings(record.headers), NEW lim, IntegerLimits(lim), ClosedStrings,
         NEW f, KafkaBinaryTaken(record, lim, f), CoreValid(f),
         recordFailures(record, lim) = {}, headerFailures(record.headers, lim) = {}
  PROVE  /\ SizesWithin(lim, f) /\ CountWithin(lim, f, 0)
         /\ Size(f.dataContentType) <= lim.MaxKafkaHeaderValueBytes
<1> DEFINE hs == record.headers
           headers == cloudEventHeaders(hs)
           c == soleValues(headers)
           V == lim.MaxAttributeValueBytes
           H == lim.MaxKafkaHeaderValueBytes
<1>1. PICK ct \in Strings :
        /\ TypedRecord(record, ct)
        /\ record.value = Nil \/ (ct # "" /\ \E s \in Strings : record.value = Bytes(s))
        /\ \E p \in decodeKafkaBinary(record.value, ct, headers, lim) : p.err = Nil /\ f = p.value
  BY DEF KafkaBinaryTaken
<1>2. PICK p \in decodeKafkaBinary(record.value, ct, headers, lim) : p.err = Nil /\ f = p.value
  BY <1>1
<1>3. /\ ~(Cardinality(DOMAIN headers) > lim.MaxAttributes)
      /\ \A n \in DOMAIN headers : contextHeaderFailure(n, headers[n], lim) = {}
      /\ KafkaAdmitted(record.value, ct, headers, lim, p.value)
  BY <1>2, DecodeKafkaBinaryParts, KafkaBinaryAdmitted
<1>4. /\ contextFailures(c) = {}
      /\ \E q \in kafkaData(record.value, ct, lim) : q.err = Nil /\ p.value = withData(AttributesFrom(c, ct), q.value)
  BY <1>3, Zenon DEF KafkaAdmitted
<1>5. PICK q \in kafkaData(record.value, ct, lim) : q.err = Nil /\ p.value = withData(AttributesFrom(c, ct), q.value)
  BY <1>4
<1>6. ContextOfStrings(c)
  BY DecodedKafkaStrings
<1>7. DOMAIN c = DOMAIN headers /\ \A n \in DOMAIN headers : c[n] = soleValue(headers[n])
  BY DEF soleValues
<1>8. \A n \in DOMAIN headers : ~(Size(n) > lim.MaxAttributeNameBytes) /\ ~(Size(soleValue(headers[n])) > V)
  BY <1>3 DEF contextHeaderFailure, nameTooLong, When, ??
<1> HIDE DEF c, headers
<1>9. \A n \in DOMAIN c : ~(Size(n) > lim.MaxAttributeNameBytes) /\ ~(Size(c[n]) > V)
  BY <1>7, <1>8
<1>10. present(q.value) => Size(q.value.bytes) <= lim.MaxDataBytes
  <2>1. CASE record.value = Nil
    <3>1. q \in Returns({}, NoData) BY <1>5, <2>1 DEF kafkaData
    <3> QED BY <3>1, AbsentData
  <2>2. CASE record.value # Nil
    <3>1. PICK s \in Strings : record.value = Bytes(s) BY <1>1, <2>2
    <3>2. record.value.bytes = s BY <3>1 DEF Bytes
    <3>3. q \in (IF Size(s) > lim.MaxDataBytes THEN Returns({ErrLimitExceeded}, Nil) ELSE dataOf(ct, s))
      BY <1>5, <2>2, <3>2 DEF kafkaData
    <3>4. q \notin Returns({ErrLimitExceeded}, Nil)
      BY <1>5, ErrorsAreNotNil DEF Returns, Errors
    <3>5. ~(Size(s) > lim.MaxDataBytes) /\ q \in dataOf(ct, s)
      BY <3>3, <3>4
    <3>6. q.value = [kind |-> q.value.kind, bytes |-> s] BY <1>5, <3>5, DataOfMatches
    <3> DEFINE v == q.value
    <3>7. v = [kind |-> v.kind, bytes |-> s] BY <3>6
    <3> HIDE DEF v
    <3>8. v.bytes = s BY <3>7
    <3>9. Size(s) \in Nat /\ lim.MaxDataBytes \in Int BY SizeAssumption DEF IntegerLimits
    <3>10. Size(s) <= lim.MaxDataBytes BY <3>5, <3>9
    <3> QED BY <3>8, <3>10 DEF v
  <2> QED BY <2>1, <2>2
<1>11. f = withData(AttributesFrom(c, ct), q.value) BY <1>2, <1>5
<1>12. ~(Cardinality(DOMAIN c) > lim.MaxAttributes) BY <1>3, <1>7
<1>13. SizesWithin(lim, f) /\ CountWithin(lim, f, 0) /\ f.dataContentType = ct
  BY <1>4, <1>6, <1>9, <1>10, <1>11, <1>12, BinaryWithin
<1>14. H \in Int /\ Size(ct) \in Nat
  BY SizeAssumption DEF IntegerLimits
<1>15. Size(ct) <= H
  <2>1. CASE ct = ""
    <3>1. Size("") = 0 BY Zenon, SizeAssumption
    <3>2. Size(ct) = 0 BY <2>1, <3>1, Zenon
    <3>3. ~(H <= 0) BY DEF recordFailures, When
    <3> HIDE DEF H
    <3> QED BY <1>14, <3>2, <3>3
  <2>2. CASE ct # ""
    <3> DEFINE types == collected(hs, ownedBy(hs, "content-type"))
               failing == {i \in DOMAIN hs : headerFailure(hs[i], lim) # {}}
    <3>1. PICK i : types = {<<i, ct>>} BY <1>1, <2>2 DEF TypedRecord, contentTypesOf
    <3>2. \E j \in ownedBy(hs, "content-type") : <<i, ct>> = <<j, hs[j].value>>
      BY <3>1 DEF collected
    <3>3. PICK j \in ownedBy(hs, "content-type") : <<i, ct>> = <<j, hs[j].value>>
      BY <3>2
    <3>4. hs[j].value = ct BY <3>3
    <3>5. j \in DOMAIN hs BY DEF ownedBy
    <3>6. failing = {}
      <4>1. DOMAIN hs \subseteq Nat
        <5>1. DOMAIN hs = 1..Len(hs) /\ Len(hs) \in Nat BY DEF HeadersOfStrings, IsSequence
        <5> QED BY <5>1
      <4>2. failing \subseteq Nat BY <4>1
      <4>3. failing # {} => Min(failing) \in failing
        <5> HIDE DEF failing
        <5> QED BY <4>2, MinOfNaturals
      <4>4. (IF failing = {} THEN {} ELSE headerFailure(hs[Min(failing)], lim)) = {}
        BY DEF headerFailures
      <4> QED BY <4>3, <4>4
    <3>7. headerFailure(hs[j], lim) = {} BY <3>5, <3>6
    <3>8. ~(Size(hs[j].value) > H) BY <3>7 DEF headerFailure, When, ??
    <3>9. ~(Size(ct) > H) BY <3>4, <3>8
    <3> HIDE DEF H
    <3> QED BY <1>14, <3>9
  <2> QED BY <2>1, <2>2
<1> QED BY <1>13, <1>15

\* An event within the limits of a receiver, and events that are.
EventWithin(b, m, lim, e) ==
  /\ SizesWithin(lim, e)
  /\ CountWithin(lim, e, IF m = "binary" THEN 0 ELSE IF e.dataContentType = "" THEN 0 ELSE 1)
  /\ Size(e.dataContentType) <= IF b = "kafka" /\ m = "binary" THEN lim.MaxKafkaHeaderValueBytes
                                ELSE lim.MaxAttributeValueBytes

EventsWithin(b, m, lim, events) ==
  /\ m = "batch" => Len(events) <= lim.MaxBatchEvents
  /\ \A i \in DOMAIN events : EventWithin(b, m, lim, events[i])

LEMMA DocumentEventWithin ==
  ASSUME NEW body, NEW lim, IntegerLimits(lim), ClosedStrings, NEW f, DocumentTaken(body, lim, f),
         NEW b, NEW m, m # "binary"
  PROVE  EventWithin(b, m, lim, f)
<1> DEFINE doc == asDocument(body)
<1>1. /\ SizesWithin(lim, f) /\ CountWithin(lim, f, IF f.dataContentType = "" THEN 0 ELSE 1)
      /\ Size(f.dataContentType) <= lim.MaxAttributeValueBytes
  BY DocumentWithin
<1> QED BY <1>1 DEF EventWithin

\* What a decoder returns is within the limits it was given.
LEMMA DecodedWithin ==
  ASSUME NEW b \in {"http", "kafka"}, NEW m \in Modes, NEW msg, MessageOfStrings(b, m, msg),
         ClosedStrings, NEW lim, IntegerLimits(lim), NEW d \in decode(b, msg, lim), d.err = Nil,
         NEW k, k = readMode(b, msg)
  PROVE  EventsWithin(b, k, lim, d.value)
<1>0. k = m \/ (m = "binary" /\ k = "structured")
  BY DecodedMode
<1>1. \A i \in DOMAIN d.value : CoreValid(d.value[i])
  BY DecodedWhole, WholeEventRules DEF AllWhole
<1>2. CASE b = "http"
  <2>1. d \in DecodeHTTP(msg, lim) /\ HTTPOfStrings(m, msg)
    BY <1>2 DEF decode, MessageOfStrings
  <2>2. CASE k = "binary"
    <3>1. PICK f : d.value = <<f>> /\ HTTPBinaryTaken(msg.header, lim, f)
      BY <1>0, <1>2, <2>1, <2>2, BinaryPosted
    <3>2. HeaderOfStrings(msg.header) BY <2>1 DEF HTTPOfStrings
    <3>3. DOMAIN d.value = {1} /\ d.value[1] = f BY <3>1
    <3>4. CoreValid(f) BY <1>1, <3>3
    <3>5. /\ SizesWithin(lim, f) /\ CountWithin(lim, f, 0)
          /\ Size(f.dataContentType) <= lim.MaxAttributeValueBytes
      BY <3>1, <3>2, <3>4, HTTPBinaryWithin
    <3>6. EventWithin(b, k, lim, f) BY <1>2, <2>2, <3>5 DEF EventWithin
    <3> QED BY <2>2, <3>3, <3>6 DEF EventsWithin
  <2>3. CASE k = "structured"
    <3>1. PICK f : d.value = <<f>> /\ DocumentTaken(msg.body, lim, f)
      BY <1>0, <1>2, <2>1, <2>3, StructuredPosted
    <3>2. EventWithin(b, k, lim, f) BY <2>3, <3>1, DocumentEventWithin
    <3>3. DOMAIN d.value = {1} /\ d.value[1] = f BY <3>1
    <3> QED BY <2>3, <3>2, <3>3 DEF EventsWithin
  <2>4. CASE k = "batch"
    <3> DEFINE docs == msg.body.docs
               v == d.value
    <3>1. /\ IsSequence(docs) /\ ~(Len(docs) > lim.MaxBatchEvents)
          /\ v = [i \in DOMAIN docs |-> v[i]]
          /\ \A i \in DOMAIN docs : DocumentTaken(docs[i], lim, v[i])
      BY <1>0, <2>1, <2>4, BatchPosted
    <3>2. IsSequence(v) BY DecodedWhole DEF AllWhole
    <3> HIDE DEF docs, v
    <3>3. DOMAIN v = DOMAIN docs BY <3>1
    <3>4. PICK S, T : docs \in Seq(S) /\ v \in Seq(T) BY <3>1, <3>2 DEF IsSequence
    <3>5. /\ DOMAIN docs = 1..Len(docs) /\ Len(docs) \in Nat
          /\ DOMAIN v = 1..Len(v) /\ Len(v) \in Nat
      BY <3>4
    <3>6. Len(v) = Len(docs) BY <3>3, <3>5, SameLength
    <3>7. lim.MaxBatchEvents \in Int BY DEF IntegerLimits
    <3>8. Len(v) <= lim.MaxBatchEvents BY <3>1, <3>5, <3>6, <3>7
    <3>9. \A i \in DOMAIN v : EventWithin(b, k, lim, v[i])
      BY <2>4, <3>1, <3>3, DocumentEventWithin
    <3> QED BY <3>8, <3>9 DEF EventsWithin, v
  <2> QED BY <1>0, <2>2, <2>3, <2>4 DEF Modes
<1>3. CASE b = "kafka"
  <2>1. PICK r \in DecodeKafka(msg, lim) : r.err = Nil /\ d.value = <<r.value.event>>
    BY <1>3, DecodedRecord
  <2>2. KafkaOfStrings(m, msg) BY <1>3 DEF MessageOfStrings
  <2> DEFINE f == r.value.event
  <2>3. DOMAIN d.value = {1} /\ d.value[1] = f BY <2>1
  <2>4. CoreValid(f) BY <1>1, <2>3
  <2> HIDE DEF f
  <2>5. CASE k = "binary"
    <3>1. KafkaBinaryTaken(msg, lim, f) /\ recordFailures(msg, lim) = {} /\ headerFailures(msg.headers, lim) = {}
      BY <1>0, <1>3, <2>1, <2>2, <2>5, BinaryRead DEF f
    <3>2. HeadersOfStrings(msg.headers) BY <2>2 DEF KafkaOfStrings
    <3>3. /\ SizesWithin(lim, f) /\ CountWithin(lim, f, 0)
          /\ Size(f.dataContentType) <= lim.MaxKafkaHeaderValueBytes
      BY <2>4, <3>1, <3>2, KafkaBinaryWithin
    <3>4. EventWithin(b, k, lim, f) BY <1>3, <2>5, <3>3 DEF EventWithin
    <3> QED BY <2>3, <2>5, <3>4 DEF EventsWithin
  <2>6. CASE k = "structured"
    <3>1. DocumentTaken(msg.value, lim, f)
      BY <1>0, <1>3, <2>1, <2>2, <2>6, StructuredRead DEF f
    <3>2. EventWithin(b, k, lim, f) BY <2>6, <3>1, DocumentEventWithin
    <3> QED BY <2>3, <2>6, <3>2 DEF EventsWithin
  <2> QED BY <1>0, <2>2, <2>5, <2>6 DEF KafkaOfStrings, Modes
<1> QED BY <1>2, <1>3

\* What a delivery leaves: held events beside the message they came from, within the
\* limits of the receiver.
DeliveredInvariant ==
  /\ IntegerLimits(limits)
  /\ status = "delivered" =>
       LET read == readMode(binding, message) IN
       /\ mode = "batch" <=> read = "batch"
       /\ MetadataBeside(binding, read, message, held)
       /\ EventsWithin(binding, read, limits, held)
       /\ \A doc \in documentsOf(binding, message) : ~doc.duplicate

LEMMA InitDelivered == Init => DeliveredInvariant
<1> SUFFICES ASSUME Init PROVE DeliveredInvariant
  OBVIOUS
<1>1. IntegerLimits(limits)
  BY LimitAssumption DEF Init, work, IntegerLimits
<1>2. status # "delivered" BY DEF Init
<1> QED BY <1>1, <1>2 DEF DeliveredInvariant

LEMMA NextDelivered ==
  ASSUME ClosedStrings, WholeInvariant, DeliveredInvariant, [Next]_vars
  PROVE  DeliveredInvariant'
<1> USE DEF binding, mode
<1>0. IntegerLimits(limits)
  BY DEF DeliveredInvariant
<1>1. ASSUME NEW a, NEW kind, NEW bytes, Produce(a, kind, bytes) PROVE DeliveredInvariant'
  BY <1>0, <1>1 DEF Produce, DeliveredInvariant
<1>2. ASSUME NEW b, NEW m, NEW s, Encode(b, m, s) PROVE DeliveredInvariant'
  <2>1. UNCHANGED limits /\ status' \in {"refused", "inflight"}
    BY <1>2 DEF Encode
  <2> QED BY <1>0, <2>1 DEF DeliveredInvariant
<1>3. ASSUME NEW spelling, NEW name, NEW value, RelayHeader(spelling, name, value)
      PROVE  DeliveredInvariant'
  <2>1. status = "inflight" /\ UNCHANGED <<limits, status>>
    BY <1>3 DEF RelayHeader
  <2> QED BY <1>0, <2>1 DEF DeliveredInvariant
<1>4. ASSUME NEW name, NEW raw, NEW again, RelayMember(name, raw, again) PROVE DeliveredInvariant'
  <2>1. status = "inflight" /\ UNCHANGED <<limits, status>>
    BY <1>4 DEF RelayMember
  <2> QED BY <1>0, <2>1 DEF DeliveredInvariant
<1>5. ASSUME Deliver PROVE DeliveredInvariant'
  <2>1. PICK r \in decode(binding, message, limits) :
          /\ status' = IF r.err # Nil THEN "failed" ELSE "delivered"
          /\ held' = IF r.err # Nil THEN held ELSE r.value
    BY <1>5 DEF Deliver
  <2>2. UNCHANGED <<limits, route, message>> /\ status = "inflight"
    BY <1>5 DEF Deliver
  <2>3. binding \in {"http", "kafka"} /\ mode \in Modes /\ MessageOfStrings(binding, mode, message)
    BY <2>2 DEF WholeInvariant
  <2>4. CASE r.err # Nil
    BY <1>0, <2>1, <2>2, <2>4 DEF DeliveredInvariant
  <2>5. CASE r.err = Nil
    <3> DEFINE read == readMode(binding, message)
    <3>1. MetadataBeside(binding, read, message, r.value)
      BY <2>3, <2>5, DecodedBeside
    <3>2. EventsWithin(binding, read, limits, r.value)
      BY <1>0, <2>3, <2>5, DecodedWithin
    <3>3. held' = r.value BY <2>1, <2>5
    <3>4. mode = "batch" <=> read = "batch"
      BY <2>3, <2>5, DecodedMode
    <3>5. \A doc \in documentsOf(binding, message) : ~doc.duplicate
      BY <2>3, <2>5, DecodedDocuments
    <3> QED BY <1>0, <2>2, <3>1, <3>2, <3>3, <3>4, <3>5 DEF DeliveredInvariant
  <2> QED BY <2>4, <2>5
<1>6. CASE UNCHANGED vars
  BY <1>6 DEF vars, DeliveredInvariant
<1> QED BY <1>1, <1>2, <1>3, <1>4, <1>5, <1>6 DEF Next

LEMMA DeliveredAgrees == DeliveredInvariant => MetadataAgrees
<1> DEFINE read == readMode(binding, message)
<1> SUFFICES ASSUME DeliveredInvariant, status = "delivered"
             PROVE  /\ \A o, p \in Occurrences : o[2] = p[2] => o = p
                    /\ mode = "batch" => Occurrences = {}
                    /\ \A o \in Occurrences :
                         LET expected == expectedMetadata(held[1]) IN
                         \/ read = "binary" /\ o[2] \in {"data", "data_base64"}
                         \/ read = "binary" /\ o[3] = "" /\ o[2] \in reservedAttributeNames
                         \/ read = "binary" /\ o[2] = "time" /\ ParseTime(o[3]) = expected["time"]
                         \/ o[2] \in DOMAIN expected /\ expected[o[2]] = o[3]
                    /\ \A doc \in Documents : ~doc.duplicate
  BY DEF MetadataAgrees
<1>0. mode = "batch" <=> read = "batch"
  BY DEF DeliveredInvariant
<1>1. Occurrences = occurrencesOf(binding, message)
  BY DEF Occurrences, occurrencesOf, KafkaOccurrences, HTTPOccurrences
<1>2. IF read = "batch" THEN Occurrences = {} ELSE Beside(read, held[1], Occurrences)
  BY <1>1 DEF DeliveredInvariant, MetadataBeside
<1>3. \A doc \in Documents : ~doc.duplicate
  <2>1. Documents = documentsOf(binding, message)
    BY Zenon DEF Documents, documentsOf
  <2> QED BY <2>1 DEF DeliveredInvariant
<1> HIDE DEF read
<1>4. CASE read = "batch"
  BY <1>0, <1>2, <1>3, <1>4
<1>5. CASE read # "batch"
  <2>1. /\ \A o, p \in Occurrences : o[2] = p[2] => o = p
        /\ \A o \in Occurrences : Says(read, held[1], o[2], o[3])
    BY <1>2, <1>5 DEF Beside
  <2> QED BY <1>0, <1>3, <1>5, <2>1 DEF Says
<1> QED BY <1>4, <1>5

LEMMA DeliveredWithin == DeliveredInvariant => AdmittedWithinLimits
<1> SUFFICES ASSUME DeliveredInvariant, status = "delivered" PROVE AdmittedWithinLimits
  BY DEF AdmittedWithinLimits
<1> DEFINE read == readMode(binding, message)
<1>1. /\ mode = "batch" => Len(held) <= limits.MaxBatchEvents
      /\ \A i \in DOMAIN held : EventWithin(binding, read, limits, held[i])
  BY DEF DeliveredInvariant, EventsWithin
<1> QED BY <1>1 DEF AdmittedWithinLimits, EventWithin, SizesWithin, CountWithin

\* The invariant holds beside WholeInvariant.
LEMMA DeliveriesAreSound ==
  ASSUME ClosedStrings PROVE Spec => []DeliveredInvariant
<1>1. WholeInvariant /\ DeliveredInvariant /\ [Next]_vars => DeliveredInvariant'
  BY NextDelivered
<1> QED BY <1>1, InitDelivered, CrossingIsWhole, PTL DEF Spec

\* Whatever a relay adds, the context headers of a message that was delivered agree with
\* the events decoded from it, and none of its documents repeats a member
\* (validateStructuredHTTPMetadata, validateStructuredKafkaMetadata, decodeHTTPBinary,
\* decodeKafkaBinary, inspectJSON).
THEOREM MetadataNeverDisagrees == ASSUME ClosedStrings PROVE Spec => []MetadataAgrees
  BY DeliveriesAreSound, DeliveredAgrees, PTL

\* Whatever a relay writes, a receiver holds nothing beyond its limits (limits.go, the
\* admission checks of DecodeJSON, DecodeJSONBatch, DecodeHTTP and DecodeKafka).
THEOREM LimitsAreKept == ASSUME ClosedStrings PROVE Spec => []AdmittedWithinLimits
  BY DeliveriesAreSound, DeliveredWithin, PTL
=============================================================================
