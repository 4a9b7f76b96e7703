---------------------------- MODULE BrokersProofs ---------------------------
(***************************************************************************)
(* Forwarding from broker to broker, for every event, chain of brokers,    *)
(* limit and interference: every message in flight still carries the       *)
(* origin's event, followed by nothing but transport metadata.             *)
(***************************************************************************)
EXTENDS Brokers, CrossingLemmas

-----------------------------------------------------------------------------
(* Headers of the transport behind those of the binding.                    *)

OfTransport(t) == IsSequence(t) /\ \A i \in DOMAIN t : t[i].owner = "transport"
OfBinding(hs)  == IsSequence(hs) /\ \A i \in DOMAIN hs : hs[i].owner # "transport"

LEMMA Concatenated ==
  ASSUME NEW hs, NEW t, IsSequence(hs), IsSequence(t)
  PROVE  /\ Len(hs) \in Nat /\ Len(t) \in Nat /\ Len(hs \o t) = Len(hs) + Len(t)
         /\ DOMAIN hs = 1..Len(hs) /\ DOMAIN t = 1..Len(t)
         /\ DOMAIN (hs \o t) = 1..(Len(hs) + Len(t))
         /\ \A i \in DOMAIN hs : (hs \o t)[i] = hs[i]
         /\ \A i \in DOMAIN (hs \o t) : i \notin DOMAIN hs => i - Len(hs) \in DOMAIN t /\ (hs \o t)[i] = t[i - Len(hs)]
         /\ IsSequence(hs \o t)
<1> DEFINE S == {hs[i] : i \in DOMAIN hs} \cup {t[i] : i \in DOMAIN t}
<1>1. hs \in Seq(S) /\ t \in Seq(S)
  BY DEF IsSequence
<1> HIDE DEF S
<1>2. hs \o t \in Seq(S)
  BY <1>1
<1>3. IsSequence(hs \o t)
  BY <1>2, SequenceOfMembers
<1> QED BY <1>1, <1>3

\* The places the binding reads are the same with and without what follows.
LEMMA BindingHeaders ==
  ASSUME NEW hs, NEW t, IsSequence(hs), OfTransport(t)
  PROVE  /\ \A o : o # "transport" => ownedBy(hs \o t, o) = ownedBy(hs, o)
         /\ collected(hs \o t, ownedBy(hs \o t, "content-type"))
              = collected(hs, ownedBy(hs, "content-type"))
         /\ cloudEventHeaders(hs \o t) = cloudEventHeaders(hs)
<1> DEFINE all == hs \o t
<1>1. /\ DOMAIN hs \subseteq DOMAIN all
      /\ \A i \in DOMAIN hs : all[i] = hs[i]
      /\ \A i \in DOMAIN all : i \notin DOMAIN hs => all[i].owner = "transport"
  <2>1. IsSequence(t) BY DEF OfTransport
  <2>2. /\ Len(hs) \in Nat /\ Len(t) \in Nat
        /\ DOMAIN hs = 1..Len(hs) /\ DOMAIN all = 1..(Len(hs) + Len(t))
        /\ \A i \in DOMAIN hs : all[i] = hs[i]
        /\ \A i \in DOMAIN all : i \notin DOMAIN hs => i - Len(hs) \in DOMAIN t /\ all[i] = t[i - Len(hs)]
    BY <2>1, Concatenated
  <2> HIDE DEF all
  <2>3. DOMAIN hs \subseteq DOMAIN all BY <2>2
  <2> QED BY <2>2, <2>3 DEF OfTransport
<1> HIDE DEF all
<1>2. ASSUME NEW o, o # "transport" PROVE ownedBy(all, o) = ownedBy(hs, o)
  BY <1>1, <1>2 DEF ownedBy
<1>3. ownedBy(all, "ce") = ownedBy(hs, "ce") /\ ownedBy(all, "content-type") = ownedBy(hs, "content-type")
  BY <1>2
<1>4. \A o : ownedBy(hs, o) \subseteq DOMAIN hs
  BY DEF ownedBy
<1>5. ASSUME NEW P, P \subseteq DOMAIN hs PROVE collected(all, P) = collected(hs, P)
  BY <1>1, <1>5 DEF collected
<1>6. cloudEventHeaders(all) = cloudEventHeaders(hs)
  <2> DEFINE C == ownedBy(hs, "ce")
             named(n) == {i \in C : hs[i].name = n}
  <2>1. C \subseteq DOMAIN hs BY <1>4
  <2>2. ownedBy(all, "ce") = C BY <1>3
  <2> HIDE DEF C
  <2>3. {all[i].name : i \in C} = {hs[i].name : i \in C}
    BY <1>1, <2>1
  <2>4. \A n : {i \in C : all[i].name = n} = named(n) /\ named(n) \subseteq DOMAIN hs
    BY <1>1, <2>1
  <2>5. \A n : collected(all, {i \in C : all[i].name = n}) = collected(hs, named(n))
    BY <1>5, <2>4
  <2>6. cloudEventHeaders(all) = [n \in {all[i].name : i \in C} |-> collected(all, {i \in C : all[i].name = n})]
    BY <2>2 DEF cloudEventHeaders
  <2>7. cloudEventHeaders(hs) = [n \in {hs[i].name : i \in C} |-> collected(hs, named(n))]
    BY DEF cloudEventHeaders, C
  <2> QED BY <2>3, <2>5, <2>6, <2>7
<1> QED BY <1>2, <1>3, <1>4, <1>5, <1>6 DEF all

\* What the loop over the headers of a record has kept after each of them.
LEMMA TransportKept ==
  ASSUME NEW headers, IsSequence(headers)
  PROVE  \E among : /\ transportHeaders(headers) = among[Len(headers)]
                    /\ among[0] = <<>>
                    /\ \A n \in 1..Len(headers) :
                         among[n] = IF headers[n].owner = "transport" THEN Append(among[n - 1], headers[n])
                                    ELSE among[n - 1]
<1> DEFINE step(g, n) == IF n = 0 THEN <<>>
                         ELSE IF headers[n].owner = "transport" THEN Append(g[n - 1], headers[n])
                         ELSE g[n - 1]
           Solved(k) == \E g : g = [n \in 0..k |-> step(g, n)]
           L == Len(headers)
           loop == CHOOSE g : g = [n \in 0..L |-> step(g, n)]
<1>1. transportHeaders(headers) = loop[L]
  BY DEF transportHeaders
<1>2. L \in Nat
  BY DEF IsSequence
<1> HIDE DEF L
<1>3. Solved(0)
  <2> DEFINE g == [n \in 0..0 |-> <<>>]
  <2>1. \A n \in 0..0 : n = 0 OBVIOUS
  <2>2. g = [n \in 0..0 |-> step(g, n)]
    BY <2>1
  <2> QED BY <2>2
<1>4. ASSUME NEW k \in Nat, Solved(k) PROVE Solved(k + 1)
  <2>1. PICK g : g = [n \in 0..k |-> step(g, n)]
    BY <1>4
  <2> DEFINE f == [n \in 0..(k + 1) |-> step(g, n)]
  <2>2. \A n \in 0..k : f[n] = g[n]
    <3> SUFFICES ASSUME NEW n \in 0..k PROVE f[n] = g[n]
      OBVIOUS
    <3>1. n \in 0..(k + 1) OBVIOUS
    <3>2. g[n] = step(g, n) BY <2>1
    <3> QED BY <3>1, <3>2
  <2>3. ASSUME NEW n \in 0..(k + 1) PROVE step(g, n) = step(f, n)
    <3>1. CASE n = 0 BY <3>1
    <3>2. CASE n # 0
      <4>1. n - 1 \in 0..k BY <3>2
      <4>2. f[n - 1] = g[n - 1] BY <2>2, <4>1
      <4> HIDE DEF f
      <4> QED BY <3>2, <4>2
    <3> QED BY <3>1, <3>2
  <2>4. f = [n \in 0..(k + 1) |-> step(f, n)]
    BY <2>3
  <2> QED BY <2>4
<1>5. ASSUME NEW k \in Nat PROVE Solved(k)
  <2> HIDE DEF Solved
  <2> DEFINE bad == {m \in Nat : ~Solved(m)}
  <2> SUFFICES ASSUME bad # {} PROVE FALSE OBVIOUS
  <2>1. Min(bad) \in bad /\ \A y \in bad : Min(bad) <= y
    BY MinOfNaturals
  <2>2. Min(bad) # 0 BY <1>3, <2>1
  <2>3. Min(bad) - 1 \in Nat /\ Min(bad) - 1 \notin bad
    BY <2>1, <2>2
  <2>4. Solved((Min(bad) - 1) + 1)
    BY <1>4, <2>3
  <2> QED BY <2>1, <2>4
<1>6. \E g : g = [n \in 0..L |-> step(g, n)]
  BY <1>2, <1>5
<1>7. loop = [n \in 0..L |-> step(loop, n)]
  <2> DEFINE P(g) == g = [n \in 0..L |-> step(g, n)]
  <2>1. \E g : P(g) BY <1>6
  <2>2. loop = CHOOSE g : P(g) OBVIOUS
  <2> HIDE DEF P
  <2>3. P(CHOOSE g : P(g)) BY <2>1
  <2>4. P(loop) BY <2>2, <2>3
  <2> QED BY <2>4 DEF P
<1> HIDE DEF loop
<1>8. loop[0] = <<>>
  <2>1. 0 \in 0..L BY <1>2
  <2> QED BY <1>7, <2>1
<1>9. ASSUME NEW n \in 1..L
      PROVE  loop[n] = IF headers[n].owner = "transport" THEN Append(loop[n - 1], headers[n]) ELSE loop[n - 1]
  <2>1. n \in 0..L /\ n # 0 BY <1>2
  <2> QED BY <1>7, <2>1
<1> QED BY <1>1, <1>8, <1>9 DEF L

\* DecodeKafka hands out exactly the headers that were appended to the binding's.
LEMMA TransportRecovered ==
  ASSUME NEW hs, NEW t, OfBinding(hs), OfTransport(t)
  PROVE  transportHeaders(hs \o t) = t
<1> DEFINE all == hs \o t
           L == Len(hs)
           M == Len(t)
<1>1. /\ L \in Nat /\ M \in Nat /\ Len(all) = L + M
      /\ DOMAIN hs = 1..L /\ DOMAIN t = 1..M /\ DOMAIN all = 1..(L + M)
      /\ \A i \in DOMAIN hs : all[i] = hs[i]
      /\ \A i \in DOMAIN all : i \notin DOMAIN hs => i - L \in DOMAIN t /\ all[i] = t[i - L]
      /\ IsSequence(all)
  BY Concatenated DEF OfBinding, OfTransport
<1> HIDE DEF all, L, M
<1>2. PICK among : /\ transportHeaders(all) = among[L + M]
                   /\ among[0] = <<>>
                   /\ \A n \in 1..(L + M) :
                        among[n] = IF all[n].owner = "transport" THEN Append(among[n - 1], all[n])
                                   ELSE among[n - 1]
  <2> DEFINE N == Len(all)
  <2>1. \E among : /\ transportHeaders(all) = among[N]
                   /\ among[0] = <<>>
                   /\ \A n \in 1..N :
                        among[n] = IF all[n].owner = "transport" THEN Append(among[n - 1], all[n])
                                   ELSE among[n - 1]
    <3>1. IsSequence(all) BY <1>1
    <3> QED BY <3>1, TransportKept, Zenon
  <2>2. N = L + M BY <1>1
  <2> HIDE DEF N
  <2> QED BY <2>1, <2>2
<1> DEFINE Kept(n) == among[n] = IF n <= L THEN <<>> ELSE SubSeq(t, 1, n - L)
           T == {t[i] : i \in DOMAIN t}
<1>t. t \in Seq(T) BY DEF OfTransport, IsSequence
<1>3. ASSUME NEW n \in 1..(L + M), Kept(n - 1) PROVE Kept(n)
  <2>1. CASE n <= L
    <3>1. n \in DOMAIN hs BY <1>1, <2>1
    <3>2. all[n].owner # "transport" BY <1>1, <3>1 DEF OfBinding
    <3>3. among[n] = among[n - 1] BY <1>2, <3>2
    <3>4. n - 1 <= L BY <1>1, <2>1
    <3> QED BY <1>3, <2>1, <3>3, <3>4
  <2>2. CASE ~(n <= L)
    <3>1. n \notin DOMAIN hs /\ n \in DOMAIN all BY <1>1, <2>2
    <3>2. n - L \in DOMAIN t /\ all[n] = t[n - L] BY <1>1, <3>1
    <3>3. all[n].owner = "transport" BY <3>2 DEF OfTransport
    <3>4. among[n] = Append(among[n - 1], t[n - L]) BY <1>2, <3>2, <3>3
    <3>5. n - L \in 1..M BY <1>1, <3>2
    <3>6. among[n - 1] = SubSeq(t, 1, (n - L) - 1)
      <4>1. CASE n - 1 <= L
        <5>1. n = L + 1 BY <1>1, <2>2, <4>1
        <5>2. (n - L) - 1 = 0 BY <1>1, <5>1
        <5>3. SubSeq(t, 1, 0) = <<>> BY <1>t
        <5>4. among[n - 1] = <<>> BY <1>3, <4>1
        <5> QED BY <5>2, <5>3, <5>4
      <4>2. CASE ~(n - 1 <= L)
        <5>1. (n - 1) - L = (n - L) - 1 BY <1>1
        <5> QED BY <1>3, <4>2, <5>1
      <4> QED BY <4>1, <4>2
    <3>7. Append(SubSeq(t, 1, (n - L) - 1), t[n - L]) = SubSeq(t, 1, n - L)
      <4> DEFINE k == n - L
                 s == SubSeq(t, 1, k - 1)
      <4>1. k \in 1..M /\ M = Len(t) BY <3>5 DEF M
      <4> HIDE DEF k, T
      <4>2. s \in Seq(T) /\ Len(s) = k - 1 /\ \A i \in 1..(k - 1) : s[i] = t[i]
        BY <1>1, <1>t, <4>1
      <4>3. t[k] \in T BY <1>t, <1>1, <4>1
      <4>4. SubSeq(t, 1, k) \in Seq(T) /\ Len(SubSeq(t, 1, k)) = k /\ \A i \in 1..k : SubSeq(t, 1, k)[i] = t[i]
        BY <1>1, <1>t, <4>1
      <4> HIDE DEF s
      <4>5. Append(s, t[k]) \in Seq(T) /\ Len(Append(s, t[k])) = k
            /\ \A i \in 1..k : Append(s, t[k])[i] = t[i]
        BY <1>1, <4>1, <4>2, <4>3
      <4>6. Append(s, t[k]) = SubSeq(t, 1, k)
        <5> DEFINE a == Append(s, t[k])
                   b == SubSeq(t, 1, k)
        <5>1. a \in Seq(T) /\ b \in Seq(T) /\ Len(a) = Len(b) /\ \A i \in 1..Len(a) : a[i] = b[i]
          BY <1>1, <4>1, <4>4, <4>5
        <5> HIDE DEF a, b
        <5>2. a = b BY <5>1
        <5> QED BY <5>2 DEF a, b
      <4> QED BY <4>6 DEF s, k
    <3> QED BY <2>2, <3>4, <3>6, <3>7
  <2> QED BY <2>1, <2>2
<1>4. Kept(0)
  BY <1>1, <1>2
<1>5. Kept(L + M)
  <2> HIDE DEF Kept
  <2> DEFINE bad == {n \in 0..(L + M) : ~Kept(n)}
  <2> SUFFICES ASSUME bad # {} PROVE FALSE BY <1>1
  <2>1. bad \subseteq Nat BY <1>1
  <2>2. Min(bad) \in bad /\ \A y \in bad : Min(bad) <= y
    <3> HIDE DEF bad
    <3> QED BY <2>1, MinOfNaturals
  <2>3. Min(bad) # 0 BY <1>4, <2>2
  <2>4. Min(bad) \in 1..(L + M) /\ Min(bad) - 1 \in 0..(L + M) /\ ~(Min(bad) <= Min(bad) - 1)
    BY <1>1, <2>2, <2>3
  <2>5. Kept(Min(bad) - 1) BY <2>2, <2>4
  <2> QED BY <1>3, <2>2, <2>4, <2>5
<1>6. among[L + M] = t
  <2>1. CASE M = 0
    <3>1. L + M <= L BY <1>1, <2>1
    <3>2. t = <<>> BY <1>t, <1>1, <2>1 DEF M
    <3> QED BY <1>5, <3>1, <3>2
  <2>2. CASE M # 0
    <3>1. ~(L + M <= L) /\ (L + M) - L = M BY <1>1, <2>2
    <3>2. SubSeq(t, 1, M) = t BY <1>t DEF M
    <3> QED BY <1>5, <3>1, <3>2
  <2> QED BY <2>1, <2>2
<1> QED BY <1>2, <1>6 DEF all

\* One record is another followed by headers of the transport.
Extends(record, bare, t) ==
  /\ OfBinding(bare.headers) /\ OfTransport(t)
  /\ record.key = bare.key /\ record.value = bare.value /\ record.headers = bare.headers \o t

\* A record that is decoded gives the event it would give without the headers of the
\* transport, and these beside it.
LEMMA ExtendedRecord ==
  ASSUME NEW record, NEW bare, NEW t, Extends(record, bare, t), NEW lim,
         lim.MaxKafkaHeaders \in Int, NEW r \in DecodeKafka(record, lim), r.err = Nil
  PROVE  /\ \E q \in DecodeKafka(bare, lim) : q.err = Nil /\ q.value.event = r.value.event
         /\ r.value.key = record.key
         /\ r.value.transportHeaders = t
<1> DEFINE hs == bare.headers
           all == record.headers
           types == collected(all, ownedBy(all, "content-type"))
           ct == IF types = {} THEN "" ELSE soleValue(types)
           headers == cloudEventHeaders(all)
           rejected(x) == recordFailures(x, lim) ?? headerFailures(x.headers, lim)
           wrapped(x, m, event) ==
             [mode |-> m, event |-> event, key |-> x.key, transportHeaders |-> transportHeaders(x.headers)]
           received(x, m, c, h) ==
             IF m.err # Nil THEN {m}
             ELSE {[p EXCEPT !.value = IF p.err # Nil THEN Nil ELSE wrapped(x, m.value, @)]
                   : p \in decodeKafkaEvent(m.value, x, c, h, lim)}
           taken(x, y, c, h) == UNION {received(x, m, c, h) : m \in detectKafkaMode(y)}
           results(x) == taken(x, types, ct, headers)
           bareTypes == collected(bare.headers, ownedBy(bare.headers, "content-type"))
           bareType == IF bareTypes = {} THEN "" ELSE soleValue(bareTypes)
           bareHeaders == cloudEventHeaders(bare.headers)
<1>e. /\ OfBinding(hs) /\ OfTransport(t)
      /\ record.key = bare.key /\ record.value = bare.value /\ all = hs \o t
  BY DEF Extends
<1>1. /\ types = collected(hs, ownedBy(hs, "content-type"))
      /\ headers = cloudEventHeaders(hs)
  BY <1>e, BindingHeaders DEF OfBinding
<1>2. DecodeKafka(record, lim) = IF rejected(record) # {} THEN Returns(rejected(record), Nil) ELSE results(record)
  BY DEF DecodeKafka, contentTypesOf, recordType
<1>3. DecodeKafka(bare, lim) = IF rejected(bare) # {} THEN Returns(rejected(bare), Nil) ELSE results(bare)
  <2>1. DecodeKafka(bare, lim) = IF rejected(bare) # {} THEN Returns(rejected(bare), Nil)
                                 ELSE taken(bare, bareTypes, bareType, bareHeaders)
    BY DEF DecodeKafka, contentTypesOf, recordType
  <2>2. bareTypes = types /\ bareHeaders = headers
    BY <1>1
  <2> HIDE DEF types, headers, bareTypes, bareHeaders
  <2>3. bareType = ct
    BY <2>2
  <2> HIDE DEF taken, bareType, ct, rejected
  <2> QED BY <2>1, <2>2, <2>3
<1>4. Nil \notin rejected(record)
  <2>1. Nil \notin recordFailures(record, lim)
    BY ErrorsAreNotNil DEF recordFailures, When, Errors
  <2>2. \A h : Nil \notin headerFailure(h, lim)
    BY ErrorsAreNotNil DEF headerFailure, When, ??, Errors
  <2>3. Nil \notin headerFailures(record.headers, lim)
    BY <2>2 DEF headerFailures
  <2> QED BY <2>1, <2>3, StagesFailWithErrors
<1> HIDE DEF types, headers, ct
<1>5. rejected(record) = {}
  BY <1>2, <1>4, ReturnsEither
<1>6. recordFailures(record, lim) = {} /\ headerFailures(all, lim) = {}
  BY <1>5 DEF ??
<1>c. /\ Len(hs) \in Nat /\ Len(t) \in Nat /\ Len(all) = Len(hs) + Len(t)
      /\ DOMAIN hs = 1..Len(hs) /\ DOMAIN all = 1..(Len(hs) + Len(t))
      /\ \A i \in DOMAIN hs : all[i] = hs[i]
  BY <1>e, Concatenated DEF OfBinding, OfTransport
<1>7. recordFailures(bare, lim) = {}
  <2>1. ~(Len(all) > lim.MaxKafkaHeaders) BY <1>6 DEF recordFailures, When
  <2>2. ~(Len(hs) > lim.MaxKafkaHeaders) BY <1>c, <2>1
  <2> QED BY <1>e, <1>6, <2>2 DEF recordFailures, When
<1>8. headerFailures(bare.headers, lim) = {}
  <2> DEFINE failing(q) == {i \in DOMAIN q : headerFailure(q[i], lim) # {}}
  <2>1. DOMAIN all \subseteq Nat /\ DOMAIN hs \subseteq DOMAIN all
    BY <1>c
  <2>2. failing(all) = {}
    <3> SUFFICES ASSUME failing(all) # {} PROVE FALSE OBVIOUS
    <3>1. headerFailures(all, lim) = headerFailure(all[Min(failing(all))], lim)
      BY DEF headerFailures
    <3>2. Min(failing(all)) \in failing(all)
      BY <2>1, MinOfNaturals
    <3> QED BY <1>6, <3>1, <3>2
  <2>3. failing(hs) = {}
    BY <1>c, <2>1, <2>2
  <2>4. headerFailures(hs, lim) = {}
    BY <2>3 DEF headerFailures
  <2> QED BY <2>4
<1>9. rejected(bare) = {}
  BY <1>7, <1>8 DEF ??
<1> HIDE DEF rejected
<1>10. r \in results(record) /\ DecodeKafka(bare, lim) = results(bare)
  BY <1>2, <1>3, <1>5, <1>9
<1>11. PICK m \in detectKafkaMode(types) :
         r \in (IF m.err # Nil THEN {m}
                ELSE {[p EXCEPT !.value = IF p.err # Nil THEN Nil ELSE wrapped(record, m.value, @)]
                      : p \in decodeKafkaEvent(m.value, record, ct, headers, lim)})
  BY <1>10
<1>12. m.err = Nil
  BY <1>11
<1>13. PICK p \in decodeKafkaEvent(m.value, record, ct, headers, lim) :
         r = [p EXCEPT !.value = IF p.err # Nil THEN Nil ELSE wrapped(record, m.value, @)]
  BY <1>11, <1>12
<1>14. p = [value |-> p.value, err |-> p.err]
  BY DecodeKafkaEventResult DEF EventResult
<1>15. decodeKafkaEvent(m.value, record, ct, headers, lim) = decodeKafkaEvent(m.value, bare, ct, headers, lim)
  BY <1>e DEF decodeKafkaEvent
<1> DEFINE q == [p EXCEPT !.value = IF p.err # Nil THEN Nil ELSE wrapped(bare, m.value, @)]
<1>16. q \in results(bare)
  <2>1. p \in decodeKafkaEvent(m.value, bare, ct, headers, lim) BY <1>15
  <2>2. q \in received(bare, m, ct, headers) BY <1>12, <2>1
  <2> HIDE DEF received
  <2> QED BY <2>2
<1>17. /\ \A x, event : wrapped(x, m.value, event).event = event
       /\ wrapped(record, m.value, p.value).key = record.key
       /\ wrapped(record, m.value, p.value).transportHeaders = transportHeaders(all)
  OBVIOUS
<1> HIDE DEF wrapped, results
<1>18. p.err = Nil /\ r.value = wrapped(record, m.value, p.value)
  BY <1>13, <1>14
<1>19. q.err = Nil /\ q.value = wrapped(bare, m.value, p.value)
  BY <1>14, <1>18
<1>20. transportHeaders(all) = t
  BY <1>e, TransportRecovered
<1> HIDE DEF q
<1>21. q \in DecodeKafka(bare, lim) /\ q.err = Nil /\ q.value.event = r.value.event
  BY <1>10, <1>16, <1>17, <1>18, <1>19
<1> QED BY <1>17, <1>18, <1>20, <1>21

-----------------------------------------------------------------------------
(* What a message in flight carries.                                        *)

kafkaValue(mode, e)   == IF mode = "binary" THEN binaryValue(e) ELSE encodeJSON(e)
kafkaHeaders(mode, e) == IF mode = "binary" THEN encodeKafkaBinaryHeaders(e) ELSE JSONHeaders

\* A record as EncodeKafka writes it without a loss, under whatever key, followed by
\* headers of the transport.
CarriesKafka(e, message) ==
  LET t == transportHeaders(message.headers) IN
  /\ OfTransport(t)
  /\ \E mode \in {"binary", "structured"} :
       /\ reported(mode, e) = {}
       /\ message = [key |-> message.key, value |-> kafkaValue(mode, e),
                     headers |-> kafkaHeaders(mode, e) \o t]

\* A message as EncodeRabbit writes it, whatever others have made of its other fields.
CarriesRabbit(e, message) ==
  /\ jsonConversionReport(e) = {}
  /\ message = [stream |-> message.stream, superStream |-> message.superStream,
                partition |-> message.partition, hasOffset |-> message.hasOffset,
                offset |-> message.offset, routingKey |-> message.routingKey,
                messageID |-> message.messageID, contentType |-> message.contentType,
                payload |-> encodeJSON(e), properties |-> message.properties]
  /\ IsSequence(message.properties)

LEMMA WrittenHeaders ==
  ASSUME NEW e, WholeEvent(e), ClosedStrings, NEW mode
  PROVE  OfBinding(kafkaHeaders(mode, e))
<1>h. \A owner, name, value : Header(owner, name, value).owner = owner
  BY DEF Header
<1>1. CASE mode = "binary"
  <2> DEFINE c == contextAttributes(e)
             S == contextHeaders(c, binaryTypes(e))
             hs == encodeKafkaBinaryHeaders(e)
  <2>1. hs \in Seq(S)
    BY KafkaHeadersWritten DEF Enumerates
  <2>2. ASSUME NEW x \in S PROVE x.owner # "transport"
    <3>1. x.owner = "ce" \/ x.owner = "content-type"
      <4>1. CASE \E n \in DOMAIN c : x = Header("ce", n, c[n])
        BY <1>h, <4>1
      <4>2. CASE \E y \in binaryTypes(e) : x = Header("content-type", "", y)
        <5>1. PICK y \in binaryTypes(e) : x = Header("content-type", "", y) BY <4>2
        <5> DEFINE h == Header("content-type", "", y)
        <5>2. h.owner = "content-type" BY <1>h
        <5>3. x = h BY <5>1
        <5> HIDE DEF h
        <5> QED BY <5>2, <5>3
      <4> QED BY <4>1, <4>2 DEF contextHeaders
    <3> QED BY <3>1
  <2> HIDE DEF S, hs
  <2>3. \A i \in DOMAIN hs : hs[i] \in S
    BY <2>1
  <2>4. OfBinding(hs)
    BY <2>1, <2>2, <2>3, SequenceOfMembers DEF OfBinding
  <2> QED BY <1>1, <2>4 DEF kafkaHeaders, hs
<1>2. CASE mode # "binary"
  <2> DEFINE h == Header("content-type", "", JSONMediaType)
             hs == <<h>>
  <2>1. h.owner = "content-type" BY <1>h
  <2> HIDE DEF h
  <2>2. hs \in Seq({h}) /\ DOMAIN hs = {1} /\ hs[1] = h
    OBVIOUS
  <2> HIDE DEF hs
  <2>3. OfBinding(hs)
    BY <2>1, <2>2, SequenceOfMembers DEF OfBinding
  <2>4. hs = JSONHeaders BY DEF hs, h, JSONHeaders
  <2> QED BY <1>2, <2>3, <2>4 DEF kafkaHeaders
<1> QED BY <1>1, <1>2

\* An event none of whose crossings goes unreported.
ExactEvent(e) == \A mode \in {"binary", "structured"} : ~Unreported(e, "kafka", mode)

\* Whatever is decoded from a record in flight is the event it carries.
LEMMA KafkaForwarded ==
  ASSUME NEW e, WholeEvent(e), ClosedStrings, ExactEvent(e), NEW message, CarriesKafka(e, message),
         NEW lim, lim.MaxKafkaHeaders \in Int, NEW r \in DecodeKafkaRecord(message, lim), r.err = Nil
  PROVE  /\ r.value.event = e
         /\ r.value.key = message.key
         /\ r.value.transportHeaders = transportHeaders(message.headers)
<1> DEFINE t == transportHeaders(message.headers)
<1>1. PICK mode \in {"binary", "structured"} :
        /\ reported(mode, e) = {}
        /\ message = [key |-> message.key, value |-> kafkaValue(mode, e),
                      headers |-> kafkaHeaders(mode, e) \o t]
  BY DEF CarriesKafka
<1> DEFINE hs == kafkaHeaders(mode, e)
           v == kafkaValue(mode, e)
           bare == [key |-> message.key, value |-> v, headers |-> hs]
<1>2. OfTransport(t) /\ OfBinding(hs)
  BY WrittenHeaders DEF CarriesKafka
<1>3. r \in DecodeKafka(message, lim)
  <2>1. \A x \in Returns({ErrLimitExceeded}, Nil) : x.err # Nil
    BY ErrorsAreNotNil DEF Returns, Errors
  <2> QED BY <2>1 DEF DecodeKafkaRecord
<1> HIDE DEF hs, v, t
<1>4. message.value = v /\ message.headers = hs \o t
  BY <1>1 DEF hs, v
<1>5. bare.key = message.key /\ bare.value = message.value /\ bare.headers = hs
  BY <1>4
<1> HIDE DEF bare
<1>e. Extends(message, bare, t)
  BY <1>2, <1>4, <1>5 DEF Extends
<1>6. /\ \E q \in DecodeKafka(bare, lim) : q.err = Nil /\ q.value.event = r.value.event
      /\ r.value.key = message.key
      /\ r.value.transportHeaders = t
  BY <1>3, <1>e, ExtendedRecord
<1>7. PICK q \in DecodeKafka(bare, lim) : q.err = Nil /\ q.value.event = r.value.event
  BY <1>6
<1>8. q.value.event = e
  <2>1. CASE mode = "binary"
    <3>1. bare.value = binaryValue(e) /\ bare.headers = encodeKafkaBinaryHeaders(e)
      BY <1>4, <1>5, <2>1 DEF hs, v, kafkaHeaders, kafkaValue
    <3>2. Arrives(e, Unreported(e, "kafka", "binary"), binaryConversionReport(e), q.value.event)
      BY <1>7, <3>1, KafkaBinaryCrossing
    <3>3. ~Unreported(e, "kafka", "binary") /\ binaryConversionReport(e) = {}
      BY <1>1, <2>1 DEF ExactEvent, reported
    <3> QED BY <3>2, <3>3 DEF Arrives
  <2>2. CASE mode = "structured"
    <3>1. bare.value = encodeJSON(e) /\ bare.headers = JSONHeaders
      BY <1>4, <1>5, <2>2 DEF hs, v, kafkaHeaders, kafkaValue
    <3>2. Arrives(e, Unreported(e, "kafka", "structured"), jsonConversionReport(e), q.value.event)
      BY <1>7, <3>1, KafkaStructuredCrossing
    <3>3. ~Unreported(e, "kafka", "structured") /\ jsonConversionReport(e) = {}
      BY <1>1, <2>2 DEF ExactEvent, reported
    <3> QED BY <3>2, <3>3 DEF Arrives
  <2> QED BY <2>1, <2>2
<1> QED BY <1>6, <1>7, <1>8 DEF t

LEMMA ClonedMetadata ==
  ASSUME NEW s, IsSequence(s) PROVE cloneMetadata(s) = s
  BY DEF cloneMetadata, IsSequence

\* A routing key a stream consumer accepts for an event.
StreamKey(e, k) == KafkaPartitionKey(e) # Nil => k \in {"", KafkaPartitionKey(e)}

\* Whatever is decoded from a stream message in flight is the event it carries, and its
\* routing key does not contradict the event.
LEMMA RabbitForwarded ==
  ASSUME NEW e, WholeEvent(e), ClosedStrings, ExactEvent(e), NEW message, CarriesRabbit(e, message),
         NEW lim, NEW r \in DecodeRabbit(message, lim), r.err = Nil
  PROVE  /\ r.value.event = e
         /\ r.value.properties = message.properties
         /\ StreamKey(e, message.routingKey)
<1> DEFINE failures == validateMessage(message)
                       ?? When(MediaClass(message.contentType) # "ce+json", ErrUnsupportedMode)
           collisions(event) ==
             When(\/ message.messageID \notin {"", event.id}
                  \/ keyCollision(event, message.routingKey, ""), ErrMetadataCollision)
           given(event) == [event |-> event, properties |-> cloneMetadata(message.properties)]
           got(d) == IF d.err # Nil THEN {d} ELSE Returns(collisions(d.value), given(d.value))
<1>1. r \in (IF failures # {} THEN Returns(failures, Nil)
             ELSE UNION {got(d) : d \in DecodeJSON(message.payload, lim)})
  BY DEF DecodeRabbit
<1>2. Nil \notin failures
  BY ErrorsAreNotNil, ValidationErrorAssumption DEF validateMessage, When, ??, Errors
<1>3. \A event : given(event).event = event /\ given(event).properties = cloneMetadata(message.properties)
  OBVIOUS
<1>4. \A event : /\ collisions(event) = {} => ~keyCollision(event, message.routingKey, "")
                 /\ Nil \notin collisions(event)
  BY ErrorsAreNotNil DEF When
<1> HIDE DEF failures, collisions, given
<1>5. failures = {}
  BY <1>1, <1>2, ReturnsEither
<1>6. PICK d \in DecodeJSON(message.payload, lim) : r \in got(d)
  BY <1>1, <1>5
<1>7. d.err = Nil /\ r \in Returns(collisions(d.value), given(d.value))
  BY <1>6
<1>8. collisions(d.value) = {} /\ r.value = given(d.value)
  BY <1>4, <1>7, ReturnsEither
<1>9. d.value = e
  <2>1. message.payload = encodeJSON(e) /\ jsonConversionReport(e) = {}
    BY DEF CarriesRabbit
  <2>2. Arrives(e, JSONUnreported(e), jsonConversionReport(e), d.value)
    BY <1>6, <1>7, <2>1, JSONArrives
  <2>3. ~JSONUnreported(e)
    BY DEF ExactEvent, Unreported, JSONUnreported
  <2> QED BY <2>1, <2>2, <2>3 DEF Arrives
<1>10. cloneMetadata(message.properties) = message.properties
  BY ClonedMetadata DEF CarriesRabbit
<1>11. StreamKey(e, message.routingKey)
  BY <1>4, <1>8, <1>9 DEF keyCollision, StreamKey
<1> QED BY <1>3, <1>8, <1>9, <1>10, <1>11

-----------------------------------------------------------------------------
(* What the encoders send.                                                  *)

\* A record of the binding, with the key it was given and what its report names.
LEMMA KafkaWritten ==
  ASSUME NEW e, Validate(e) = {}, NEW mode, NEW k, NEW q \in EncodeKafkaWithReport(e, mode, k)
  PROVE  /\ q = [value |-> q.value, err |-> q.err]
         /\ q.err = Nil =>
              /\ mode \in {"binary", "structured"}
              /\ q.value.message = [key |-> k, value |-> kafkaValue(mode, e), headers |-> kafkaHeaders(mode, e)]
              /\ q.value.report = reported(mode, e)
<1> DEFINE msg == [key |-> k, value |-> kafkaValue(mode, e), headers |-> kafkaHeaders(mode, e)]
           R == reported(mode, e)
<1>1. CASE mode = "binary"
  <2>1. q \in Returns(Validate(e), [message |-> msg, report |-> R])
    BY <1>1 DEF EncodeKafkaWithReport, binaryValue, kafkaValue, kafkaHeaders, reported
  <2> HIDE DEF msg, R
  <2>2. q.value.message = msg /\ q.value.report = R /\ q = [value |-> q.value, err |-> q.err]
    BY <2>1 DEF Returns
  <2> QED BY <1>1, <2>2 DEF msg, R
<1>2. CASE mode = "structured"
  <2>1. PICK j \in EncodeJSONWithReport(e) :
          q = [j EXCEPT !.value = IF j.err # Nil THEN Nil
                 ELSE [message |-> [key |-> k, value |-> @.body, headers |-> JSONHeaders],
                       report |-> @.report]]
    BY <1>2 DEF EncodeKafkaWithReport, JSONHeaders
  <2>2. msg = [key |-> k, value |-> encodeJSON(e), headers |-> JSONHeaders] /\ R = jsonConversionReport(e)
    BY <1>2 DEF kafkaValue, kafkaHeaders, reported
  <2>3. j = [value |-> [body |-> encodeJSON(e), report |-> jsonConversionReport(e)], err |-> Nil]
    BY EncodeJSONValid
  <2> HIDE DEF msg, R
  <2>4. q.value.message = msg /\ q.value.report = R /\ q = [value |-> q.value, err |-> q.err]
    BY <2>1, <2>2, <2>3
  <2> QED BY <1>2, <2>4 DEF msg, R
<1>3. CASE mode \notin {"binary", "structured"}
  <2>1. q \in Returns({ErrUnsupportedMode}, Nil)
    BY <1>3 DEF EncodeKafkaWithReport
  <2>2. q.err = ErrUnsupportedMode /\ q = [value |-> q.value, err |-> q.err]
    BY <2>1 DEF Returns
  <2> QED BY <2>2, ErrorsAreNotNil DEF Errors
<1> QED BY <1>1, <1>2, <1>3

\* A strict encoder returns what its reporting form does, if the report is empty.
LEMMA StrictResult ==
  ASSUME NEW results, \A q \in results : q = [value |-> q.value, err |-> q.err],
         NEW r \in strictly(results)
  PROVE  /\ r = [value |-> r.value, err |-> r.err]
         /\ r.err = Nil => r \in results /\ r.value.report = {}
<1>1. PICK q \in results :
        r \in (IF q.err # Nil THEN {q} ELSE Returns(rejectConversionLoss(q.value.report), q.value))
  BY DEF strictly
<1>2. CASE q.err # Nil
  BY <1>1, <1>2
<1>3. CASE q.err = Nil
  <2> DEFINE F == rejectConversionLoss(q.value.report)
  <2>1. r \in Returns(F, q.value) BY <1>1, <1>3
  <2>2. Nil \notin F /\ (F = {} => q.value.report = {})
    BY ErrorsAreNotNil DEF rejectConversionLoss, When, Errors
  <2> HIDE DEF F
  <2>3. r = [value |-> r.value, err |-> r.err] /\ (r.err = Nil => F = {} /\ r.value = q.value)
    BY <2>1, <2>2, ReturnsEither
  <2>4. r.err = Nil => r = q
    <3>1. q = [value |-> q.value, err |-> q.err] OBVIOUS
    <3> QED BY <1>3, <2>3, <3>1
  <2> QED BY <1>1, <2>2, <2>3, <2>4
<1> QED BY <1>2, <1>3

\* What kafka.Encode sends carries the event under the agreed key, and the metadata.
LEMMA KafkaSent ==
  ASSUME NEW e, WholeEvent(e), ClosedStrings, NEW mode, NEW transport, IsSequence(transport.headers),
         NEW r \in EncodeKafka(e, mode, transport), r.err = Nil
  PROVE  /\ CarriesKafka(e, r.value)
         /\ r.value.key = agreedKey(e, transport.key)
         /\ transportHeaders(r.value.headers) = transport.headers
<1> DEFINE t == transport.headers
           k == agreedKey(e, transport.key)
           failures == When(\/ keyCollision(e, transport.key, Nil)
                            \/ ownedHeaders(t) # {}, ErrMetadataCollision)
           results == EncodeKafkaWithReport(e, mode, k)
           sent == {[q EXCEPT !.value = IF q.err # Nil THEN Nil ELSE extended(@.message, t)]
                    : q \in strictly(results)}
<1>1. EncodeKafka(e, mode, transport) = IF failures # {} THEN Returns(failures, Nil) ELSE sent
  BY DEF EncodeKafka
<1>2. Nil \notin failures /\ (failures = {} => ownedHeaders(t) = {})
  BY ErrorsAreNotNil DEF When
<1>v. Validate(e) = {} BY DEF WholeEvent, ValidEvent
<1>3. \A q \in results : /\ q = [value |-> q.value, err |-> q.err]
                         /\ q.err = Nil =>
                              /\ mode \in {"binary", "structured"}
                              /\ q.value.message = [key |-> k, value |-> kafkaValue(mode, e),
                                                    headers |-> kafkaHeaders(mode, e)]
                              /\ q.value.report = reported(mode, e)
  BY <1>v, KafkaWritten
<1> HIDE DEF failures, results
<1>4. failures = {} /\ r \in sent
  <2> HIDE DEF sent
  <2> QED BY <1>1, <1>2, ReturnsEither
<1>5. OfTransport(t)
  BY <1>2, <1>4 DEF OfTransport, ownedHeaders
<1>6. PICK q \in strictly(results) :
        r = [q EXCEPT !.value = IF q.err # Nil THEN Nil ELSE extended(@.message, t)]
  BY <1>4
<1>7. /\ q = [value |-> q.value, err |-> q.err]
      /\ q.err = Nil => q \in results /\ q.value.report = {}
  BY <1>3, StrictResult
<1>8. q.err = Nil /\ r.value = extended(q.value.message, t)
  BY <1>6, <1>7
<1> DEFINE hs == kafkaHeaders(mode, e)
           v == kafkaValue(mode, e)
<1>9. mode \in {"binary", "structured"} /\ reported(mode, e) = {}
      /\ q.value.message = [key |-> k, value |-> v, headers |-> hs]
  BY <1>3, <1>7, <1>8
<1>10. OfBinding(hs)
  BY WrittenHeaders
<1>11. transportHeaders(hs \o t) = t
  BY <1>5, <1>10, TransportRecovered
<1> HIDE DEF hs, v, k, t
<1>12. r.value = [key |-> k, value |-> v, headers |-> hs \o t]
  <2> DEFINE x == q.value.message
             c == x.headers \o t
  <2>1. r.value = [x EXCEPT !.headers = c]
    BY <1>8, Zenon DEF extended
  <2>2. x = [key |-> k, value |-> v, headers |-> hs]
    BY <1>9
  <2> HIDE DEF x
  <2>3. c = hs \o t
    BY <2>2
  <2> HIDE DEF c
  <2>4. r.value = [key |-> k, value |-> v, headers |-> c]
    BY <2>1, <2>2
  <2> QED BY <2>3, <2>4
<1>13. r.value.key = k /\ r.value.headers = hs \o t
  BY <1>12
<1>14. CarriesKafka(e, r.value)
  BY <1>5, <1>9, <1>11, <1>12, <1>13 DEF CarriesKafka, hs, v
<1> QED BY <1>11, <1>13, <1>14 DEF k, t

\* The fields of a stream message.
streamMessage(s, u, p, h, o, k, i, c, b, q) ==
  [stream |-> s, superStream |-> u, partition |-> p, hasOffset |-> h, offset |-> o,
   routingKey |-> k, messageID |-> i, contentType |-> c, payload |-> b, properties |-> q]

LEMMA StreamMessage ==
  ASSUME NEW s, NEW u, NEW p, NEW h, NEW o, NEW k, NEW i, NEW c, NEW b, NEW q,
         NEW m, m = streamMessage(s, u, p, h, o, k, i, c, b, q)
  PROVE  /\ m.routingKey = k /\ m.payload = b /\ m.properties = q
         /\ m = streamMessage(m.stream, m.superStream, m.partition, m.hasOffset, m.offset,
                              m.routingKey, m.messageID, m.contentType, b, m.properties)
  BY DEF streamMessage

\* What rabbitstream.Encode sends carries the event under the agreed key, and the metadata.
LEMMA RabbitSent ==
  ASSUME NEW e, WholeEvent(e), NEW transport, IsSequence(transport.properties),
         NEW r \in EncodeRabbit(e, transport), r.err = Nil
  PROVE  /\ CarriesRabbit(e, r.value)
         /\ r.value.routingKey = agreedKey(e, transport.routingKey)
         /\ r.value.properties = transport.properties
<1> DEFINE failures == When(\/ (transport.stream = "") = (transport.superStream = "")
                            \/ keyCollision(e, transport.routingKey, ""), ErrMetadataCollision)
           k == agreedKey(e, transport.routingKey)
           p == cloneMetadata(transport.properties)
           no == FALSE
           message(payload) ==
             streamMessage(transport.stream, transport.superStream, "", no, 0, k, e.id, JSONMediaType,
                           payload, p)
           sent(q) == IF q.err # Nil THEN {q}
                      ELSE Returns(When(~ValidMessage(message(q.value.body)), ErrValidation),
                                   message(q.value.body))
           results == EncodeJSONWithReport(e)
           all == UNION {sent(q) : q \in strictly(results)}
<1>1. EncodeRabbit(e, transport) = IF failures # {} THEN Returns(failures, Nil) ELSE all
  BY DEF EncodeRabbit, streamMessage
<1>2. Nil \notin failures
  BY ErrorsAreNotNil DEF When
<1>v. Validate(e) = {} BY DEF WholeEvent, ValidEvent
<1>3. \A q \in results :
        q = [value |-> [body |-> encodeJSON(e), report |-> jsonConversionReport(e)], err |-> Nil]
  BY <1>v, EncodeJSONValid
<1>4. p = transport.properties
  BY ClonedMetadata
<1>5. \A x : Nil \notin When(~ValidMessage(message(x)), ErrValidation)
  BY ValidationErrorAssumption DEF When
<1> HIDE DEF failures, results, p, k, no
<1>6. failures = {} /\ r \in all
  <2> HIDE DEF all
  <2> QED BY <1>1, <1>2, ReturnsEither
<1>7. PICK q \in strictly(results) : r \in sent(q)
  <2> HIDE DEF sent
  <2> QED BY <1>6
<1>8. q.err = Nil => q \in results /\ q.value.report = {}
  <2>1. \A x \in results : x = [value |-> x.value, err |-> x.err]
    BY <1>3
  <2> QED BY <2>1, StrictResult
<1>9. q.err = Nil
  BY <1>7
<1>10. q.value.body = encodeJSON(e) /\ jsonConversionReport(e) = {}
  <2>1. q = [value |-> [body |-> encodeJSON(e), report |-> jsonConversionReport(e)], err |-> Nil]
    BY <1>3, <1>8, <1>9
  <2>2. q.value.body = encodeJSON(e) /\ q.value.report = jsonConversionReport(e)
    BY <2>1
  <2> QED BY <1>8, <1>9, <2>2
<1>11. r.value = message(encodeJSON(e))
  <2> HIDE DEF message
  <2>1. r \in Returns(When(~ValidMessage(message(q.value.body)), ErrValidation), message(q.value.body))
    BY <1>7, <1>9
  <2>2. r.value = message(q.value.body)
    BY <1>5, <2>1, ReturnsEither
  <2> QED BY <1>10, <2>2
<1> DEFINE m == r.value
<1>m. m = streamMessage(transport.stream, transport.superStream, "", no, 0, k, e.id, JSONMediaType,
                        encodeJSON(e), p)
  BY <1>11
<1>12. /\ m.routingKey = k /\ m.payload = encodeJSON(e) /\ m.properties = p
       /\ m = streamMessage(m.stream, m.superStream, m.partition, m.hasOffset, m.offset,
                            m.routingKey, m.messageID, m.contentType, encodeJSON(e), m.properties)
  <2> DEFINE s == transport.stream
             u == transport.superStream
             i == e.id
             c == JSONMediaType
             b == encodeJSON(e)
             none == ""
             zero == 0
  <2>1. m = streamMessage(s, u, none, no, zero, k, i, c, b, p) BY <1>m
  <2> HIDE DEF m, s, u, i, c, b, none, zero
  <2>2. /\ m.routingKey = k /\ m.payload = b /\ m.properties = p
        /\ m = streamMessage(m.stream, m.superStream, m.partition, m.hasOffset, m.offset,
                             m.routingKey, m.messageID, m.contentType, b, m.properties)
    BY <2>1, StreamMessage
  <2> QED BY <2>2 DEF b
<1>14. CarriesRabbit(e, r.value)
  BY <1>4, <1>10, <1>12 DEF CarriesRabbit, streamMessage
<1> QED BY <1>4, <1>12, <1>14 DEF k

-----------------------------------------------------------------------------
(* The invariant.                                                           *)

\* RabbitMQ has no empty key.
keyRoute(k) == IF k = "" THEN Nil ELSE k

LEMMA Routes ==
  ASSUME NEW h
  PROVE  route(h) = keyRoute(agreedKey(h.event, h.key))
  BY DEF route, keyRoute

\* The form a key takes in either broker makes no difference to the route.
LEMMA RouteOfForms ==
  ASSUME NEW e, NEW k
  PROVE  /\ keyRoute(agreedKey(e, IF k = Nil THEN "" ELSE k)) = keyRoute(agreedKey(e, k))
         /\ keyRoute(agreedKey(e, IF k = "" THEN Nil ELSE k)) = keyRoute(agreedKey(e, k))
  BY NilAssumption DEF keyRoute, agreedKey

LEMMA AgreedKeyOfEvent ==
  ASSUME NEW e, NEW k, KafkaPartitionKey(e) # Nil
  PROVE  agreedKey(e, k) = KafkaPartitionKey(e)
  BY DEF agreedKey

LEMMA AgreedKeyOfTransport ==
  ASSUME NEW e, NEW k, KafkaPartitionKey(e) = Nil
  PROVE  agreedKey(e, k) = k
  BY DEF agreedKey

metadataOf(broker, message) ==
  IF broker = "kafka" THEN transportHeaders(message.headers) ELSE message.properties
sentKey(broker, message) == IF broker = "kafka" THEN message.key ELSE message.routingKey

CarriedBy(e, broker, message) ==
  \/ broker = "kafka" /\ CarriesKafka(e, message)
  \/ broker = "rabbit" /\ CarriesRabbit(e, message)

\* A message in flight carries the event; it has the metadata and the route of the
\* origin unless some message was rewritten, and the key of the event unless it was
\* rewritten itself.
MessageKept(o, dirty, broker, message, rewritten) ==
  /\ rewritten \in BOOLEAN
  /\ CarriedBy(o.event, broker, message)
  /\ rewritten => dirty
  /\ ~dirty => /\ metadataOf(broker, message) = o.metadata
               /\ keyRoute(sentKey(broker, message)) = route(o)
  /\ KafkaPartitionKey(o.event) # Nil /\ ~rewritten =>
       sentKey(broker, message) = KafkaPartitionKey(o.event)

\* So does what a service holds.
HeldKept(o, dirty, h) ==
  /\ h.event = o.event
  /\ IsSequence(h.metadata)
  /\ ~dirty => h.metadata = o.metadata /\ route(h) = route(o)
  /\ KafkaPartitionKey(o.event) # Nil /\ h.from = "rabbit" => h.key \in {Nil, KafkaPartitionKey(o.event)}

AllKept(o, dirty, messages) ==
  \A m \in messages : MessageKept(o, dirty, m.broker, m.message, m.touched)

ForwardInvariant ==
  /\ WholeEvent(origin.event) /\ IsSequence(origin.metadata)
  /\ touched \in BOOLEAN
  /\ Exact => HeldKept(origin, touched, held) /\ AllKept(origin, touched, inFlight)

LEMMA InitForward == Init => ForwardInvariant
<1> SUFFICES ASSUME Init PROVE ForwardInvariant
  OBVIOUS
<1>1. PICK o \in Origins :
        origin = [event |-> o.event, key |-> o.key, metadata |-> o.metadata, from |-> "app"]
  BY DEF Init
<1>2. origin.event = o.event /\ origin.metadata = o.metadata /\ origin.from = "app"
  BY <1>1
<1>3. WholeEvent(o.event) /\ IsSequence(o.metadata)
  BY OriginAssumption DEF WholeEvent, ValidEvent, IsSequence
<1>4. held = origin /\ inFlight = {} /\ touched = FALSE
  BY DEF Init
<1>5. origin.from # "rabbit"
  BY <1>2
<1>6. HeldKept(origin, touched, held) /\ AllKept(origin, touched, inFlight)
  <2> HIDE DEF Init
  <2> QED BY <1>2, <1>3, <1>4, <1>5 DEF HeldKept, AllKept
<1> QED BY <1>2, <1>3, <1>4, <1>6 DEF ForwardInvariant

\* What is kept stays kept when a message is rewritten.
LEMMA AllKeptLater ==
  ASSUME NEW o, NEW dirty \in BOOLEAN, NEW later \in BOOLEAN, dirty => later, NEW S, AllKept(o, dirty, S)
  PROVE  AllKept(o, later, S)
  BY DEF AllKept, MessageKept

\* A message that one party replaces: a rewritten one need only carry the event.
LEMMA ReplaceForward ==
  ASSUME ForwardInvariant, NEW m \in inFlight, NEW message, NEW by \in BOOLEAN,
         replace(m, message, by),
         Exact => CarriedBy(origin.event, m.broker, message),
         ~by => /\ metadataOf(m.broker, message) = metadataOf(m.broker, m.message)
                /\ sentKey(m.broker, message) = sentKey(m.broker, m.message)
  PROVE  ForwardInvariant'
<1> DEFINE new == [broker |-> m.broker, message |-> message, touched |-> m.touched \/ by]
           later == touched'
<1>1. /\ inFlight' = (inFlight \ {m}) \cup {new} /\ later = (touched \/ by)
      /\ origin' = origin /\ held' = held
  BY DEF replace
<1>2. touched \in BOOLEAN /\ later \in BOOLEAN /\ (touched => later)
  BY <1>1 DEF ForwardInvariant
<1>3. Exact' <=> Exact BY <1>1 DEF Exact
<1>4. new.broker = m.broker /\ new.message = message /\ new.touched = (m.touched \/ by)
  OBVIOUS
<1> HIDE DEF new, later
<1>5. ASSUME Exact
      PROVE  HeldKept(origin, later, held) /\ AllKept(origin, later, (inFlight \ {m}) \cup {new})
  <2>1. HeldKept(origin, touched, held) /\ AllKept(origin, touched, inFlight)
    BY <1>5 DEF ForwardInvariant
  <2>2. HeldKept(origin, later, held)
    BY <1>2, <2>1 DEF HeldKept
  <2>3. AllKept(origin, later, inFlight)
    BY <1>2, <2>1, AllKeptLater
  <2>4. MessageKept(origin, later, new.broker, new.message, new.touched)
    <3>1. MessageKept(origin, touched, m.broker, m.message, m.touched)
      BY <2>1 DEF AllKept
    <3> DEFINE b == m.broker
               x == m.message
               w == m.touched
               now == new.touched
    <3>2. CarriedBy(origin.event, b, message) BY <1>5
    <3>3. ~by => metadataOf(b, message) = metadataOf(b, x) /\ sentKey(b, message) = sentKey(b, x)
      OBVIOUS
    <3>4. MessageKept(origin, touched, b, x, w) BY <3>1
    <3>5. now = (w \/ by) BY <1>4
    <3> HIDE DEF b, x, w, now
    <3>6. later = (touched \/ by) BY <1>1
    <3>7. touched \in BOOLEAN BY <1>2
    <3>8. MessageKept(origin, later, b, message, now)
      BY ONLY <3>2, <3>3, <3>4, <3>5, <3>6, <3>7, by \in BOOLEAN, Zenon DEF MessageKept
    <3> QED BY <1>4, <3>8 DEF b, now
  <2> QED BY <2>2, <2>3, <2>4 DEF AllKept
<1>6. /\ WholeEvent(origin.event)' /\ IsSequence(origin.metadata)' /\ (touched \in BOOLEAN)'
  BY <1>1, <1>2 DEF ForwardInvariant, later
<1>7. ASSUME Exact' PROVE (HeldKept(origin, touched, held) /\ AllKept(origin, touched, inFlight))'
  BY <1>1, <1>3, <1>5, <1>7 DEF later
<1> QED BY <1>6, <1>7 DEF ForwardInvariant

LEMMA StreamFields ==
  ASSUME NEW e, NEW x, CarriesRabbit(e, x), NEW y,
         NEW s, NEW p, NEW h, NEW o, NEW k, NEW i, NEW c, NEW q, IsSequence(q),
         y = streamMessage(s, x.superStream, p, h, o, k, i, c, x.payload, q)
  PROVE  CarriesRabbit(e, y) /\ y.properties = q /\ y.routingKey = k
<1>1. x.payload = encodeJSON(e) /\ jsonConversionReport(e) = {}
  BY DEF CarriesRabbit
<1> DEFINE b == encodeJSON(e)
           u == x.superStream
<1>2. y = streamMessage(s, u, p, h, o, k, i, c, b, q)
  BY <1>1
<1> HIDE DEF b, u
<1>3. /\ y.routingKey = k /\ y.payload = b /\ y.properties = q
      /\ y = streamMessage(y.stream, y.superStream, y.partition, y.hasOffset, y.offset,
                           y.routingKey, y.messageID, y.contentType, b, y.properties)
  BY <1>2, StreamMessage
<1> QED BY <1>1, <1>3 DEF CarriesRabbit, streamMessage, b

\* What others change of a stream message: fields, never the payload.
LEMMA StreamChanges ==
  ASSUME NEW e, NEW x, CarriesRabbit(e, x)
  PROVE  /\ \A z, o : LET y == [x EXCEPT !.stream = "p", !.partition = "p", !.hasOffset = z, !.offset = o]
                    IN  CarriesRabbit(e, y) /\ y.properties = x.properties /\ y.routingKey = x.routingKey
         /\ \A k : CarriesRabbit(e, [x EXCEPT !.routingKey = k])
         /\ \A i : CarriesRabbit(e, [x EXCEPT !.messageID = i])
         /\ \A c : CarriesRabbit(e, [x EXCEPT !.contentType = c])
         /\ \A q : IsSequence(q) => CarriesRabbit(e, [x EXCEPT !.properties = q])
<1>1. IsSequence(x.properties) BY DEF CarriesRabbit
<1>2. x = streamMessage(x.stream, x.superStream, x.partition, x.hasOffset, x.offset,
                        x.routingKey, x.messageID, x.contentType, x.payload, x.properties)
  <2> DEFINE b == encodeJSON(e)
  <2>1. x = streamMessage(x.stream, x.superStream, x.partition, x.hasOffset, x.offset,
                          x.routingKey, x.messageID, x.contentType, b, x.properties)
    BY DEF CarriesRabbit, streamMessage
  <2> HIDE DEF b
  <2>2. x.payload = b BY <2>1 DEF streamMessage
  <2> QED BY <2>1, <2>2
<1> DEFINE s == x.stream
           u == x.superStream
           p == x.partition
           h == x.hasOffset
           o == x.offset
           k == x.routingKey
           i == x.messageID
           c == x.contentType
           b == x.payload
           q == x.properties
<1>3. x = streamMessage(s, u, p, h, o, k, i, c, b, q) BY <1>2
<1>4. ASSUME NEW s2, NEW p2, NEW h2, NEW o2, NEW k2, NEW i2, NEW c2, NEW q2, IsSequence(q2),
             NEW y, y = streamMessage(s2, u, p2, h2, o2, k2, i2, c2, b, q2)
      PROVE  CarriesRabbit(e, y) /\ y.properties = q2 /\ y.routingKey = k2
  BY <1>4, StreamFields
<1>5. IsSequence(q) BY <1>1
<1> HIDE DEF s, u, p, h, o, k, i, c, b, q
<1>6. ASSUME NEW z, NEW n
      PROVE  LET y == [x EXCEPT !.stream = "p", !.partition = "p", !.hasOffset = z, !.offset = n]
             IN  CarriesRabbit(e, y) /\ y.properties = q /\ y.routingKey = k
  <2> DEFINE name == "p"
             y == [x EXCEPT !.stream = name, !.partition = name, !.hasOffset = z, !.offset = n]
  <2> HIDE DEF name
  <2>1. y = streamMessage(name, u, name, z, n, k, i, c, b, q)
    <3> DEFINE y1 == [x EXCEPT !.stream = name]
               y2 == [y1 EXCEPT !.partition = name]
               y3 == [y2 EXCEPT !.hasOffset = z]
               y4 == [y3 EXCEPT !.offset = n]
    <3>0. y = y4 OBVIOUS
    <3> HIDE DEF y
    <3>1. y1 = streamMessage(name, u, p, h, o, k, i, c, b, q)
      BY <1>3 DEF streamMessage
    <3> HIDE DEF y1
    <3>2. y2 = streamMessage(name, u, name, h, o, k, i, c, b, q)
      BY <3>1 DEF streamMessage
    <3> HIDE DEF y2
    <3>3. y3 = streamMessage(name, u, name, z, o, k, i, c, b, q)
      BY <3>2 DEF streamMessage
    <3> HIDE DEF y3
    <3>4. y4 = streamMessage(name, u, name, z, n, k, i, c, b, q)
      BY <3>3 DEF streamMessage
    <3> QED BY <3>0, <3>4
  <2> HIDE DEF y
  <2>2. CarriesRabbit(e, y) /\ y.properties = q /\ y.routingKey = k
    BY <1>4, <1>5, <2>1
  <2> QED BY <2>2 DEF y, name
<1>7. ASSUME NEW n PROVE CarriesRabbit(e, [x EXCEPT !.routingKey = n])
  <2> DEFINE y == [x EXCEPT !.routingKey = n]
  <2>1. y = streamMessage(s, u, p, h, o, n, i, c, b, q) BY <1>3 DEF streamMessage
  <2> HIDE DEF y
  <2>2. CarriesRabbit(e, y) BY <1>4, <1>5, <2>1
  <2> QED BY <2>2 DEF y
<1>8. ASSUME NEW n PROVE CarriesRabbit(e, [x EXCEPT !.messageID = n])
  <2> DEFINE y == [x EXCEPT !.messageID = n]
  <2>1. y = streamMessage(s, u, p, h, o, k, n, c, b, q) BY <1>3 DEF streamMessage
  <2> HIDE DEF y
  <2>2. CarriesRabbit(e, y) BY <1>4, <1>5, <2>1
  <2> QED BY <2>2 DEF y
<1>9. ASSUME NEW n PROVE CarriesRabbit(e, [x EXCEPT !.contentType = n])
  <2> DEFINE y == [x EXCEPT !.contentType = n]
  <2>1. y = streamMessage(s, u, p, h, o, k, i, n, b, q) BY <1>3 DEF streamMessage
  <2> HIDE DEF y
  <2>2. CarriesRabbit(e, y) BY <1>4, <1>5, <2>1
  <2> QED BY <2>2 DEF y
<1>10. ASSUME NEW n, IsSequence(n) PROVE CarriesRabbit(e, [x EXCEPT !.properties = n])
  <2> DEFINE y == [x EXCEPT !.properties = n]
  <2>1. y = streamMessage(s, u, p, h, o, k, i, c, b, n) BY <1>3 DEF streamMessage
  <2> HIDE DEF y
  <2>2. CarriesRabbit(e, y) BY <1>4, <1>10, <2>1
  <2> QED BY <2>2 DEF y
<1> QED BY <1>6, <1>7, <1>8, <1>9, <1>10 DEF q, k

LEMMA Appended ==
  ASSUME NEW s, IsSequence(s), NEW x
  PROVE  /\ IsSequence(Append(s, x)) /\ Len(s) \in Nat
         /\ DOMAIN Append(s, x) = 1..(Len(s) + 1) /\ DOMAIN s = 1..Len(s)
         /\ \A i \in DOMAIN s : Append(s, x)[i] = s[i]
         /\ Append(s, x)[Len(s) + 1] = x
<1> DEFINE S == {s[i] : i \in DOMAIN s} \cup {x}
<1>1. s \in Seq(S) /\ x \in S
  BY DEF IsSequence
<1> HIDE DEF S
<1>2. Append(s, x) \in Seq(S)
  BY <1>1
<1>3. IsSequence(Append(s, x))
  BY <1>2, SequenceOfMembers
<1> QED BY <1>1, <1>3

\* What others change of a record: its key, or a header of the transport more.
LEMMA RecordChanges ==
  ASSUME NEW e, WholeEvent(e), ClosedStrings, NEW x, CarriesKafka(e, x)
  PROVE  /\ \A k : CarriesKafka(e, [x EXCEPT !.key = k])
         /\ \A entry \in ForeignEntries : CarriesKafka(e, [x EXCEPT !.headers = Append(@, entry)])
<1> DEFINE t == transportHeaders(x.headers)
<1>1. PICK mode \in {"binary", "structured"} :
        /\ reported(mode, e) = {}
        /\ x = [key |-> x.key, value |-> kafkaValue(mode, e), headers |-> kafkaHeaders(mode, e) \o t]
  BY DEF CarriesKafka
<1> DEFINE v == kafkaValue(mode, e)
           hs == kafkaHeaders(mode, e)
           key == x.key
<1>2. OfTransport(t) /\ OfBinding(hs)
  BY WrittenHeaders DEF CarriesKafka
<1>3. ASSUME NEW k, NEW u, OfTransport(u), NEW y, y = [key |-> k, value |-> v, headers |-> hs \o u]
      PROVE  CarriesKafka(e, y)
  <2>1. transportHeaders(hs \o u) = u
    BY <1>2, <1>3, TransportRecovered
  <2> HIDE DEF hs, v
  <2>2. y.key = k /\ y.headers = hs \o u
    BY <1>3
  <2>3. y = [key |-> y.key, value |-> v, headers |-> hs \o u]
    BY <1>3, <2>2
  <2>4. transportHeaders(y.headers) = u
    BY <2>1, <2>2
  <2> QED BY <1>1, <1>3, <2>3, <2>4 DEF CarriesKafka, hs, v
<1>4. x = [key |-> key, value |-> v, headers |-> hs \o t]
  BY <1>1
<1> HIDE DEF t, v, hs, key
<1>5. ASSUME NEW k PROVE CarriesKafka(e, [x EXCEPT !.key = k])
  <2> DEFINE y == [x EXCEPT !.key = k]
             c == hs \o t
  <2>0. x = [key |-> key, value |-> v, headers |-> c] BY <1>4
  <2> HIDE DEF c
  <2>1. y = [key |-> k, value |-> v, headers |-> c] BY <2>0
  <2> HIDE DEF y
  <2>2. CarriesKafka(e, y) BY <1>2, <1>3, <2>1 DEF c
  <2> QED BY <2>2 DEF y
<1>6. ASSUME NEW entry \in ForeignEntries PROVE CarriesKafka(e, [x EXCEPT !.headers = Append(@, entry)])
  <2> DEFINE u == Append(t, entry)
             y == [x EXCEPT !.headers = Append(@, entry)]
             c == hs \o t
             d == hs \o u
             a == Append(c, entry)
  <2>1. entry.owner = "transport" BY ForeignEntryAssumption
  <2>2. IsSequence(t) /\ IsSequence(hs) BY <1>2 DEF OfTransport, OfBinding
  <2>3. /\ IsSequence(u) /\ Len(t) \in Nat /\ DOMAIN t = 1..Len(t) /\ DOMAIN u = 1..(Len(t) + 1)
        /\ \A i \in DOMAIN t : u[i] = t[i]
        /\ u[Len(t) + 1] = entry
    BY <2>2, Appended
  <2> HIDE DEF u
  <2>4. OfTransport(u)
    <3> SUFFICES ASSUME NEW i \in DOMAIN u PROVE u[i].owner = "transport"
      BY <2>3 DEF OfTransport
    <3>1. i \in DOMAIN t \/ i = Len(t) + 1 BY <2>3
    <3> QED BY <1>2, <2>1, <2>3, <3>1 DEF OfTransport
  <2>5. a = d
    <3> DEFINE S == {hs[i] : i \in DOMAIN hs} \cup {t[i] : i \in DOMAIN t} \cup {entry}
    <3>1. hs \in Seq(S) /\ t \in Seq(S) /\ entry \in S
      BY <2>2 DEF IsSequence
    <3> HIDE DEF S
    <3>2. u \in Seq(S) /\ Len(u) = Len(t) + 1 BY <3>1 DEF u
    <3>3. a \in Seq(S) /\ d \in Seq(S) /\ Len(a) = Len(d) /\ Len(a) = Len(hs) + Len(t) + 1
      BY <3>1, <3>2
    <3>4. ASSUME NEW i \in 1..Len(a) PROVE a[i] = d[i]
      BY <3>1, <3>2, <3>3 DEF u
    <3>5. a \in Seq(S) /\ d \in Seq(S) /\ Len(a) = Len(d) /\ \A i \in 1..Len(a) : a[i] = d[i]
      BY <3>3, <3>4
    <3> HIDE DEF a, d
    <3> QED BY <3>5
  <2>6. y = [key |-> key, value |-> v, headers |-> a]
    <3>1. x = [key |-> key, value |-> v, headers |-> c] BY <1>4
    <3> HIDE DEF c
    <3>2. x.headers = c BY <3>1
    <3>3. y = [x EXCEPT !.headers = Append(x.headers, entry)] OBVIOUS
    <3>4. y = [x EXCEPT !.headers = a] BY <3>2, <3>3
    <3> HIDE DEF a, y
    <3> QED BY <3>1, <3>4
  <2> HIDE DEF y, a
  <2>7. CarriesKafka(e, y) BY <1>3, <2>4, <2>5, <2>6
  <2> QED BY <2>7 DEF y
<1> QED BY <1>5, <1>6

-----------------------------------------------------------------------------
(* The steps.                                                               *)

LEMMA ExactOrigin == Exact => ExactEvent(origin.event)
  BY DEF Exact, ExactEvent, Modes

LEMMA SendForward ==
  ASSUME ForwardInvariant, NEW broker, NEW results, send(broker, results),
         Exact => \A r \in results : \A no : r.err = Nil /\ no = FALSE =>
                    MessageKept(origin, touched, broker, r.value, no)
  PROVE  ForwardInvariant'
<1>1. origin' = origin /\ held' = held /\ touched' = touched
  BY DEF send
<1>2. PICK r \in results :
        inFlight' = IF r.err # Nil THEN inFlight
                    ELSE inFlight \cup {[broker |-> broker, message |-> r.value, touched |-> FALSE]}
  BY DEF send
<1>3. Exact' <=> Exact BY <1>1 DEF Exact
<1>4. ASSUME Exact PROVE AllKept(origin, touched, inFlight')
  <2>1. AllKept(origin, touched, inFlight)
    BY <1>4 DEF ForwardInvariant
  <2>2. CASE r.err # Nil
    BY <1>2, <2>1, <2>2
  <2>3. CASE r.err = Nil
    <3> DEFINE new == [broker |-> broker, message |-> r.value, touched |-> FALSE]
               no == new.touched
    <3>1. new.broker = broker /\ new.message = r.value /\ no = FALSE
      OBVIOUS
    <3>2. inFlight' = inFlight \cup {new}
      BY <1>2, <2>3
    <3> HIDE DEF new
    <3>3. MessageKept(origin, touched, new.broker, new.message, new.touched)
      <4> HIDE DEF no
      <4>1. MessageKept(origin, touched, broker, r.value, no)
        BY <1>4, <2>3, <3>1
      <4> QED BY <3>1, <4>1 DEF no
    <3> QED BY <2>1, <3>2, <3>3 DEF AllKept
  <2> QED BY <2>2, <2>3
<1>5. /\ WholeEvent(origin.event)' /\ IsSequence(origin.metadata)' /\ (touched \in BOOLEAN)'
  BY <1>1 DEF ForwardInvariant
<1>6. ASSUME Exact' PROVE (HeldKept(origin, touched, held) /\ AllKept(origin, touched, inFlight))'
  <2>1. HeldKept(origin, touched, held) BY <1>3, <1>6 DEF ForwardInvariant
  <2> QED BY <1>1, <1>3, <1>4, <1>6, <2>1
<1> QED BY <1>5, <1>6 DEF ForwardInvariant

\* Whichever broker a service sends to, the message has what the service holds.
LEMMA SentKept ==
  ASSUME NEW o, NEW dirty, NEW h, HeldKept(o, dirty, h), NEW broker, NEW message, NEW no, no = FALSE,
         CarriedBy(h.event, broker, message),
         metadataOf(broker, message) = h.metadata,
         NEW k, sentKey(broker, message) = agreedKey(h.event, k),
         keyRoute(agreedKey(h.event, k)) = keyRoute(agreedKey(h.event, h.key))
  PROVE  MessageKept(o, dirty, broker, message, no)
<1>1. keyRoute(sentKey(broker, message)) = route(h)
  BY Routes
<1>2. KafkaPartitionKey(o.event) # Nil => sentKey(broker, message) = KafkaPartitionKey(o.event)
  BY AgreedKeyOfEvent DEF HeldKept
<1> QED BY <1>1, <1>2 DEF MessageKept, HeldKept

LEMMA KafkaSendForward ==
  ASSUME ForwardInvariant, ClosedStrings, NEW mode \in Modes, SendKafka(mode)
  PROVE  ForwardInvariant'
<1> DEFINE transport == [key |-> held.key, headers |-> held.metadata]
           results == EncodeKafka(held.event, mode, transport)
           broker == "kafka"
<1>1. send(broker, results) BY DEF SendKafka
<1>2. transport.key = held.key /\ transport.headers = held.metadata OBVIOUS
<1>3. broker = "kafka" OBVIOUS
<1> HIDE DEF transport, results, broker
<1>4. ASSUME Exact, NEW r \in results, NEW no, r.err = Nil, no = FALSE
      PROVE  MessageKept(origin, touched, broker, r.value, no)
  <2>1. HeldKept(origin, touched, held) BY <1>4 DEF ForwardInvariant
  <2>2. WholeEvent(held.event) /\ IsSequence(transport.headers)
    BY <1>2, <2>1 DEF ForwardInvariant, HeldKept
  <2>3. r \in EncodeKafka(held.event, mode, transport) BY <1>4 DEF results
  <2>4. /\ CarriesKafka(held.event, r.value)
        /\ r.value.key = agreedKey(held.event, held.key)
        /\ transportHeaders(r.value.headers) = held.metadata
    BY <1>2, <1>4, <2>2, <2>3, KafkaSent
  <2>5. /\ CarriedBy(held.event, broker, r.value)
        /\ metadataOf(broker, r.value) = held.metadata
        /\ sentKey(broker, r.value) = agreedKey(held.event, held.key)
    BY <1>3, <2>4 DEF CarriedBy, metadataOf, sentKey
  <2> QED BY <1>4, <2>1, <2>5, SentKept
<1> QED BY <1>1, <1>4, SendForward

LEMMA RabbitSendForward ==
  ASSUME ForwardInvariant, NEW target \in Targets, SendRabbit(target)
  PROVE  ForwardInvariant'
<1> DEFINE k == IF held.key = Nil THEN "" ELSE held.key
           transport == [stream |-> target[1], superStream |-> target[2],
                         routingKey |-> k, properties |-> held.metadata]
           results == EncodeRabbit(held.event, transport)
           broker == "rabbit"
<1>1. send(broker, results) BY DEF SendRabbit
<1>2. transport.routingKey = k /\ transport.properties = held.metadata
  <2> HIDE DEF k
  <2> QED OBVIOUS
<1>3. broker = "rabbit" /\ broker # "kafka" OBVIOUS
<1>r. keyRoute(agreedKey(held.event, k)) = keyRoute(agreedKey(held.event, held.key))
  BY RouteOfForms
<1> HIDE DEF k, transport, results, broker
<1>4. ASSUME Exact, NEW r \in results, NEW no, r.err = Nil, no = FALSE
      PROVE  MessageKept(origin, touched, broker, r.value, no)
  <2>1. HeldKept(origin, touched, held) BY <1>4 DEF ForwardInvariant
  <2>2. WholeEvent(held.event) /\ IsSequence(transport.properties)
    BY <1>2, <2>1 DEF ForwardInvariant, HeldKept
  <2>3. r \in EncodeRabbit(held.event, transport) BY <1>4 DEF results
  <2>4. /\ CarriesRabbit(held.event, r.value)
        /\ r.value.routingKey = agreedKey(held.event, k)
        /\ r.value.properties = held.metadata
    BY <1>2, <1>4, <2>2, <2>3, RabbitSent
  <2>5. /\ CarriedBy(held.event, broker, r.value)
        /\ metadataOf(broker, r.value) = held.metadata
        /\ sentKey(broker, r.value) = agreedKey(held.event, k)
    BY <1>3, <2>4 DEF CarriedBy, metadataOf, sentKey
  <2> QED BY <1>4, <1>r, <2>1, <2>5, SentKept
<1> QED BY <1>1, <1>4, SendForward

\* What a service takes from a message, if its key agrees with the event.
LEMMA TakenKept ==
  ASSUME NEW o, NEW dirty, NEW broker, NEW message, NEW rewritten,
         MessageKept(o, dirty, broker, message, rewritten), NEW h,
         h.event = o.event, IsSequence(h.metadata), h.metadata = metadataOf(broker, message),
         keyRoute(agreedKey(o.event, h.key)) = keyRoute(agreedKey(o.event, sentKey(broker, message))),
         KafkaPartitionKey(o.event) # Nil /\ h.from = "rabbit" => h.key \in {Nil, KafkaPartitionKey(o.event)}
  PROVE  HeldKept(o, dirty, h)
<1>1. ~dirty => route(h) = route(o)
  <2>1. CASE KafkaPartitionKey(o.event) # Nil
    <3>1. route(h) = keyRoute(agreedKey(o.event, h.key)) /\ route(o) = keyRoute(agreedKey(o.event, o.key))
      BY Routes
    <3>2. /\ agreedKey(o.event, h.key) = KafkaPartitionKey(o.event)
          /\ agreedKey(o.event, o.key) = KafkaPartitionKey(o.event)
      BY <2>1, AgreedKeyOfEvent
    <3> QED BY <3>1, <3>2
  <2>2. CASE KafkaPartitionKey(o.event) = Nil
    <3>1. agreedKey(o.event, sentKey(broker, message)) = sentKey(broker, message)
      BY <2>2, AgreedKeyOfTransport
    <3>2. route(h) = keyRoute(sentKey(broker, message))
      BY <3>1, Routes
    <3> QED BY <3>2 DEF MessageKept
  <2> QED BY <2>1, <2>2
<1> QED BY <1>1 DEF MessageKept, HeldKept

LEMMA ConsumeForward ==
  ASSUME ForwardInvariant, ClosedStrings, NEW m \in inFlight, Consume(m)
  PROVE  ForwardInvariant'
<1>1. origin' = origin /\ inFlight' = inFlight /\ touched' = touched
  BY DEF Consume
<1>2. Exact' <=> Exact BY <1>1 DEF Exact
<1>3. ASSUME Exact PROVE HeldKept(origin, touched, held')
  <2> DEFINE e == origin.event
             x == m.message
             b == m.broker
  <2>1. /\ HeldKept(origin, touched, held) /\ WholeEvent(e) /\ ExactEvent(e)
        /\ MessageKept(origin, touched, b, x, m.touched)
    BY <1>3, ExactOrigin DEF ForwardInvariant, AllKept
  <2>2. CASE b = "kafka" /\ held' # held
    <3>1. PICK r \in DecodeKafkaRecord(x, RouteLimits) :
            held' = IF r.err # Nil THEN held
                    ELSE [event |-> r.value.event, key |-> r.value.key,
                          metadata |-> r.value.transportHeaders, from |-> "kafka"]
      BY <2>2 DEF Consume
    <3> DEFINE h == held'
    <3>2. /\ r.err = Nil /\ h.event = r.value.event /\ h.key = r.value.key
          /\ h.metadata = r.value.transportHeaders /\ h.from = "kafka"
      BY <2>2, <3>1
    <3>3. b = "kafka" /\ CarriesKafka(e, x)
      BY <2>1, <2>2 DEF MessageKept, CarriedBy
    <3>4. /\ r.value.event = e /\ r.value.key = x.key
          /\ r.value.transportHeaders = transportHeaders(x.headers)
      BY <2>1, <3>2, <3>3, KafkaForwarded, RouteLimitAssumption
    <3>5. metadataOf(b, x) = transportHeaders(x.headers) /\ sentKey(b, x) = x.key
          /\ IsSequence(transportHeaders(x.headers)) /\ h.from # "rabbit"
      BY <3>2, <3>3 DEF metadataOf, sentKey, CarriesKafka, OfTransport
    <3> HIDE DEF h, b, x
    <3>6. HeldKept(origin, touched, h)
      BY <2>1, <3>2, <3>4, <3>5, TakenKept
    <3> QED BY <3>6 DEF h
  <2>3. CASE b = "rabbit" /\ held' # held
    <3>1. PICK r \in DecodeRabbit(x, RouteLimits) :
            held' = IF r.err # Nil THEN held
                    ELSE [event |-> r.value.event,
                          key |-> IF x.routingKey = "" THEN Nil ELSE x.routingKey,
                          metadata |-> r.value.properties, from |-> "rabbit"]
      BY <2>3 DEF Consume
    <3> DEFINE h == held'
               n == x.routingKey
               k == IF n = "" THEN Nil ELSE n
    <3>k. held' = IF r.err # Nil THEN held
                  ELSE [event |-> r.value.event, key |-> k, metadata |-> r.value.properties, from |-> "rabbit"]
      BY <3>1
    <3>r. /\ keyRoute(agreedKey(e, k)) = keyRoute(agreedKey(e, n))
          /\ n = "" => k = Nil
          /\ n # "" => k = n
      BY RouteOfForms
    <3> HIDE DEF k
    <3>2. /\ r.err = Nil /\ h.event = r.value.event /\ h.key = k /\ h.metadata = r.value.properties
      BY <2>3, <3>k
    <3>3. b = "rabbit" /\ b # "kafka" /\ CarriesRabbit(e, x)
      BY <2>1, <2>3 DEF MessageKept, CarriedBy
    <3>4. r.value.event = e /\ r.value.properties = x.properties /\ StreamKey(e, n)
      BY <2>1, <3>2, <3>3, RabbitForwarded
    <3>5. /\ metadataOf(b, x) = x.properties /\ sentKey(b, x) = n
          /\ IsSequence(x.properties)
      BY <3>3 DEF metadataOf, sentKey, CarriesRabbit
    <3>6. KafkaPartitionKey(e) # Nil => k \in {Nil, KafkaPartitionKey(e)}
      BY <3>4, <3>r DEF StreamKey
    <3> HIDE DEF h, b, x, n
    <3>7. HeldKept(origin, touched, h)
      BY <2>1, <3>2, <3>4, <3>5, <3>6, <3>r, TakenKept
    <3> QED BY <3>7 DEF h
  <2>4. b = "kafka" \/ b = "rabbit"
    BY DEF Consume
  <2> QED BY <2>1, <2>2, <2>3, <2>4
<1>4. /\ WholeEvent(origin.event)' /\ IsSequence(origin.metadata)' /\ (touched \in BOOLEAN)'
  BY <1>1 DEF ForwardInvariant
<1>5. ASSUME Exact' PROVE (HeldKept(origin, touched, held) /\ AllKept(origin, touched, inFlight))'
  <2>1. AllKept(origin, touched, inFlight) BY <1>2, <1>5 DEF ForwardInvariant
  <2> QED BY <1>1, <1>2, <1>3, <1>5, <2>1
<1> QED BY <1>4, <1>5 DEF ForwardInvariant

LEMMA SettleForward ==
  ASSUME ForwardInvariant, NEW m \in inFlight, Settle(m)
  PROVE  ForwardInvariant'
<1>1. origin' = origin /\ held' = held /\ touched' = touched /\ inFlight' = inFlight \ {m}
  BY DEF Settle
<1>2. Exact' <=> Exact BY <1>1 DEF Exact
<1>3. ASSUME Exact' PROVE (HeldKept(origin, touched, held) /\ AllKept(origin, touched, inFlight))'
  <2>1. HeldKept(origin, touched, held) /\ AllKept(origin, touched, inFlight)
    BY <1>2, <1>3 DEF ForwardInvariant
  <2>2. AllKept(origin, touched, inFlight')
    BY <1>1, <2>1 DEF AllKept
  <2> QED BY <1>1, <2>1, <2>2
<1> QED BY <1>1, <1>3 DEF ForwardInvariant

\* What a message in flight carries, by its broker.
LEMMA InFlightCarries ==
  ASSUME ForwardInvariant, Exact, NEW m \in inFlight
  PROVE  /\ WholeEvent(origin.event)
         /\ \/ m.broker = "kafka" /\ CarriesKafka(origin.event, m.message)
            \/ m.broker = "rabbit" /\ CarriesRabbit(origin.event, m.message)
<1>1. MessageKept(origin, touched, m.broker, m.message, m.touched)
  BY DEF ForwardInvariant, AllKept
<1>2. CarriedBy(origin.event, m.broker, m.message)
  BY <1>1 DEF MessageKept
<1> QED BY <1>2 DEF ForwardInvariant, CarriedBy

LEMMA AssignForward ==
  ASSUME ForwardInvariant, NEW m \in inFlight, NEW offset, Assign(m, offset)
  PROVE  ForwardInvariant'
<1> DEFINE x == m.message
           yes == TRUE
           no == FALSE
           message == [x EXCEPT !.stream = "p", !.partition = "p", !.hasOffset = yes, !.offset = offset]
<1>1. m.broker = "rabbit" /\ replace(m, message, no)
  BY DEF Assign
<1>2. no \in BOOLEAN OBVIOUS
<1> HIDE DEF yes, no
<1>3. ASSUME Exact PROVE CarriedBy(origin.event, m.broker, message)
  <2>1. CarriesRabbit(origin.event, x) BY <1>1, <1>3, InFlightCarries
  <2>2. CarriesRabbit(origin.event, message) BY <2>1, StreamChanges
  <2> QED BY <1>1, <2>2 DEF CarriedBy
<1>4. /\ metadataOf(m.broker, message) = metadataOf(m.broker, x)
      /\ sentKey(m.broker, message) = sentKey(m.broker, x)
  <2> DEFINE name == "p"
  <2>1. m.broker # "kafka" BY <1>1
  <2>2. message.properties = x.properties /\ message.routingKey = x.routingKey
    <3> HIDE DEF name, x
    <3> QED OBVIOUS
  <2> HIDE DEF message
  <2> QED BY <2>1, <2>2 DEF metadataOf, sentKey
<1> HIDE DEF message
<1> QED BY <1>1, <1>2, <1>3, <1>4, ReplaceForward

\* A rewritten message need only carry the event.
LEMMA RewriteForward ==
  ASSUME ForwardInvariant, NEW m \in inFlight, NEW message, replace(m, message, TRUE),
         Exact => CarriedBy(origin.event, m.broker, message)
  PROVE  ForwardInvariant'
<1> DEFINE yes == TRUE
<1>1. replace(m, message, yes) /\ yes \in BOOLEAN /\ yes
  OBVIOUS
<1> HIDE DEF yes
<1> QED BY <1>1, ReplaceForward

LEMMA RewriteKeyForward ==
  ASSUME ForwardInvariant, ClosedStrings, NEW m \in inFlight, NEW key, RewriteKey(m, key)
  PROVE  ForwardInvariant'
<1> DEFINE e == origin.event
           x == m.message
           y == [x EXCEPT !.key = key]
           k == IF key = Nil THEN "" ELSE key
           z == [x EXCEPT !.routingKey = k]
           message == IF m.broker = "kafka" THEN y ELSE z
<1>1. replace(m, message, TRUE)
  BY DEF RewriteKey
<1>2. ASSUME Exact PROVE CarriedBy(e, m.broker, message)
  <2> HIDE DEF k
  <2>1. CASE m.broker = "kafka" /\ CarriesKafka(e, x)
    <3>1. WholeEvent(e) BY <1>2, InFlightCarries
    <3>2. CarriesKafka(e, y) BY <2>1, <3>1, RecordChanges
    <3>3. message = y BY <2>1
    <3> HIDE DEF message, y
    <3> QED BY <2>1, <3>2, <3>3 DEF CarriedBy
  <2>2. CASE m.broker = "rabbit" /\ CarriesRabbit(e, x)
    <3>1. CarriesRabbit(e, z) BY <2>2, StreamChanges
    <3>2. m.broker # "kafka" BY <2>2
    <3>3. message = z BY <3>2
    <3> HIDE DEF message, z
    <3> QED BY <2>2, <3>1, <3>3 DEF CarriedBy
  <2> QED BY <1>2, <2>1, <2>2, InFlightCarries
<1> HIDE DEF message
<1> QED BY <1>1, <1>2, RewriteForward

LEMMA RewriteIDForward ==
  ASSUME ForwardInvariant, NEW m \in inFlight, NEW id, RewriteID(m, id)
  PROVE  ForwardInvariant'
<1> DEFINE message == [m.message EXCEPT !.messageID = id]
<1>1. m.broker = "rabbit" /\ replace(m, message, TRUE)
  BY DEF RewriteID
<1>2. ASSUME Exact PROVE CarriedBy(origin.event, m.broker, message)
  <2>1. CarriesRabbit(origin.event, m.message) BY <1>1, <1>2, InFlightCarries
  <2>2. CarriesRabbit(origin.event, message) BY <2>1, StreamChanges
  <2> QED BY <1>1, <2>2 DEF CarriedBy
<1> HIDE DEF message
<1> QED BY <1>1, <1>2, RewriteForward

LEMMA RewriteTypeForward ==
  ASSUME ForwardInvariant, NEW m \in inFlight, NEW type, RewriteType(m, type)
  PROVE  ForwardInvariant'
<1> DEFINE message == [m.message EXCEPT !.contentType = type]
<1>1. m.broker = "rabbit" /\ replace(m, message, TRUE)
  BY DEF RewriteType
<1>2. ASSUME Exact PROVE CarriedBy(origin.event, m.broker, message)
  <2>1. CarriesRabbit(origin.event, m.message) BY <1>1, <1>2, InFlightCarries
  <2>2. CarriesRabbit(origin.event, message) BY <2>1, StreamChanges
  <2> QED BY <1>1, <2>2 DEF CarriedBy
<1> HIDE DEF message
<1> QED BY <1>1, <1>2, RewriteForward

LEMMA AddEntryForward ==
  ASSUME ForwardInvariant, ClosedStrings, NEW m \in inFlight, NEW entry \in ForeignEntries,
         AddEntry(m, entry)
  PROVE  ForwardInvariant'
<1> DEFINE e == origin.event
           x == m.message
           y == [x EXCEPT !.headers = Append(@, entry)]
           z == [x EXCEPT !.properties = Append(@, entry)]
           message == IF m.broker = "kafka" THEN y ELSE z
<1>1. replace(m, message, TRUE)
  BY DEF AddEntry
<1>2. ASSUME Exact PROVE CarriedBy(e, m.broker, message)
  <2>1. CASE m.broker = "kafka" /\ CarriesKafka(e, x)
    <3>1. WholeEvent(e) BY <1>2, InFlightCarries
    <3>2. CarriesKafka(e, y) BY <2>1, <3>1, RecordChanges
    <3>3. message = y BY <2>1
    <3> HIDE DEF message, y
    <3> QED BY <2>1, <3>2, <3>3 DEF CarriedBy
  <2>2. CASE m.broker = "rabbit" /\ CarriesRabbit(e, x)
    <3> DEFINE q == Append(x.properties, entry)
    <3>q. IsSequence(q) BY <2>2, Appended DEF CarriesRabbit
    <3>z. z = [x EXCEPT !.properties = q] OBVIOUS
    <3> HIDE DEF q, z
    <3>1. CarriesRabbit(e, z) BY <2>2, <3>q, <3>z, StreamChanges
    <3>2. m.broker # "kafka" BY <2>2
    <3>3. message = z BY <3>2
    <3> HIDE DEF message
    <3> QED BY <2>2, <3>1, <3>3 DEF CarriedBy
  <2> QED BY <1>2, <2>1, <2>2, InFlightCarries
<1> HIDE DEF message
<1> QED BY <1>1, <1>2, RewriteForward

LEMMA NextForward ==
  ASSUME ClosedStrings, ForwardInvariant, [Next]_vars
  PROVE  ForwardInvariant'
<1>1. CASE UNCHANGED vars
  <2>1. origin' = origin /\ held' = held /\ inFlight' = inFlight /\ touched' = touched
    BY <1>1 DEF vars
  <2>2. Exact' <=> Exact BY <2>1 DEF Exact
  <2> QED BY <2>1, <2>2 DEF ForwardInvariant
<1>2. CASE \E mode \in Modes : SendKafka(mode)
  BY <1>2, KafkaSendForward
<1>3. CASE \E t \in Targets : SendRabbit(t)
  BY <1>3, RabbitSendForward
<1>4. ASSUME NEW m \in inFlight,
             \/ Consume(m) \/ Settle(m)
             \/ \E o \in {0, 1} : Assign(m, o)
             \/ \E k \in ForeignKeys : RewriteKey(m, k)
             \/ \E i \in ForeignIDs : RewriteID(m, i)
             \/ \E t \in ForeignTypes : RewriteType(m, t)
             \/ \E e \in ForeignEntries : AddEntry(m, e)
      PROVE  ForwardInvariant'
  <2>1. CASE Consume(m) BY <2>1, ConsumeForward
  <2>2. CASE Settle(m) BY <2>2, SettleForward
  <2>3. CASE \E o \in {0, 1} : Assign(m, o) BY <2>3, AssignForward
  <2>4. CASE \E k \in ForeignKeys : RewriteKey(m, k) BY <2>4, RewriteKeyForward
  <2>5. CASE \E i \in ForeignIDs : RewriteID(m, i) BY <2>5, RewriteIDForward
  <2>6. CASE \E t \in ForeignTypes : RewriteType(m, t) BY <2>6, RewriteTypeForward
  <2>7. CASE \E e \in ForeignEntries : AddEntry(m, e) BY <2>7, AddEntryForward
  <2> QED BY <1>4, <2>1, <2>2, <2>3, <2>4, <2>5, <2>6, <2>7
<1> QED BY <1>1, <1>2, <1>3, <1>4 DEF Next

LEMMA ForwardInvariantHolds == ASSUME ClosedStrings PROVE Spec => []ForwardInvariant
  BY InitForward, NextForward, PTL DEF Spec

\* Whatever other parties do to the keys, message IDs, content types, properties and
\* transport headers of messages that Encode of either adapter sent, and whichever
\* message is consumed, again or out of order, Decode gives the event the first
\* service sent or fails.
THEOREM ForwardedEventSurvives == ASSUME ClosedStrings PROVE Spec => []EventSurvivesTransport
<1>1. ForwardInvariant => EventSurvivesTransport
  BY DEF ForwardInvariant, HeldKept, EventSurvivesTransport
<1> QED BY <1>1, ForwardInvariantHolds, PTL

\* As long as no other party rewrites a message, Encode and Decode of both adapters
\* hand on the event, the ordered transport metadata and the route unchanged, through
\* any chain of brokers and modes.
THEOREM ForwardingPreservesAll == ASSUME ClosedStrings PROVE Spec => []ForwardingIsExact
<1>1. ForwardInvariant => ForwardingIsExact
  BY DEF ForwardInvariant, HeldKept, ForwardingIsExact
<1> QED BY <1>1, ForwardInvariantHolds, PTL

\* Encode of both adapters sends an event with a partitionkey under that key only,
\* also for a service that received it under a rewritten one, and rabbitstream.Decode
\* never hands it out under another key.
THEOREM RoutingIsBoundToEvent == ASSUME ClosedStrings PROVE Spec => []RoutingFollowsEvent
<1>1. ForwardInvariant => RoutingFollowsEvent
  <2> SUFFICES ASSUME ForwardInvariant, Exact, KafkaPartitionKey(origin.event) # Nil
               PROVE  /\ \A m \in inFlight : ~m.touched => keyOf(m) = KafkaPartitionKey(origin.event)
                      /\ held.from = "rabbit" => held.key \in {Nil, KafkaPartitionKey(origin.event)}
    BY DEF RoutingFollowsEvent
  <2>1. HeldKept(origin, touched, held) /\ AllKept(origin, touched, inFlight)
    BY DEF ForwardInvariant
  <2>2. ASSUME NEW m \in inFlight, ~m.touched PROVE keyOf(m) = KafkaPartitionKey(origin.event)
    <3>1. MessageKept(origin, touched, m.broker, m.message, m.touched)
      BY <2>1 DEF AllKept
    <3>2. sentKey(m.broker, m.message) = KafkaPartitionKey(origin.event)
      BY <2>2, <3>1 DEF MessageKept
    <3> QED BY <3>2 DEF sentKey, keyOf
  <2> QED BY <2>1, <2>2 DEF HeldKept
<1> QED BY <1>1, ForwardInvariantHolds, PTL
=============================================================================
