----------------------------- MODULE ValueProofs ----------------------------
(***************************************************************************)
(* Proofs about the values of the package.                                 *)
(*                                                                         *)
(* What a value holds (Ownership) is isolated from its callers, for any    *)
(* number of goroutines, buffers and contents.  IInv is inductive: a       *)
(* published value is safe because the copy it came from was shared with   *)
(* nobody, and its JSON is valid because nobody wrote to the buffer        *)
(* between json.Valid and the copy.                                        *)
(*                                                                         *)
(* What the value of a tracing extension may be (TraceContext) is decided  *)
(* by splitting its text, for texts of any length exactly as one pass over *)
(* the text decides it.                                                    *)
(***************************************************************************)
EXTENDS Ownership, TraceContext, WellFoundedInduction, FiniteSetTheorems, TLAPS

\* Nothing is allocated and no call runs when the program starts.
LEMMA InitIInv == Init => IInv
  BY DEF Init, IInv, TypeOK, ValuesAreIsolated, CopiesAreUnshared, JSONStaysValid,
         PendingJSONIsValid, ValueBlocks, TodoBlocks

\* A write to a block that no value, no pending read and no copy in progress
\* refers to disturbs nobody, whether the block is new or already a caller's.
LEMMA WritePreserves ==
  ASSUME IInv, NEW b \in Blocks, NEW x \in Contents,
         b \notin ValueBlocks \cup TodoBlocks \cup MadeBlocks,
         mutable' = mutable \cup {b},
         heap' = [heap EXCEPT ![b] = x],
         UNCHANGED <<values, todo, made>>
  PROVE  IInv'
<1>1. TypeOK' BY DEF IInv, TypeOK
<1>2. ValuesAreIsolated' BY DEF IInv, ValuesAreIsolated, ValueBlocks
<1>3. CopiesAreUnshared'
  BY DEF IInv, TypeOK, Item, CopiesAreUnshared, ValueBlocks, TodoBlocks, MadeBlocks
<1>4. JSONStaysValid'
  BY DEF IInv, TypeOK, Ref, JSONStaysValid, ValueBlocks
<1>5. PendingJSONIsValid'
  BY DEF IInv, TypeOK, Item, PendingJSONIsValid, TodoBlocks, MadeBlocks
<1> QED BY <1>1, <1>2, <1>3, <1>4, <1>5 DEF IInv

\* A call may start on buffers of its caller and on blocks of values; JSON it
\* does not check is JSON of a value.
LEMMA BeginPreserves ==
  ASSUME IInv, NEW g \in Goroutines, NEW items \in SUBSET Item,
         \A i \in items : i.block \in mutable \cup ValueBlocks,
         \A i \in items : i.kind = "json" /\ i.checked => heap[i.block] \in JSON,
         Begin(g, items)
  PROVE  IInv'
<1>1. TypeOK' BY DEF IInv, TypeOK, Begin
<1>2. ValuesAreIsolated' BY DEF IInv, ValuesAreIsolated, ValueBlocks, Begin
<1>3. CopiesAreUnshared'
  <2>1. ASSUME NEW b \in TodoBlocks' PROVE b \in TodoBlocks \cup mutable \cup ValueBlocks
    BY <2>1 DEF IInv, TypeOK, TodoBlocks, Begin
  <2> QED BY <2>1 DEF IInv, CopiesAreUnshared, ValueBlocks, Begin
<1>4. JSONStaysValid' BY DEF IInv, JSONStaysValid, Begin
<1>5. PendingJSONIsValid' BY DEF IInv, TypeOK, PendingJSONIsValid, Begin
<1> QED BY <1>1, <1>2, <1>3, <1>4, <1>5 DEF IInv

\* Allocating and writing: callers only ever write blocks that are new or
\* theirs.
LEMMA CallerPreserves == IInv /\ Caller => IInv'
<1> SUFFICES ASSUME IInv, Caller PROVE IInv'
  OBVIOUS
<1>1. ASSUME NEW b \in Blocks, NEW x \in Contents, CallerAllocates(b, x) PROVE IInv'
  BY <1>1, WritePreserves DEF CallerAllocates, Fresh
<1>2. ASSUME NEW b \in Blocks, NEW x \in Contents, CallerWrites(b, x) PROVE IInv'
  <2>1. b \notin ValueBlocks \cup TodoBlocks \cup MadeBlocks
    BY <1>2 DEF CallerWrites, IInv, ValuesAreIsolated, CopiesAreUnshared, MadeBlocks
  <2>2. mutable' = mutable \cup {b} BY <1>2 DEF CallerWrites
  <2> QED BY <1>2, <2>1, <2>2, WritePreserves DEF CallerWrites
<1>3. ASSUME NEW b \in Blocks, CallerDrops(b) PROVE IInv'
  BY <1>3 DEF CallerDrops, IInv, TypeOK, ValuesAreIsolated, CopiesAreUnshared,
     JSONStaysValid, PendingJSONIsValid, ValueBlocks, TodoBlocks
<1>4. ASSUME NEW v \in values, ValueDropped(v) PROVE IInv'
  BY <1>4 DEF ValueDropped, IInv, TypeOK, ValuesAreIsolated, CopiesAreUnshared,
     JSONStaysValid, PendingJSONIsValid, ValueBlocks, TodoBlocks
<1> QED BY <1>1, <1>2, <1>3, <1>4 DEF Caller

\* What the copies of an operation are.
LEMMA ItemsOfOperations ==
  ASSUME NEW b \in Blocks, NEW k \in Kinds
  PROVE  /\ Unchecked(b) \in Item /\ Unchecked(b).block = b /\ ~Unchecked(b).checked
         /\ Take(k, b) \in Item /\ Take(k, b).block = b /\ Take(k, b).kind = k
         /\ Give(k, b) \in Item /\ Give(k, b).block = b /\ Give(k, b).kind = k
  BY DEF Unchecked, Take, Give, Item, Kinds

\* Every operation starts on buffers and values it was given.
LEMMA OperationPreserves ==
  ASSUME IInv, NEW g \in Goroutines, Operation(g)
  PROVE  IInv'
<1> DEFINE Sound(i) == /\ i \in Item
                       /\ i.block \in mutable \cup ValueBlocks
                       /\ i.kind = "json" /\ i.checked => heap[i.block] \in JSON
<1>a. ASSUME NEW i, NEW j, Sound(i), Sound(j), Begin(g, {i, j}) PROVE IInv'
  BY <1>a, BeginPreserves
<1>e. ASSUME NEW i, NEW j, NEW k, Sound(i), Sound(j), Sound(k), Begin(g, {i, j, k}) PROVE IInv'
  BY <1>e, BeginPreserves
<1>b. ASSUME NEW i, Sound(i), Begin(g, {i}) PROVE IInv'
  BY <1>b, BeginPreserves
<1>c. ASSUME NEW b \in mutable
      PROVE  /\ Sound(Unchecked(b)) /\ Sound(Take("bytes", b)) /\ Sound(Give("bytes", b))
             /\ Sound(Take("map", b)) /\ Sound(Give("map", b))
  <2>1. b \in Blocks BY DEF IInv, TypeOK
  <2>2. "bytes" \in Kinds /\ "map" \in Kinds BY DEF Kinds
  <2> QED BY <2>1, <2>2, ItemsOfOperations
<1>d. ASSUME NEW v \in values
      PROVE  Sound(Take(v.kind, v.block)) /\ Sound(Give(v.kind, v.block))
  <2>1. v.kind \in Kinds /\ v.block \in Blocks BY DEF IInv, TypeOK, Ref
  <2>2. v.block \in ValueBlocks BY DEF ValueBlocks
  <2>3. v.kind = "json" => heap[v.block] \in JSON BY DEF IInv, JSONStaysValid
  <2> QED BY <2>1, <2>2, <2>3, ItemsOfOperations
<1> HIDE DEF Sound
<1>1. ASSUME NEW b \in Blocks, NewJSONData(g, b) PROVE IInv'
  BY <1>1, <1>b, <1>c DEF NewJSONData
<1>2. ASSUME NEW b \in Blocks, NewBinaryData(g, b) \/ NewBinaryAttribute(g, b) PROVE IInv'
  BY <1>2, <1>b, <1>c DEF NewBinaryData, NewBinaryAttribute
<1>3. ASSUME NEW v \in values, EventData(g, v) PROVE IInv'
  BY <1>3, <1>b, <1>d DEF EventData
<1>4. ASSUME NEW v \in values, ValueBytes(g, v) PROVE IInv'
  BY <1>4, <1>b, <1>d DEF ValueBytes
<1>5. ASSUME NEW v \in values, EventExtensions(g, v) PROVE IInv'
  BY <1>5, <1>b, <1>d DEF EventExtensions
<1>6. ASSUME NEW b \in Blocks, NEW v \in values, NewEvent(g, b, v) PROVE IInv'
  BY <1>6, <1>a, <1>c, <1>d DEF NewEvent
<1>7. ASSUME NEW b \in Blocks, NEW v \in values, EncodeKafka(g, b, v) PROVE IInv'
  BY <1>7, <1>a, <1>c, <1>d DEF EncodeKafka
<1>8. ASSUME NEW k \in Blocks, NEW b \in Blocks, DecodeKafka(g, k, b) PROVE IInv'
  BY <1>8, <1>a, <1>c DEF DecodeKafka
<1>9. ASSUME NEW p \in Blocks, NEW m \in Blocks, ToCloudEvent(g, p, m) PROVE IInv'
  BY <1>9, <1>e, <1>c DEF ToCloudEvent
<1>10. ASSUME NEW m \in Blocks, NEW v \in values, FromCloudEvent(g, m, v) PROVE IInv'
  BY <1>10, <1>a, <1>c, <1>d DEF FromCloudEvent
<1>11. ASSUME NEW m \in Blocks, NewJSONSchemaValidator(g, m) PROVE IInv'
  BY <1>11, <1>b, <1>c DEF NewJSONSchemaValidator
<1> QED
  BY <1>1, <1>2, <1>3, <1>4, <1>5, <1>6, <1>7, <1>8, <1>9, <1>10, <1>11 DEF Operation

\* json.Valid changes no memory; what passes it is valid until it is copied.
LEMMA CheckPreserves ==
  ASSUME IInv, NEW g \in Goroutines, NEW i \in todo[g], Check(g, i)
  PROVE  IInv'
<1>1. /\ i \in Item /\ Accepted(i) \in Item
      /\ Accepted(i).block = i.block /\ Accepted(i).kind = i.kind
  BY DEF IInv, TypeOK, Item, Accepted
<1>2. TypeOK' BY <1>1 DEF Check, IInv, TypeOK
<1>3. ValuesAreIsolated' BY DEF Check, IInv, ValuesAreIsolated, ValueBlocks
<1>4. CopiesAreUnshared'
  <2>1. TodoBlocks' \subseteq TodoBlocks
    BY <1>1 DEF Check, IInv, TypeOK, TodoBlocks
  <2>2. \A h \in Goroutines : made'[h] \subseteq made[h]
    BY DEF Check, IInv, TypeOK
  <2> QED BY <2>1, <2>2 DEF Check, IInv, CopiesAreUnshared, ValueBlocks
<1>5. JSONStaysValid' BY DEF Check, IInv, JSONStaysValid
<1>6. PendingJSONIsValid'
  <2>1. CASE heap[i.block] \in JSON
    BY <1>1, <2>1 DEF Check, IInv, TypeOK, PendingJSONIsValid
  <2>2. CASE heap[i.block] \notin JSON
    BY <2>2 DEF Check, IInv, TypeOK, PendingJSONIsValid
  <2> QED BY <2>1, <2>2
<1> QED BY <1>2, <1>3, <1>4, <1>5, <1>6 DEF IInv

\* A copy goes to a block nobody refers to.
LEMMA CopyPreserves ==
  ASSUME IInv, NEW g \in Goroutines, NEW i \in todo[g], NEW b \in Blocks, Copy(g, i, b)
  PROVE  IInv'
<1> DEFINE c == CopyOf(i, b)
<1>1. i \in Item /\ c \in Item /\ c.block = b /\ c.kind = i.kind
  BY DEF IInv, TypeOK, Item, CopyOf
<1>2. b \notin mutable /\ b \notin ValueBlocks /\ b \notin TodoBlocks /\ b \notin MadeBlocks
  BY DEF Copy, Fresh
<1>3. \A h \in Goroutines : /\ todo'[h] \subseteq todo[h]
                            /\ made'[h] \subseteq made[h] \cup (IF h = g THEN {c} ELSE {})
  BY DEF Copy, IInv, TypeOK
<1>4. \A d \in Blocks : d # b => heap'[d] = heap[d]
  BY DEF Copy, IInv, TypeOK
<1>5. heap'[b] = heap[i.block]
  BY DEF Copy, IInv, TypeOK
<1>6. TypeOK' BY <1>1 DEF Copy, IInv, TypeOK, Item
<1>7. ValuesAreIsolated' BY DEF Copy, IInv, ValuesAreIsolated, ValueBlocks
<1>8. CopiesAreUnshared'
  <2>1. TodoBlocks' \subseteq TodoBlocks BY <1>3 DEF TodoBlocks
  <2>2. \A h \in Goroutines : \A j \in made[h] : j.block # b
    BY <1>2 DEF MadeBlocks, IInv, TypeOK, Item
  <2>3. ASSUME NEW h \in Goroutines, NEW j \in made'[h]
        PROVE  j.block \notin (mutable \cup ValueBlocks \cup TodoBlocks)'
    BY <1>1, <1>2, <1>3, <2>1, <2>3 DEF Copy, IInv, CopiesAreUnshared, ValueBlocks
  <2>4. ASSUME NEW h \in Goroutines, NEW k \in Goroutines, NEW j \in made'[h], NEW l \in made'[k],
               j.block = l.block
        PROVE  h = k /\ j = l
    BY <1>1, <1>3, <2>2, <2>4 DEF IInv, CopiesAreUnshared
  <2> QED BY <2>3, <2>4 DEF CopiesAreUnshared
<1>9. JSONStaysValid'
  BY <1>2, <1>4 DEF Copy, IInv, TypeOK, Ref, JSONStaysValid, ValueBlocks
<1>10. PendingJSONIsValid'
  <2>1. ASSUME NEW h \in Goroutines, NEW j \in todo'[h], j.kind = "json", j.checked
        PROVE  heap'[j.block] \in JSON
    BY <1>2, <1>3, <1>4, <2>1 DEF IInv, TypeOK, Item, TodoBlocks, PendingJSONIsValid
  <2>2. ASSUME NEW h \in Goroutines, NEW j \in made[h], j.kind = "json"
        PROVE  heap'[j.block] \in JSON
    BY <1>2, <1>4, <2>2 DEF IInv, TypeOK, Item, MadeBlocks, PendingJSONIsValid
  <2>3. c.kind = "json" => heap'[c.block] \in JSON
    BY <1>1, <1>5 DEF Copy, IInv, PendingJSONIsValid
  <2> QED BY <1>3, <2>1, <2>2, <2>3 DEF PendingJSONIsValid
<1> QED BY <1>6, <1>7, <1>8, <1>9, <1>10 DEF IInv

\* What a call publishes was shared with nobody, and goes to a value or to the
\* caller, never to both.
LEMMA ReturnPreserves ==
  ASSUME IInv, NEW g \in Goroutines, Return(g)
  PROVE  IInv'
<1>1. /\ \A h \in Goroutines : made'[h] = IF h = g THEN {} ELSE made[h]
      /\ TodoBlocks' = TodoBlocks
  BY DEF Return, IInv, TypeOK, TodoBlocks
<1>2. \A v \in values' : v \in values \/ \E i \in made[g] :
        i.to = "value" /\ v = [kind |-> i.kind, block |-> i.block]
  BY DEF Return
<1>3. \A b \in mutable' : b \in mutable \/ \E i \in made[g] : i.to = "caller" /\ b = i.block
  BY DEF Return
<1>4. TypeOK' BY <1>1 DEF Return, IInv, TypeOK, Item, Ref
<1>5. ValuesAreIsolated'
  <2>1. ASSUME NEW v \in values' PROVE v.block \notin mutable'
    BY <1>2, <1>3, <2>1 DEF IInv, ValuesAreIsolated, CopiesAreUnshared, ValueBlocks
  <2> QED BY <2>1 DEF ValuesAreIsolated, ValueBlocks
<1>6. CopiesAreUnshared'
  <2>1. ASSUME NEW h \in Goroutines, NEW j \in made'[h]
        PROVE  j.block \notin (mutable \cup ValueBlocks \cup TodoBlocks)'
    <3>1. h # g /\ j \in made[h] BY <1>1, <2>1
    <3>2. j.block \notin mutable' BY <1>3, <3>1 DEF IInv, CopiesAreUnshared
    <3>3. j.block \notin ValueBlocks'
      BY <1>2, <3>1 DEF IInv, CopiesAreUnshared, ValueBlocks
    <3> QED BY <1>1, <3>1, <3>2, <3>3 DEF IInv, CopiesAreUnshared
  <2> QED BY <1>1, <2>1 DEF IInv, CopiesAreUnshared
<1>7. JSONStaysValid'
  BY <1>2 DEF Return, IInv, JSONStaysValid, PendingJSONIsValid
<1>8. PendingJSONIsValid'
  BY <1>1 DEF Return, IInv, PendingJSONIsValid
<1> QED BY <1>4, <1>5, <1>6, <1>7, <1>8 DEF IInv

\* Every step of every goroutine preserves the invariant.
LEMMA NextIInv == IInv /\ [Next]_vars => IInv'
<1> SUFFICES ASSUME IInv, [Next]_vars PROVE IInv'
  OBVIOUS
<1>1. CASE Caller BY <1>1, CallerPreserves
<1>2. ASSUME NEW g \in Goroutines, Operation(g) PROVE IInv'
  BY <1>2, OperationPreserves
<1>3. ASSUME NEW g \in Goroutines, Step(g) PROVE IInv'
  BY <1>3, CheckPreserves, CopyPreserves, ReturnPreserves DEF Step
<1>4. CASE UNCHANGED vars
  BY <1>4 DEF vars, IInv, TypeOK, ValuesAreIsolated, CopiesAreUnshared, JSONStaysValid,
     PendingJSONIsValid, ValueBlocks, TodoBlocks
<1> QED BY <1>1, <1>2, <1>3, <1>4 DEF Next

\* A step that writes memory writes a caller's block or a new one, and neither
\* belongs to a live value.
LEMMA NextContentsStay == IInv /\ [Next]_vars => [ContentsStay]_vars
<1> SUFFICES ASSUME IInv, Next PROVE ContentsStay
  OBVIOUS
<1>1. ASSUME NEW b \in Blocks, b \notin ValueBlocks, NEW x, heap' = [heap EXCEPT ![b] = x]
      PROVE  ContentsStay
  BY <1>1 DEF ContentsStay, ValueBlocks, IInv, TypeOK, Ref
<1>2. CASE UNCHANGED heap
  BY <1>2 DEF ContentsStay
<1>3. CASE Caller
  BY <1>1, <1>2, <1>3 DEF Caller, CallerAllocates, CallerWrites, CallerDrops, ValueDropped,
     Fresh, IInv, ValuesAreIsolated
<1>4. ASSUME NEW g \in Goroutines, Operation(g) PROVE ContentsStay
  BY <1>2, <1>4 DEF Operation, Begin, NewJSONData, NewBinaryData, NewBinaryAttribute, NewEvent,
     EventData, ValueBytes, EventExtensions, EncodeKafka, DecodeKafka, ToCloudEvent,
     FromCloudEvent, NewJSONSchemaValidator
<1>5. ASSUME NEW g \in Goroutines, Step(g) PROVE ContentsStay
  BY <1>1, <1>2, <1>5 DEF Step, Check, Copy, Return, Fresh
<1> QED BY <1>3, <1>4, <1>5 DEF Next

\* A step that changes the set of live values drops one, or publishes the copies
\* of one call, whose JSON is valid.
LEMMA NextChangesValues ==
  ASSUME IInv, Next
  PROVE  \/ values \subseteq values'
         \/ \E v \in values : values' = values \ {v}
<1>1. CASE Caller
  BY <1>1 DEF Caller, CallerAllocates, CallerWrites, CallerDrops, ValueDropped
<1>2. ASSUME NEW g \in Goroutines, Operation(g) PROVE values' = values
  BY <1>2 DEF Operation, Begin, NewJSONData, NewBinaryData, NewBinaryAttribute, NewEvent,
     EventData, ValueBytes, EventExtensions, EncodeKafka, DecodeKafka, ToCloudEvent,
     FromCloudEvent, NewJSONSchemaValidator
<1>3. ASSUME NEW g \in Goroutines, Step(g) PROVE values \subseteq values'
  BY <1>3 DEF Step, Check, Copy, Return
<1> QED BY <1>1, <1>2, <1>3 DEF Next

\* Every step of the package or of a caller is, on the live values and what they
\* hold, a step of the store of immutable values or no step at all.
LEMMA NextRefines ==
  ASSUME IInv, IInv', [Next]_vars
  PROVE  [Values!Next]_([v \in values |-> heap[v.block]])
<1> DEFINE live == [v \in values |-> heap[v.block]]
<1>1. CASE UNCHANGED vars
  BY <1>1 DEF vars
<1>2. CASE Next
  <2>1. ContentsStay BY <1>2, NextContentsStay DEF ContentsStay, vars
  <2>2. CASE values \subseteq values'
    <3>1. DOMAIN live = values /\ DOMAIN live' = values'
      OBVIOUS
    <3>2. \A v \in values : live'[v] = live[v]
      BY <2>1, <2>2 DEF ContentsStay
    <3>3. \A v \in values' : v.kind = "json" => live'[v] \in JSON
      BY DEF IInv, JSONStaysValid
    <3> QED BY <2>2, <3>1, <3>2, <3>3 DEF Values!Next, Values!Make
  <2>3. ASSUME NEW v \in values, values' = values \ {v} PROVE Values!Next
    <3>1. live' = [w \in DOMAIN live \ {v} |-> live[w]]
      BY <2>1, <2>3 DEF ContentsStay
    <3> QED BY <3>1 DEF Values!Next, Values!Drop
  <2> QED BY <1>2, <2>2, <2>3, NextChangesValues
<1> QED BY <1>1, <1>2

-----------------------------------------------------------------------------
\* The inductive invariant: everything below follows from it.
THEOREM Invariance == Spec => []IInv
  BY InitIInv, NextIInv, PTL DEF Spec

\* Type correctness of the ownership model.
THEOREM TypeCorrect == Spec => []TypeOK
<1>1. IInv => TypeOK BY DEF IInv
<1> QED BY <1>1, Invariance, PTL

\* No caller ever holds a buffer that a Data, Attribute or Event refers to, for
\* any number of overlapping calls (event.go, attribute.go, kafka.go).
THEOREM Isolation == Spec => []ValuesAreIsolated
<1>1. IInv => ValuesAreIsolated BY DEF IInv
<1> QED BY <1>1, Invariance, PTL

\* The JSON of a Data value is valid for as long as the value lives, although
\* NewJSONData checks the caller's buffer and copies it afterwards.
THEOREM JSONValidity == Spec => []JSONStaysValid
<1>1. IInv => JSONStaysValid BY DEF IInv
<1> QED BY <1>1, Invariance, PTL

\* Data, Attribute and Event are immutable: no step of any goroutine changes
\* what a live value holds.
THEOREM Immutability == Spec => ValuesNeverChange
  BY Invariance, NextContentsStay, PTL DEF Spec, ValuesNeverChange

\* The package implements the store of immutable values: whatever its callers do
\* with their buffers, and however calls overlap, what they can see of Data,
\* Attribute and Event is values being made and dropped (event.go).
THEOREM Refinement == Spec => ImplementsValues
<1>1. Init => Values!Init
  BY DEF Init, Values!Init
<1>2. IInv /\ IInv' /\ [Next]_vars => [Values!Next]_([v \in values |-> heap[v.block]])
  BY NextRefines
<1> QED BY <1>1, <1>2, Invariance, PTL DEF Spec, ImplementsValues, Values!Spec

-----------------------------------------------------------------------------
(* The traceparent: splitting at dashes against the character at every      *)
(* position.                                                                *)

\* The least of some indices is one of them (Min is FiniteSetsExt's).
LEMMA MinOfNaturals ==
  ASSUME NEW S, S \subseteq Nat, S # {}
  PROVE  Min(S) \in S /\ \A y \in S : Min(S) <= y
<1> DEFINE less == OpToRel(<, Nat)
<1>1. IsWellFoundedOn(less, Nat)
  BY NatLessThanWellFounded
<1>2. \A u, v \in Nat : u < v => <<u, v>> \in less
  BY DEF OpToRel
<1> HIDE DEF less
<1>3. PICK x \in S : \A y \in S : <<y, x>> \notin less
  BY <1>1, WFMin
<1>4. ASSUME NEW y \in S PROVE x <= y
  <2>1. x \in Nat /\ y \in Nat OBVIOUS
  <2>2. <<y, x>> \notin less BY <1>3
  <2>3. ~(y < x) BY <1>2, <2>1, <2>2
  <2> QED BY <2>1, <2>3
<1> QED BY <1>4 DEF Min

IsSequence(s) == s \in Seq({s[i] : i \in DOMAIN s})

\* A sequence is one of its own members.
LEMMA SequenceOfMembers ==
  ASSUME NEW S, NEW s \in Seq(S)
  PROVE  IsSequence(s)
<1>1. DOMAIN s = 1..Len(s) /\ Len(s) \in Nat
  OBVIOUS
<1> DEFINE T == {s[i] : i \in DOMAIN s}
<1>2. s \in [1..Len(s) -> T]
  BY <1>1
<1>3. s \in Seq(T)
  BY <1>1, <1>2
<1> QED BY <1>3 DEF IsSequence

\* Positions and their ranks: how many of them are smaller.
rank(C, i) == Cardinality({j \in C : j < i})

\* Ranks lie below the cardinality, grow with the positions and by one from a position to the next.
LEMMA RankOfNext ==
  ASSUME NEW C, C \subseteq Nat, IsFiniteSet(C), NEW i \in C
  PROVE  /\ rank(C, i) \in 0..(Cardinality(C) - 1)
         /\ \A k \in C : i < k => rank(C, i) < rank(C, k)
         /\ \A k \in C : i < k /\ (\A j \in C : ~(i < j /\ j < k)) => rank(C, k) = rank(C, i) + 1
         /\ (\A j \in C : j <= i) => rank(C, i) = Cardinality(C) - 1
<1> DEFINE below(k) == {j \in C : j < k}
<1>1. ASSUME NEW k PROVE IsFiniteSet(below(k)) /\ Cardinality(below(k)) \in Nat
  <2>1. below(k) \in SUBSET C OBVIOUS
  <2> HIDE DEF below
  <2>2. IsFiniteSet(below(k)) BY <2>1, FS_Subset
  <2> QED BY <2>2, FS_CardinalityType
<1>2. \A k : rank(C, k) = Cardinality(below(k)) BY DEF rank
<1> DEFINE upto == below(i) \cup {i}
<1>3. i \notin below(i) BY DEF below
<1>n. \A j \in C : j \in Nat OBVIOUS
<1>4. ASSUME NEW k \in C, i < k PROVE upto \subseteq below(k)
  <2> SUFFICES ASSUME NEW j \in upto PROVE j \in C /\ j < k
    OBVIOUS
  <2>1. j \in C /\ (j < i \/ j = i) OBVIOUS
  <2>2. j \in Nat /\ i \in Nat /\ k \in Nat BY <1>n, <2>1
  <2> QED BY <1>4, <2>1, <2>2
<1>5. upto \subseteq C OBVIOUS
<1>6. ASSUME NEW k \in C, i < k, \A j \in C : ~(i < j /\ j < k) PROVE below(k) = upto
  <2>1. ASSUME NEW j \in below(k) PROVE j \in upto
    <3>1. j \in C /\ j < k OBVIOUS
    <3>2. j \in Nat /\ i \in Nat /\ k \in Nat /\ ~(i < j) BY <1>6, <1>n, <3>1
    <3>3. j < i \/ j = i BY <3>2
    <3> QED BY <3>1, <3>3
  <2> QED BY <1>4, <1>6, <2>1
<1>7. ASSUME \A j \in C : j <= i PROVE C = upto
  <2>1. ASSUME NEW j \in C PROVE j \in upto
    <3>1. j \in Nat /\ i \in Nat /\ j <= i BY <1>7, <1>n
    <3>2. j < i \/ j = i BY <3>1
    <3> QED BY <3>2
  <2> QED BY <1>5, <2>1
<1> HIDE DEF below
<1>8. IsFiniteSet(upto) /\ Cardinality(upto) = Cardinality(below(i)) + 1
  BY <1>1, <1>3, FS_AddElement
<1> HIDE DEF upto
<1>9. Cardinality(C) \in Nat BY FS_CardinalityType
<1>10. Cardinality(upto) <= Cardinality(C)
  BY <1>5, FS_Subset
<1>11. \A k \in C : i < k => Cardinality(upto) <= Cardinality(below(k))
  BY <1>1, <1>4, FS_Subset
<1>12. Cardinality(below(i)) \in Nat /\ \A k : Cardinality(below(k)) \in Nat
  BY <1>1
<1>13. rank(C, i) \in 0..(Cardinality(C) - 1)
  BY <1>2, <1>8, <1>9, <1>10, <1>12
<1>14. \A k \in C : i < k => rank(C, i) < rank(C, k)
  BY <1>2, <1>8, <1>11, <1>12
<1>15. \A k \in C : i < k /\ (\A j \in C : ~(i < j /\ j < k)) => rank(C, k) = rank(C, i) + 1
  BY <1>2, <1>6, <1>8
<1>16. (\A j \in C : j <= i) => rank(C, i) = Cardinality(C) - 1
  BY <1>2, <1>7, <1>8, <1>12
<1> QED BY <1>13, <1>14, <1>15, <1>16

\* Every rank is taken.
LEMMA RanksAreTaken ==
  ASSUME NEW C, C \subseteq Nat, IsFiniteSet(C), C # {}, NEW n \in 0..(Cardinality(C) - 1)
  PROVE  \E i \in C : rank(C, i) = n
<1> DEFINE Taken(m) == \E i \in C : rank(C, i) = m
           M == Cardinality(C)
<1>0. M \in Nat BY FS_CardinalityType
<1>1. Taken(0)
  <2>1. Min(C) \in C /\ \A y \in C : Min(C) <= y BY MinOfNaturals
  <2>2. {j \in C : j < Min(C)} = {}
    <3> SUFFICES ASSUME NEW j \in C, j < Min(C) PROVE FALSE OBVIOUS
    <3>1. Min(C) <= j /\ j \in Nat /\ Min(C) \in Nat BY <2>1
    <3> QED BY <3>1
  <2>3. rank(C, Min(C)) = 0 BY <2>2, FS_EmptySet DEF rank
  <2> QED BY <2>1, <2>3
<1>2. ASSUME NEW m \in Nat, m + 1 \in 0..(M - 1), Taken(m) PROVE Taken(m + 1)
  <2>1. PICK i \in C : rank(C, i) = m BY <1>2
  <2>2. i \in Nat OBVIOUS
  <2> DEFINE above == {j \in C : i < j}
  <2>3. above # {}
    <3> SUFFICES ASSUME above = {} PROVE FALSE OBVIOUS
    <3>1. \A j \in C : j <= i BY <2>2
    <3>2. rank(C, i) = M - 1 BY <3>1, RankOfNext
    <3> QED BY <1>0, <1>2, <2>1, <3>2
  <2>4. above \subseteq Nat OBVIOUS
  <2>5. Min(above) \in above /\ \A y \in above : Min(above) <= y
    <3> HIDE DEF above
    <3> QED BY <2>3, <2>4, MinOfNaturals
  <2> DEFINE k == Min(above)
  <2>6. k \in C /\ i < k /\ k \in Nat BY <2>5
  <2>7. \A j \in C : ~(i < j /\ j < k)
    <3> SUFFICES ASSUME NEW j \in C, i < j, j < k PROVE FALSE OBVIOUS
    <3>1. j \in above OBVIOUS
    <3>2. k <= j /\ j \in Nat BY <2>5, <3>1
    <3> HIDE DEF k, above
    <3> QED BY <2>6, <3>2
  <2> HIDE DEF k
  <2>8. rank(C, k) = m + 1 BY <2>1, <2>6, <2>7, RankOfNext
  <2> QED BY <2>6, <2>8
<1> HIDE DEF Taken, M
<1> DEFINE bad == {m \in 0..(M - 1) : ~Taken(m)}
<1>3. bad = {}
  <2> SUFFICES ASSUME bad # {} PROVE FALSE OBVIOUS
  <2>1. bad \subseteq Nat BY <1>0
  <2>2. Min(bad) \in bad /\ \A y \in bad : Min(bad) <= y
    <3> HIDE DEF bad
    <3> QED BY <2>1, MinOfNaturals
  <2>3. Min(bad) # 0 BY <1>1, <2>2
  <2>4. Min(bad) - 1 \in Nat /\ Min(bad) - 1 \in 0..(M - 1) /\ ~(Min(bad) <= Min(bad) - 1)
        /\ (Min(bad) - 1) + 1 = Min(bad) /\ Min(bad) \in 0..(M - 1)
    BY <1>0, <2>2, <2>3
  <2>5. Taken(Min(bad) - 1) BY <2>2, <2>4
  <2>6. Taken(Min(bad)) BY <1>2, <2>4, <2>5
  <2> QED BY <2>2, <2>6
<1> QED BY <1>3 DEF Taken, M

\* The cuts of strings.Split: the n-th part lies between two neighbours.
Cutting(t, separator, parts, N, c) ==
  /\ N \in Nat /\ N >= 1
  /\ \A n \in 0..N : c[n] \in 0..(Len(t) + 1)
  /\ c[0] = 0 /\ c[N] = Len(t) + 1
  /\ \A m, n \in 0..N : m < n => c[m] < c[n]
  /\ \A n \in 1..N : \A i \in DOMAIN t : c[n - 1] < i /\ i < c[n] => t[i] # separator
  /\ \A n \in 1..(N - 1) : c[n] \in DOMAIN t /\ t[c[n]] = separator
  /\ parts = [n \in 1..N |-> SubSeq(t, c[n - 1] + 1, c[n] - 1)]

\* Split cuts a text in order, at every separator and nowhere else.
LEMMA SplitCuts ==
  ASSUME NEW t, IsSequence(t), NEW separator
  PROVE  \E N, c : Cutting(t, separator, Split(t, separator), N, c)
<1> DEFINE L == Len(t)
           C == {0, L + 1} \cup {i \in DOMAIN t : t[i] = separator}
           cut(n) == CHOOSE i \in C : Cardinality({j \in C : j < i}) = n
           N == Cardinality(C) - 1
           c == [n \in 0..N |-> cut(n)]
<1>1. L \in Nat /\ DOMAIN t = 1..L
  BY DEF IsSequence
<1>2. Split(t, separator) = [n \in 1..Cardinality(C) - 1 |-> SubSeq(t, cut(n - 1) + 1, cut(n) - 1)]
  BY DEF Split
<1>3. /\ C \subseteq 0..(L + 1) /\ C \subseteq Nat /\ 0 \in C /\ L + 1 \in C
      /\ \A i \in C : i \notin {0, L + 1} => i \in DOMAIN t /\ t[i] = separator
      /\ \A i \in DOMAIN t : t[i] = separator => i \in C
  BY <1>1
<1> HIDE DEF L, C
<1>4. IsFiniteSet(C) /\ Cardinality(C) \in Nat
  <2>1. IsFiniteSet(0..(L + 1)) BY <1>1, FS_Interval
  <2>2. IsFiniteSet(C) BY <1>3, <2>1, FS_Subset
  <2> QED BY <2>2, FS_CardinalityType
<1>5. \A n : cut(n) = CHOOSE i \in C : rank(C, i) = n
  BY DEF rank
<1>6. N \in Nat /\ rank(C, 0) = 0 /\ rank(C, L + 1) = N /\ N >= 1
  <2>1. rank(C, 0) \in 0..N /\ rank(C, L + 1) \in 0..N BY <1>3, <1>4, RankOfNext
  <2>2. rank(C, L + 1) = N
    <3>1. \A j \in C : j <= L + 1 BY <1>1, <1>3
    <3> QED BY <1>3, <1>4, <3>1, RankOfNext
  <2>3. rank(C, 0) < rank(C, L + 1)
    <3>1. 0 < L + 1 BY <1>1
    <3> QED BY <1>3, <1>4, <3>1, RankOfNext
  <2>4. {j \in C : j < 0} = {}
    <3> SUFFICES ASSUME NEW j \in C, j < 0 PROVE FALSE OBVIOUS
    <3>1. j \in Nat BY <1>3
    <3> QED BY <3>1
  <2>5. rank(C, 0) = 0 BY <2>4, FS_EmptySet DEF rank
  <2>6. N \in Int BY <1>4
  <2> HIDE DEF N
  <2> QED BY <2>1, <2>2, <2>3, <2>5, <2>6
<1> HIDE DEF cut
<1>7. ASSUME NEW n \in 0..N PROVE cut(n) \in C /\ rank(C, cut(n)) = n
  <2>1. \E i \in C : rank(C, i) = n BY <1>3, <1>4, RanksAreTaken
  <2>2. cut(n) = CHOOSE i \in C : rank(C, i) = n BY <1>5
  <2> QED BY <2>1, <2>2
<1>8. ASSUME NEW i \in C, NEW j \in C, rank(C, i) < rank(C, j) PROVE i < j
  <2>1. i \in Nat /\ j \in Nat BY <1>3
  <2>2. rank(C, i) \in 0..N /\ rank(C, j) \in 0..N BY <1>3, <1>4, RankOfNext
  <2>3. CASE i = j BY <1>8, <1>6, <2>2, <2>3
  <2>4. CASE j < i
    <3>1. rank(C, j) < rank(C, i) BY <1>3, <1>4, <2>4, RankOfNext
    <3> HIDE DEF N
    <3> QED BY <1>6, <1>8, <2>2, <3>1
  <2> QED BY <2>1, <2>3, <2>4
<1>9. ASSUME NEW i \in C, NEW j \in C, rank(C, i) = rank(C, j) PROVE i = j
  <2>1. i \in Nat /\ j \in Nat BY <1>3
  <2>2. rank(C, i) \in 0..N /\ rank(C, j) \in 0..N BY <1>3, <1>4, RankOfNext
  <2> SUFFICES ASSUME i # j PROVE FALSE OBVIOUS
  <2>3. i < j \/ j < i BY <2>1
  <2>4. rank(C, i) < rank(C, j) \/ rank(C, j) < rank(C, i) BY <1>3, <1>4, <2>3, RankOfNext
  <2> HIDE DEF N
  <2> QED BY <1>6, <1>9, <2>2, <2>4
<1>10. \A n \in 0..N : c[n] = cut(n) /\ c[n] \in C /\ rank(C, c[n]) = n
  BY <1>7
<1>11. Split(t, separator) = [n \in 1..N |-> SubSeq(t, c[n - 1] + 1, c[n] - 1)]
  <2>1. \A n \in 1..N : n \in 0..N /\ n - 1 \in 0..N BY <1>6
  <2>2. \A n \in 1..N : c[n] = cut(n) /\ c[n - 1] = cut(n - 1) BY <1>10, <2>1
  <2> HIDE DEF c
  <2> QED BY <1>2, <2>2
<1> HIDE DEF c, N
<1>12. \A n \in 0..N : c[n] \in 0..(L + 1) BY <1>3, <1>10
<1>13. c[0] = 0 /\ c[N] = L + 1
  <2>1. 0 \in 0..N /\ N \in 0..N BY <1>6
  <2>2. c[0] \in C /\ rank(C, c[0]) = rank(C, 0) BY <1>6, <1>10, <2>1
  <2>3. c[N] \in C /\ rank(C, c[N]) = rank(C, L + 1) BY <1>6, <1>10, <2>1
  <2> QED BY <1>3, <1>9, <2>2, <2>3
<1>14. \A m, n \in 0..N : m < n => c[m] < c[n]
  BY <1>8, <1>10
<1>15. ASSUME NEW n \in 1..N, NEW i \in DOMAIN t, c[n - 1] < i, i < c[n] PROVE t[i] # separator
  <2> SUFFICES ASSUME t[i] = separator PROVE FALSE OBVIOUS
  <2>1. i \in C BY <1>3
  <2>2. n - 1 \in 0..N /\ n \in 0..N BY <1>6
  <2>3. c[n - 1] \in C /\ c[n] \in C /\ rank(C, c[n - 1]) = n - 1 /\ rank(C, c[n]) = n
    BY <1>10, <2>2
  <2>4. rank(C, c[n - 1]) < rank(C, i) /\ rank(C, i) < rank(C, c[n])
    BY <1>3, <1>4, <1>15, <2>1, <2>3, RankOfNext
  <2>5. rank(C, i) \in 0..(Cardinality(C) - 1) BY <1>3, <1>4, <2>1, RankOfNext
  <2> QED BY <2>3, <2>4, <2>5
<1>16. ASSUME NEW n \in 1..(N - 1) PROVE c[n] \in DOMAIN t /\ t[c[n]] = separator
  <2>1. n \in 0..N /\ n # 0 /\ n # N BY <1>6
  <2>2. c[n] \in C /\ rank(C, c[n]) = n BY <1>10, <2>1
  <2>3. c[n] # 0 /\ c[n] # L + 1 BY <1>6, <2>1, <2>2
  <2> QED BY <1>3, <2>2, <2>3
<1>17. Cutting(t, separator, Split(t, separator), N, c)
  BY <1>6, <1>11, <1>12, <1>13, <1>14, <1>15, <1>16 DEF Cutting, L
<1> QED BY <1>17

\* Between two places there is only one character.
Filled(t, lo, hi, x) == \A i \in (lo + 1)..(hi - 1) : t[i] = x

\* The parts between the cuts.
LEMMA PartsOfSplit ==
  ASSUME NEW t, IsSequence(t), NEW separator, NEW parts, NEW N, NEW c,
         Cutting(t, separator, parts, N, c), NEW n \in 1..N
  PROVE  /\ c[n - 1] \in 0..(Len(t) + 1) /\ c[n] \in 0..(Len(t) + 1) /\ c[n - 1] < c[n]
         /\ Len(parts[n]) = c[n] - c[n - 1] - 1
         /\ parts[n] = <<>> <=> c[n] = c[n - 1] + 1
         /\ \A S : ToSet(parts[n]) \subseteq S <=> \A i \in (c[n - 1] + 1)..(c[n] - 1) : t[i] \in S
         /\ \A x : parts[n] = Repeat(x, Len(parts[n])) <=> Filled(t, c[n - 1], c[n], x)
<1> DEFINE T == {t[i] : i \in DOMAIN t}
           lo == c[n - 1]
           hi == c[n]
           a == lo + 1
           b == hi - 1
           part == SubSeq(t, a, b)
           k == hi - lo - 1
<1>1. t \in Seq(T) /\ Len(t) \in Nat /\ DOMAIN t = 1..Len(t)
  BY DEF IsSequence
<1>2. N \in Nat /\ n - 1 \in 0..N /\ n \in 0..N /\ n - 1 < n
  BY DEF Cutting
<1>3. c[n - 1] \in 0..(Len(t) + 1) /\ c[n] \in 0..(Len(t) + 1) /\ c[n - 1] < c[n]
  BY <1>2 DEF Cutting
<1>4. parts[n] = part
  BY DEF Cutting
<1> HIDE DEF T
<1>5. /\ a \in 1..(Len(t) + 1) /\ b \in 0..Len(t) /\ k \in Nat /\ b = a + k - 1 /\ b - a + 1 = k
      /\ k = 0 <=> hi = lo + 1
  <2>1. lo \in Nat /\ hi \in Nat /\ lo < hi /\ hi <= Len(t) + 1 BY <1>1, <1>3
  <2> HIDE DEF lo, hi
  <2> QED BY <1>1, <2>1
<1>l. k = c[n] - c[n - 1] - 1 OBVIOUS
<1> HIDE DEF a, b, k, lo, hi
<1>6. part \in Seq(T) /\ Len(part) = k /\ DOMAIN part = 1..k /\ \A i \in 1..k : part[i] = t[a + i - 1]
  <2>1. CASE k = 0
    <3>1. a > b BY <1>5, <2>1
    <3>2. part = <<>> BY <1>1, <1>5, <3>1
    <3> QED BY <2>1, <3>2
  <2>2. CASE k # 0
    <3>1. a <= b /\ 1 <= a /\ b <= Len(t) /\ b - a + 1 = k BY <1>1, <1>5, <2>2
    <3>2. part \in Seq(T) /\ Len(part) = b - a + 1 /\ \A i \in 1..(b - a + 1) : part[i] = t[a + i - 1]
      BY <1>1, <1>5, <3>1
    <3> HIDE DEF part
    <3> QED BY <3>1, <3>2
  <2> QED BY <2>1, <2>2
<1> HIDE DEF part
<1>7. /\ \A i \in 1..k : a + i - 1 \in a..b
      /\ \A i \in a..b : i - a + 1 \in 1..k /\ a + (i - a + 1) - 1 = i
  BY <1>5
<1>8. \A i \in a..b : i - a + 1 \in 1..k /\ part[i - a + 1] = t[i]
  <2> SUFFICES ASSUME NEW i \in a..b PROVE i - a + 1 \in 1..k /\ part[i - a + 1] = t[i]
    OBVIOUS
  <2> DEFINE j == i - a + 1
  <2>1. j \in 1..k /\ a + j - 1 = i BY <1>7
  <2> HIDE DEF j
  <2>2. part[j] = t[i] BY <1>6, <2>1
  <2> QED BY <2>1, <2>2 DEF j
<1>9. Len(parts[n]) = c[n] - c[n - 1] - 1
  BY <1>4, <1>6, <1>l
<1>10. parts[n] = <<>> <=> c[n] = c[n - 1] + 1
  <2>1. part = <<>> <=> k = 0 BY <1>6
  <2>2. k = 0 <=> c[n] = c[n - 1] + 1 BY <1>5 DEF lo, hi
  <2> QED BY <1>4, <2>1, <2>2
<1>11. ASSUME NEW S PROVE ToSet(part) \subseteq S <=> \A i \in a..b : t[i] \in S
  <2>1. ToSet(part) = {part[i] : i \in 1..k} BY <1>6 DEF ToSet
  <2> QED BY <1>6, <1>7, <1>8, <2>1
<1>12. ASSUME NEW x PROVE part = Repeat(x, Len(part)) <=> \A i \in a..b : t[i] = x
  <2>1. Repeat(x, Len(part)) = [i \in 1..k |-> x] BY <1>6 DEF Repeat
  <2>2. part = [i \in 1..k |-> part[i]] BY <1>6
  <2>3. part = [i \in 1..k |-> x] <=> \A i \in 1..k : part[i] = x BY <2>2
  <2> QED BY <1>6, <1>7, <1>8, <2>1, <2>3
<1>13. \A x : Filled(t, c[n - 1], c[n], x) <=> \A i \in a..b : t[i] = x
  BY DEF Filled, a, b, lo, hi
<1>14. \A S : (\A i \in a..b : t[i] \in S) <=> (\A i \in (c[n - 1] + 1)..(c[n] - 1) : t[i] \in S)
  BY DEF a, b, lo, hi
<1> QED BY <1>3, <1>4, <1>9, <1>10, <1>11, <1>12, <1>13, <1>14

\* The next cut is the next separator, or the end.
LEMMA NextCut ==
  ASSUME NEW t, IsSequence(t), NEW separator, NEW parts, NEW N, NEW c,
         Cutting(t, separator, parts, N, c), NEW n \in 0..N,
         NEW p \in 1..(Len(t) + 1), c[n] < p, p = Len(t) + 1 \/ t[p] = separator,
         \A i \in (c[n] + 1)..(p - 1) : t[i] # separator
  PROVE  n + 1 \in 0..N /\ c[n + 1] = p
<1>1. Len(t) \in Nat /\ DOMAIN t = 1..Len(t) BY DEF IsSequence
<1>2. /\ N \in Nat /\ N >= 1
      /\ \A m \in 0..N : c[m] \in 0..(Len(t) + 1)
      /\ c[N] = Len(t) + 1
      /\ \A m, k \in 0..N : m < k => c[m] < c[k]
      /\ \A m \in 1..N : \A i \in DOMAIN t : c[m - 1] < i /\ i < c[m] => t[i] # separator
      /\ \A m \in 1..(N - 1) : c[m] \in DOMAIN t /\ t[c[m]] = separator
  BY DEF Cutting
<1>3. n # N BY <1>1, <1>2
<1> DEFINE m == n + 1
<1>4. m \in 0..N /\ m \in 1..N /\ n < m /\ m - 1 = n BY <1>2, <1>3
<1> HIDE DEF m
<1>5. c[n] < c[m] /\ c[m] \in 0..(Len(t) + 1) /\ c[n] \in 0..(Len(t) + 1) BY <1>2, <1>4
<1>6. ~(c[m] < p)
  <2> SUFFICES ASSUME c[m] < p PROVE FALSE OBVIOUS
  <2>1. m # N BY <1>1, <1>2, <1>5
  <2>2. m \in 1..(N - 1) BY <1>2, <1>4, <2>1
  <2>3. t[c[m]] = separator BY <1>2, <2>2
  <2>4. c[m] \in (c[n] + 1)..(p - 1) BY <1>1, <1>5
  <2> QED BY <2>3, <2>4
<1>7. ~(p < c[m])
  <2> SUFFICES ASSUME p < c[m] PROVE FALSE OBVIOUS
  <2>1. p \in DOMAIN t /\ p # Len(t) + 1 BY <1>1, <1>5
  <2>2. t[p] # separator BY <1>2, <1>4, <2>1
  <2> QED BY <2>1, <2>2
<1>8. c[m] = p BY <1>1, <1>5, <1>6, <1>7
<1> QED BY <1>4, <1>8 DEF m

\* Every character is a cut or lies in a part.
LEMMA CutsCover ==
  ASSUME NEW t, IsSequence(t), NEW separator, NEW parts, NEW N, NEW c,
         Cutting(t, separator, parts, N, c), NEW i \in DOMAIN t
  PROVE  \E n \in 1..N : \/ c[n - 1] < i /\ i < c[n]
                         \/ n - 1 \in 1..(N - 1) /\ c[n - 1] = i
<1>1. Len(t) \in Nat /\ DOMAIN t = 1..Len(t) BY DEF IsSequence
<1>2. /\ N \in Nat /\ N >= 1
      /\ \A m \in 0..N : c[m] \in 0..(Len(t) + 1)
      /\ c[0] = 0 /\ c[N] = Len(t) + 1
  BY DEF Cutting
<1> DEFINE after == {n \in 0..N : i < c[n]}
<1>3. N \in after BY <1>1, <1>2
<1>4. after \subseteq Nat BY <1>2
<1>5. Min(after) \in after /\ \A y \in after : Min(after) <= y
  <2> HIDE DEF after
  <2> QED BY <1>3, <1>4, MinOfNaturals
<1> DEFINE n == Min(after)
<1>6. n \in 0..N /\ i < c[n] BY <1>5
<1>7. n # 0 BY <1>1, <1>2, <1>6
<1>8. n \in 1..N /\ n - 1 \in 0..N /\ ~(n <= n - 1) BY <1>2, <1>6, <1>7
<1>9. n - 1 \notin after BY <1>5, <1>8
<1>10. ~(i < c[n - 1]) BY <1>8, <1>9
<1> HIDE DEF n, after
<1>11. c[n - 1] \in 0..(Len(t) + 1) BY <1>2, <1>8
<1>12. CASE c[n - 1] < i BY <1>6, <1>8, <1>12
<1>13. CASE c[n - 1] = i
  <2>1. n - 1 # 0 BY <1>1, <1>2, <1>13
  <2>2. n - 1 \in 1..(N - 1) BY <1>2, <1>8, <2>1
  <2> QED BY <1>8, <1>13, <2>2
<1> QED BY <1>1, <1>10, <1>11, <1>12, <1>13

\* Where the mandatory parts of a traceparent end.
endOf(n) == CASE n = 0 -> 0
              [] n = 1 -> VersionBytes + 1
              [] n = 2 -> VersionBytes + TraceBytes + 2
              [] n = 3 -> VersionBytes + TraceBytes + ParentBytes + 3
              [] OTHER -> base + 1

\* How the ends of the four mandatory parts follow from each other.
LEMMA Ends ==
  /\ endOf(0) = 0 /\ endOf(1) = VersionBytes + 1 /\ endOf(2) = endOf(1) + TraceBytes + 1
  /\ endOf(3) = endOf(2) + ParentBytes + 1 /\ endOf(4) = endOf(3) + FlagsBytes + 1
  /\ endOf(4) = base + 1 /\ base \in Nat
  /\ \A n \in 0..4 : endOf(n) \in Nat
  /\ dashes = {endOf(1), endOf(2), endOf(3)}
  /\ VersionBytes \in Nat /\ TraceBytes \in Nat /\ ParentBytes \in Nat /\ FlagsBytes \in Nat
  /\ VersionBytes > 0 /\ TraceBytes > 0 /\ ParentBytes > 0 /\ FlagsBytes > 0
<1>1. /\ VersionBytes \in Nat \ {0} /\ TraceBytes \in Nat \ {0}
      /\ ParentBytes \in Nat \ {0} /\ FlagsBytes \in Nat \ {0}
  BY TraceLengthAssumption
<1>2. /\ endOf(0) = 0 /\ endOf(1) = VersionBytes + 1 /\ endOf(2) = VersionBytes + TraceBytes + 2
      /\ endOf(3) = VersionBytes + TraceBytes + ParentBytes + 3 /\ endOf(4) = base + 1
  BY DEF endOf
<1>3. base = VersionBytes + TraceBytes + ParentBytes + FlagsBytes + 3 BY DEF base
<1>4. dashes = {endOf(1), endOf(2), endOf(3)} BY <1>2 DEF dashes
<1>5. endOf(0) \in Nat /\ endOf(1) \in Nat /\ endOf(2) \in Nat /\ endOf(3) \in Nat /\ endOf(4) \in Nat
  BY <1>1, <1>2, <1>3
<1>6. \A n \in 0..4 : n = 0 \/ n = 1 \/ n = 2 \/ n = 3 \/ n = 4 OBVIOUS
<1>7. \A n \in 0..4 : endOf(n) \in Nat BY <1>5, <1>6
<1> QED BY <1>1, <1>2, <1>3, <1>4, <1>7

\* The reference, in terms of the ends.
Positioned(t) ==
  LET filled(n, x) == \A i \in (endOf(n - 1) + 1)..(endOf(n) - 1) : t[i] = x IN
  /\ Len(t) >= base
  /\ \A n \in 1..3 : t[endOf(n)] = "-"
  /\ \A n \in 1..4 : \A i \in (endOf(n - 1) + 1)..(endOf(n) - 1) : t[i] \in LowerHexCharacters
  /\ ~filled(1, "f") /\ ~filled(2, "0") /\ ~filled(3, "0")
  /\ Len(t) > base =>
       /\ ~filled(1, "0")
       /\ t[base + 1] = "-" /\ t[Len(t)] # "-"
       /\ \A i \in (base + 1)..Len(t) : t[i] \in LowerHexCharacters \cup {"-"}
       /\ \A i \in (base + 1)..(Len(t) - 1) : t[i] = "-" => t[i + 1] # "-"

\* TraceParent, said with the ends of its parts.
LEMMA ReferencePositions ==
  ASSUME NEW t, IsSequence(t)
  PROVE  TraceParent(t) <=> Positioned(t)
<1> DEFINE all(from, to, x) == \A i \in from..to : t[i] = x
           filled(n, x) == \A i \in (endOf(n - 1) + 1)..(endOf(n) - 1) : t[i] = x
           trace == VersionBytes + 2
           parent == trace + TraceBytes + 1
           marked == \A i \in 1..base : t[i] \in IF i \in dashes THEN {"-"} ELSE LowerHexCharacters
           rest == /\ t[base + 1] = "-" /\ t[Len(t)] # "-"
                   /\ \A i \in (base + 1)..Len(t) : t[i] \in LowerHexCharacters \cup {"-"}
                   /\ \A i \in (base + 1)..(Len(t) - 1) : t[i] = "-" => t[i + 1] # "-"
           dashed == \A n \in 1..3 : t[endOf(n)] = "-"
           hex == \A n \in 1..4 : \A i \in (endOf(n - 1) + 1)..(endOf(n) - 1) : t[i] \in LowerHexCharacters
<1>1. \A x : /\ filled(1, x) <=> all(1, VersionBytes, x)
             /\ filled(2, x) <=> all(trace, trace + TraceBytes - 1, x)
             /\ filled(3, x) <=> all(parent, parent + ParentBytes - 1, x)
  <2>1. endOf(0) + 1 = 1 /\ endOf(1) - 1 = VersionBytes BY Ends
  <2>2. endOf(1) + 1 = trace /\ endOf(2) - 1 = trace + TraceBytes - 1 BY Ends
  <2>3. endOf(2) + 1 = parent /\ endOf(3) - 1 = parent + ParentBytes - 1 BY Ends
  <2>4. 1 - 1 = 0 /\ 2 - 1 = 1 /\ 3 - 1 = 2 OBVIOUS
  <2> HIDE DEF trace, parent
  <2> QED BY <2>1, <2>2, <2>3, <2>4
<1>2. marked <=> dashed /\ hex
  <2> DEFINE d1 == endOf(1)
             d2 == endOf(2)
             d3 == endOf(3)
             d4 == endOf(4)
  <2>1. /\ d1 \in Nat /\ d2 \in Nat /\ d3 \in Nat /\ d4 \in Nat /\ base = d4 - 1
        /\ 1 < d1 /\ d1 + 1 < d2 /\ d2 + 1 < d3 /\ d3 + 1 < d4
        /\ dashes = {d1, d2, d3}
    BY Ends
  <2>2. dashed <=> t[d1] = "-" /\ t[d2] = "-" /\ t[d3] = "-"
    <3>1. \A n \in 1..3 : n = 1 \/ n = 2 \/ n = 3 OBVIOUS
    <3> QED BY <3>1
  <2>3. hex <=> /\ \A i \in 1..(d1 - 1) : t[i] \in LowerHexCharacters
                /\ \A i \in (d1 + 1)..(d2 - 1) : t[i] \in LowerHexCharacters
                /\ \A i \in (d2 + 1)..(d3 - 1) : t[i] \in LowerHexCharacters
                /\ \A i \in (d3 + 1)..(d4 - 1) : t[i] \in LowerHexCharacters
    <3> DEFINE H(n) == \A i \in (endOf(n - 1) + 1)..(endOf(n) - 1) : t[i] \in LowerHexCharacters
    <3>1. \A n \in 1..4 : n = 1 \/ n = 2 \/ n = 3 \/ n = 4 OBVIOUS
    <3>2. hex <=> \A n \in 1..4 : H(n) OBVIOUS
    <3>3. H(1) <=> \A i \in 1..(d1 - 1) : t[i] \in LowerHexCharacters
      <4>1. endOf(1 - 1) + 1 = 1 BY Ends
      <4> QED BY <4>1
    <3>4. H(2) <=> \A i \in (d1 + 1)..(d2 - 1) : t[i] \in LowerHexCharacters
      <4>1. 2 - 1 = 1 OBVIOUS
      <4> QED BY <4>1
    <3>5. H(3) <=> \A i \in (d2 + 1)..(d3 - 1) : t[i] \in LowerHexCharacters
      <4>1. 3 - 1 = 2 OBVIOUS
      <4> QED BY <4>1
    <3>6. H(4) <=> \A i \in (d3 + 1)..(d4 - 1) : t[i] \in LowerHexCharacters
      <4>1. 4 - 1 = 3 OBVIOUS
      <4> QED BY <4>1
    <3> HIDE DEF H, hex
    <3> QED BY <3>1, <3>2, <3>3, <3>4, <3>5, <3>6
  <2> HIDE DEF d1, d2, d3, d4, hex, dashed
  <2>4. ASSUME marked PROVE dashed /\ hex
    <3>1. t[d1] = "-" /\ t[d2] = "-" /\ t[d3] = "-"
      BY <2>1, <2>4
    <3>2. ASSUME NEW i \in 1..(d4 - 1), i # d1, i # d2, i # d3 PROVE t[i] \in LowerHexCharacters
      BY <2>1, <2>4, <3>2
    <3>3. /\ \A i \in 1..(d1 - 1) : t[i] \in LowerHexCharacters
          /\ \A i \in (d1 + 1)..(d2 - 1) : t[i] \in LowerHexCharacters
          /\ \A i \in (d2 + 1)..(d3 - 1) : t[i] \in LowerHexCharacters
          /\ \A i \in (d3 + 1)..(d4 - 1) : t[i] \in LowerHexCharacters
      BY <2>1, <3>2
    <3> QED BY <2>2, <2>3, <3>1, <3>3
  <2>5. ASSUME dashed, hex PROVE marked
    <3> SUFFICES ASSUME NEW i \in 1..base
                 PROVE  t[i] \in IF i \in dashes THEN {"-"} ELSE LowerHexCharacters
      OBVIOUS
    <3>1. CASE i \in dashes BY <2>1, <2>2, <2>5, <3>1
    <3>2. CASE i \notin dashes
      <4>1. \/ i \in 1..(d1 - 1) \/ i \in (d1 + 1)..(d2 - 1) \/ i \in (d2 + 1)..(d3 - 1)
            \/ i \in (d3 + 1)..(d4 - 1)
        BY <2>1, <3>2
      <4> QED BY <2>3, <2>5, <3>2, <4>1
    <3> QED BY <3>1, <3>2
  <2> QED BY <2>4, <2>5
<1>3. TraceParent(t) <=>
        /\ Len(t) >= base /\ marked
        /\ ~all(1, VersionBytes, "f")
        /\ ~all(trace, trace + TraceBytes - 1, "0") /\ ~all(parent, parent + ParentBytes - 1, "0")
        /\ Len(t) > base => ~all(1, VersionBytes, "0") /\ rest
  BY DEF TraceParent, Last
<1>4. Positioned(t) <=>
        /\ Len(t) >= base /\ dashed /\ hex
        /\ ~filled(1, "f") /\ ~filled(2, "0") /\ ~filled(3, "0")
        /\ Len(t) > base => ~filled(1, "0") /\ rest
  BY DEF Positioned
<1> HIDE DEF all, filled, marked, rest, dashed, hex
<1> QED BY <1>1, <1>2, <1>3, <1>4

\* What validTraceParent asks of the cuts.
Aligned(t, N, c) ==
  LET filled(n, x) == \A i \in (endOf(n - 1) + 1)..(endOf(n) - 1) : t[i] = x IN
  /\ N >= 4 /\ \A n \in 0..4 : c[n] = endOf(n)
  /\ \A n \in 1..N : /\ c[n] # c[n - 1] + 1
                     /\ \A i \in (c[n - 1] + 1)..(c[n] - 1) : t[i] \in LowerHexCharacters
  /\ ~filled(1, "f") /\ ~filled(2, "0") /\ ~filled(3, "0")
  /\ filled(1, "0") => N = 4

\* The first five cuts, one by one.
LEMMA FourCuts ==
  ASSUME NEW c, c[0] = endOf(0), c[1] = endOf(1), c[2] = endOf(2), c[3] = endOf(3), c[4] = endOf(4)
  PROVE  \A n \in 0..4 : c[n] = endOf(n)
<1>1. \A n \in 0..4 : n = 0 \/ n = 1 \/ n = 2 \/ n = 3 \/ n = 4 OBVIOUS
<1> QED BY <1>1

\* The code's checks of the parts are checks of the text between the cuts.
LEMMA ValidAligned ==
  ASSUME NEW t, IsSequence(t), NEW N, NEW c, Cutting(t, "-", Split(t, "-"), N, c)
  PROVE  validTraceParent(t) <=> Aligned(t, N, c)
<1> DEFINE parts == Split(t, "-")
           dash == "-"
           filled(n, x) == \A i \in (endOf(n - 1) + 1)..(endOf(n) - 1) : t[i] = x
           within(n, S) == \A i \in (c[n - 1] + 1)..(c[n] - 1) : t[i] \in S
           same(n, x) == Filled(t, c[n - 1], c[n], x)
<1>1. validTraceParent(t) <=>
        /\ Len(parts) >= 4
        /\ [i \in 1..4 |-> Len(parts[i])] = <<VersionBytes, TraceBytes, ParentBytes, FlagsBytes>>
        /\ \A i \in DOMAIN parts : parts[i] # <<>> /\ lowerHex(parts[i])
        /\ parts[1] # Repeat("f", VersionBytes)
        /\ ~allZero(parts[2]) /\ ~allZero(parts[3])
        /\ parts[1] = Repeat("0", VersionBytes) => Len(parts) = 4
  BY DEF validTraceParent
<1>2. Cutting(t, dash, parts, N, c) OBVIOUS
<1> HIDE DEF parts, dash
<1>3. N \in Nat /\ N >= 1 /\ c[0] = 0 /\ Len(parts) = N /\ DOMAIN parts = 1..N
  BY <1>2 DEF Cutting
<1>4. \A n \in 1..N :
         /\ c[n - 1] \in 0..(Len(t) + 1) /\ c[n] \in 0..(Len(t) + 1) /\ c[n - 1] < c[n]
         /\ Len(parts[n]) = c[n] - c[n - 1] - 1
         /\ parts[n] = <<>> <=> c[n] = c[n - 1] + 1
         /\ \A S : ToSet(parts[n]) \subseteq S <=> within(n, S)
         /\ \A x : parts[n] = Repeat(x, Len(parts[n])) <=> same(n, x)
  <2> SUFFICES ASSUME NEW n \in 1..N
               PROVE  /\ c[n - 1] \in 0..(Len(t) + 1) /\ c[n] \in 0..(Len(t) + 1) /\ c[n - 1] < c[n]
                      /\ Len(parts[n]) = c[n] - c[n - 1] - 1
                      /\ parts[n] = <<>> <=> c[n] = c[n - 1] + 1
                      /\ \A S : ToSet(parts[n]) \subseteq S <=> within(n, S)
                      /\ \A x : parts[n] = Repeat(x, Len(parts[n])) <=> same(n, x)
    BY Zenon
  <2>1. /\ c[n - 1] \in 0..(Len(t) + 1) /\ c[n] \in 0..(Len(t) + 1) /\ c[n - 1] < c[n]
        /\ Len(parts[n]) = c[n] - c[n - 1] - 1
        /\ parts[n] = <<>> <=> c[n] = c[n - 1] + 1
    BY <1>2, PartsOfSplit
  <2>2. ASSUME NEW S PROVE ToSet(parts[n]) \subseteq S <=> within(n, S)
    BY <1>2, PartsOfSplit
  <2>3. ASSUME NEW x PROVE parts[n] = Repeat(x, Len(parts[n])) <=> same(n, x)
    BY <1>2, PartsOfSplit
  <2> QED BY <2>1, <2>2, <2>3
<1>5. ASSUME N >= 4
      PROVE  [i \in 1..4 |-> Len(parts[i])] = <<VersionBytes, TraceBytes, ParentBytes, FlagsBytes>>
             <=> \A n \in 0..4 : c[n] = endOf(n)
  <2> DEFINE l1 == Len(parts[1])
             l2 == Len(parts[2])
             l3 == Len(parts[3])
             l4 == Len(parts[4])
  <2>1. [i \in 1..4 |-> Len(parts[i])] = <<VersionBytes, TraceBytes, ParentBytes, FlagsBytes>>
        <=> l1 = VersionBytes /\ l2 = TraceBytes /\ l3 = ParentBytes /\ l4 = FlagsBytes
    <3> DEFINE f == [i \in 1..4 |-> Len(parts[i])]
    <3>1. \A i \in 1..4 : i = 1 \/ i = 2 \/ i = 3 \/ i = 4 OBVIOUS
    <3>2. f[1] = l1 /\ f[2] = l2 /\ f[3] = l3 /\ f[4] = l4 OBVIOUS
    <3>3. f = <<l1, l2, l3, l4>>
      BY <3>1
    <3> HIDE DEF f, l1, l2, l3, l4
    <3> QED BY <3>3 DEF f
  <2>2. 1 \in 1..N /\ 2 \in 1..N /\ 3 \in 1..N /\ 4 \in 1..N BY <1>3, <1>5
  <2>3. /\ l1 = c[1] - c[0] - 1 /\ l2 = c[2] - c[1] - 1 /\ l3 = c[3] - c[2] - 1 /\ l4 = c[4] - c[3] - 1
    <3>1. 1 - 1 = 0 /\ 2 - 1 = 1 /\ 3 - 1 = 2 /\ 4 - 1 = 3 OBVIOUS
    <3> QED BY <1>4, <2>2, <3>1
  <2>4. c[0] \in Int /\ c[1] \in Int /\ c[2] \in Int /\ c[3] \in Int /\ c[4] \in Int
    <3>1. \A n \in 1..N : c[n] \in Int
      <4> SUFFICES ASSUME NEW n \in 1..N PROVE c[n] \in Int OBVIOUS
      <4>1. c[n] \in 0..(Len(t) + 1) BY <1>4
      <4> QED BY <4>1
    <3> QED BY <1>3, <2>2, <3>1
  <2> HIDE DEF l1, l2, l3, l4
  <2>5. (l1 = VersionBytes /\ l2 = TraceBytes /\ l3 = ParentBytes /\ l4 = FlagsBytes)
        <=> c[1] = endOf(1) /\ c[2] = endOf(2) /\ c[3] = endOf(3) /\ c[4] = endOf(4)
    <3> DEFINE c1 == c[1]
               c2 == c[2]
               c3 == c[3]
               c4 == c[4]
    <3>1. l1 = c1 - 1 /\ l2 = c2 - c1 - 1 /\ l3 = c3 - c2 - 1 /\ l4 = c4 - c3 - 1
      BY <1>3, <2>3, <2>4
    <3>2. c1 \in Int /\ c2 \in Int /\ c3 \in Int /\ c4 \in Int BY <2>4
    <3> HIDE DEF c1, c2, c3, c4
    <3>3. (l1 = VersionBytes /\ l2 = TraceBytes /\ l3 = ParentBytes /\ l4 = FlagsBytes)
          <=> c1 = endOf(1) /\ c2 = endOf(2) /\ c3 = endOf(3) /\ c4 = endOf(4)
      BY <3>1, <3>2, Ends
    <3> QED BY <3>3 DEF c1, c2, c3, c4
  <2>6. c[0] = endOf(0) BY <1>3, Ends
  <2>7. (c[1] = endOf(1) /\ c[2] = endOf(2) /\ c[3] = endOf(3) /\ c[4] = endOf(4))
        <=> \A n \in 0..4 : c[n] = endOf(n)
    BY <2>6, FourCuts
  <2> QED BY <2>1, <2>5, <2>7
<1>6. ASSUME N >= 4, \A n \in 0..4 : c[n] = endOf(n), NEW n \in 1..3
      PROVE  /\ \A x : same(n, x) <=> filled(n, x)
             /\ n \in 1..N
  <2>1. c[n] = endOf(n) /\ c[n - 1] = endOf(n - 1) BY <1>6
  <2> QED BY <1>3, <1>6, <2>1 DEF Filled
<1>7. ASSUME N >= 4, \A n \in 0..4 : c[n] = endOf(n)
      PROVE  /\ \A x : parts[1] = Repeat(x, VersionBytes) <=> filled(1, x)
             /\ allZero(parts[2]) <=> filled(2, "0")
             /\ allZero(parts[3]) <=> filled(3, "0")
  <2>1. Len(parts[1]) = VersionBytes
    <3>1. 1 \in 1..N /\ 1 - 1 = 0 BY <1>3, <1>7
    <3>2. c[1] = endOf(1) BY <1>7
    <3>3. Len(parts[1]) = c[1] - 0 - 1 BY <1>3, <1>4, <3>1
    <3> QED BY <3>2, <3>3, Ends
  <2>2. \A x : parts[1] = Repeat(x, VersionBytes) <=> same(1, x)
    <3>1. 1 \in 1..N BY <1>3, <1>7
    <3> HIDE DEF same
    <3> QED BY <1>4, <2>1, <3>1
  <2>3. \A n \in 1..N : allZero(parts[n]) <=> same(n, "0")
    <3> SUFFICES ASSUME NEW n \in 1..N PROVE allZero(parts[n]) <=> same(n, "0")
      OBVIOUS
    <3>1. allZero(parts[n]) <=> within(n, {"0"})
      <4> DEFINE Z == {"0"}
      <4>1. allZero(parts[n]) <=> ToSet(parts[n]) \subseteq Z BY DEF allZero
      <4> HIDE DEF Z, within
      <4>2. allZero(parts[n]) <=> within(n, Z) BY <1>4, <4>1
      <4> QED BY <4>2 DEF Z
    <3> QED BY <3>1 DEF Filled
  <2>4. 1 \in 1..3 /\ 2 \in 1..3 /\ 3 \in 1..3 OBVIOUS
  <2>5. (\A x : same(1, x) <=> filled(1, x)) /\ (same(2, "0") <=> filled(2, "0"))
        /\ (same(3, "0") <=> filled(3, "0")) /\ 2 \in 1..N /\ 3 \in 1..N
    <3> HIDE DEF same, filled
    <3> QED BY <1>6, <1>7, <2>4
  <2> HIDE DEF same, filled
  <2> QED BY <2>2, <2>3, <2>5
<1>8. \A n \in 1..N : (parts[n] # <<>> /\ lowerHex(parts[n])) <=>
                        (c[n] # c[n - 1] + 1 /\ within(n, LowerHexCharacters))
  <2> HIDE DEF within
  <2> QED BY <1>4 DEF lowerHex
<1>9. Aligned(t, N, c) <=>
        /\ N >= 4 /\ \A n \in 0..4 : c[n] = endOf(n)
        /\ \A n \in 1..N : c[n] # c[n - 1] + 1 /\ within(n, LowerHexCharacters)
        /\ ~filled(1, "f") /\ ~filled(2, "0") /\ ~filled(3, "0")
        /\ filled(1, "0") => N = 4
  BY DEF Aligned
<1> HIDE DEF within, filled, same
<1>10. ASSUME N >= 4, \A n \in 0..4 : c[n] = endOf(n)
       PROVE  validTraceParent(t) <=> Aligned(t, N, c)
  <2>1. (\A i \in DOMAIN parts : parts[i] # <<>> /\ lowerHex(parts[i]))
        <=> \A n \in 1..N : c[n] # c[n - 1] + 1 /\ within(n, LowerHexCharacters)
    BY <1>3, <1>8
  <2>2. (parts[1] = Repeat("f", VersionBytes) <=> filled(1, "f"))
        /\ (parts[1] = Repeat("0", VersionBytes) <=> filled(1, "0"))
        /\ (allZero(parts[2]) <=> filled(2, "0")) /\ (allZero(parts[3]) <=> filled(3, "0"))
    BY <1>7, <1>10
  <2>3. [i \in 1..4 |-> Len(parts[i])] = <<VersionBytes, TraceBytes, ParentBytes, FlagsBytes>>
    BY <1>5, <1>10
  <2>4. Len(parts) >= 4 /\ Len(parts) = N BY <1>3, <1>10
  <2> QED BY <1>1, <1>9, <1>10, <2>1, <2>2, <2>3, <2>4
<1>11. ASSUME ~(N >= 4 /\ \A n \in 0..4 : c[n] = endOf(n))
       PROVE  ~validTraceParent(t) /\ ~Aligned(t, N, c)
  BY <1>1, <1>3, <1>5, <1>9, <1>11
<1> QED BY <1>10, <1>11

\* Cuts in the right places are dashes in the right places.
LEMMA AlignedPositioned ==
  ASSUME NEW t, IsSequence(t), NEW parts, NEW N, NEW c, Cutting(t, "-", parts, N, c)
  PROVE  Aligned(t, N, c) <=> Positioned(t)
<1> DEFINE L == Len(t)
           dash == "-"
           filled(n, x) == \A i \in (endOf(n - 1) + 1)..(endOf(n) - 1) : t[i] = x
           Hex == LowerHexCharacters
<1>1. L \in Nat /\ DOMAIN t = 1..L BY DEF IsSequence
<1>2. Cutting(t, dash, parts, N, c) /\ dash = "-" /\ dash \notin Hex
  BY DEF LowerHexCharacters
<1>3. Aligned(t, N, c) <=>
        /\ N >= 4 /\ \A n \in 0..4 : c[n] = endOf(n)
        /\ \A n \in 1..N : /\ c[n] # c[n - 1] + 1
                           /\ \A i \in (c[n - 1] + 1)..(c[n] - 1) : t[i] \in Hex
        /\ ~filled(1, "f") /\ ~filled(2, "0") /\ ~filled(3, "0")
        /\ filled(1, "0") => N = 4
  BY DEF Aligned
<1>4. Positioned(t) <=>
        /\ L >= base
        /\ \A n \in 1..3 : t[endOf(n)] = dash
        /\ \A n \in 1..4 : \A i \in (endOf(n - 1) + 1)..(endOf(n) - 1) : t[i] \in Hex
        /\ ~filled(1, "f") /\ ~filled(2, "0") /\ ~filled(3, "0")
        /\ L > base =>
             /\ ~filled(1, "0")
             /\ t[base + 1] = dash /\ t[L] # dash
             /\ \A i \in (base + 1)..L : t[i] \in Hex \cup {dash}
             /\ \A i \in (base + 1)..(L - 1) : t[i] = dash => t[i + 1] # dash
  BY DEF Positioned
<1>5. /\ N \in Nat /\ N >= 1
      /\ \A n \in 0..N : c[n] \in 0..(L + 1)
      /\ c[0] = 0 /\ c[N] = L + 1
      /\ \A m, n \in 0..N : m < n => c[m] < c[n]
      /\ \A n \in 1..N : \A i \in DOMAIN t : c[n - 1] < i /\ i < c[n] => t[i] # dash
      /\ \A n \in 1..(N - 1) : c[n] \in DOMAIN t /\ t[c[n]] = dash
  BY <1>2 DEF Cutting
<1> HIDE DEF L, dash, filled, Hex
<1>6. ASSUME Aligned(t, N, c) PROVE Positioned(t)
  <2>1. N >= 4 /\ (\A n \in 0..4 : c[n] = endOf(n)) BY <1>3, <1>6
  <2>2. \A n \in 1..N : /\ c[n] # c[n - 1] + 1
                        /\ \A i \in (c[n - 1] + 1)..(c[n] - 1) : t[i] \in Hex
    BY <1>3, <1>6
  <2>3. c[4] = base + 1 /\ base \in Nat BY <2>1, Ends
  <2>4. L >= base
    <3>1. c[4] \in 0..(L + 1) BY <1>5, <2>1
    <3> QED BY <1>1, <2>3, <3>1
  <2>5. \A n \in 1..3 : t[endOf(n)] = dash
    <3> SUFFICES ASSUME NEW n \in 1..3 PROVE t[endOf(n)] = dash OBVIOUS
    <3>1. n \in 1..(N - 1) /\ n \in 0..4 BY <1>5, <2>1
    <3> QED BY <1>5, <2>1, <3>1
  <2>6. \A n \in 1..4 : \A i \in (endOf(n - 1) + 1)..(endOf(n) - 1) : t[i] \in Hex
    <3> SUFFICES ASSUME NEW n \in 1..4
                 PROVE  \A i \in (endOf(n - 1) + 1)..(endOf(n) - 1) : t[i] \in Hex
      OBVIOUS
    <3>1. n \in 1..N /\ n \in 0..4 /\ n - 1 \in 0..4 BY <1>5, <2>1
    <3>2. c[n] = endOf(n) /\ c[n - 1] = endOf(n - 1) BY <2>1, <3>1
    <3> QED BY <2>2, <3>1, <3>2
  <2>7. ASSUME L > base
        PROVE  /\ ~filled(1, "0")
               /\ t[base + 1] = dash /\ t[L] # dash
               /\ \A i \in (base + 1)..L : t[i] \in Hex \cup {dash}
               /\ \A i \in (base + 1)..(L - 1) : t[i] = dash => t[i + 1] # dash
    <3>1. N # 4 BY <1>1, <1>5, <2>3, <2>7
    <3>2. ~filled(1, "0") BY <1>3, <1>6, <3>1
    <3>3. t[base + 1] = dash
      <4>1. 4 \in 1..(N - 1) BY <1>5, <2>1, <3>1
      <4> QED BY <1>5, <2>3, <4>1
    <3>c. \A i \in DOMAIN t : \E n \in 1..N : \/ c[n - 1] < i /\ i < c[n]
                                              \/ n - 1 \in 1..(N - 1) /\ c[n - 1] = i
      <4> SUFFICES ASSUME NEW i \in DOMAIN t
                   PROVE  \E n \in 1..N : \/ c[n - 1] < i /\ i < c[n]
                                          \/ n - 1 \in 1..(N - 1) /\ c[n - 1] = i
        OBVIOUS
      <4>1. Cutting(t, dash, parts, N, c) BY <1>2
      <4> QED BY <4>1, CutsCover
    <3>4. ASSUME NEW i \in DOMAIN t, t[i] = dash
          PROVE  \E n \in 1..N : c[n - 1] = i /\ i + 1 < c[n]
      <4>1. PICK n \in 1..N : \/ c[n - 1] < i /\ i < c[n]
                              \/ n - 1 \in 1..(N - 1) /\ c[n - 1] = i
        BY <3>c
      <4>2. ~(c[n - 1] < i /\ i < c[n]) BY <1>5, <3>4
      <4>3. c[n - 1] = i BY <4>1, <4>2
      <4>4. n \in 0..N /\ n - 1 \in 0..N /\ n - 1 < n BY <1>5
      <4>5. c[n - 1] < c[n] /\ c[n - 1] \in Int /\ c[n] \in Int BY <1>1, <1>5, <4>4
      <4>6. c[n] # i + 1 BY <2>2, <4>3
      <4>7. i + 1 < c[n] BY <1>1, <4>3, <4>5, <4>6
      <4> QED BY <4>3, <4>7
    <3>5. t[L] # dash
      <4> SUFFICES ASSUME t[L] = dash PROVE FALSE OBVIOUS
      <4>1. L \in DOMAIN t BY <1>1, <2>3, <2>7
      <4>2. PICK n \in 1..N : c[n - 1] = L /\ L + 1 < c[n] BY <3>4, <4>1
      <4>3. n \in 0..N BY <1>5
      <4>4. c[n] \in 0..(L + 1) BY <1>5, <4>3
      <4> QED BY <1>1, <4>2, <4>4
    <3>6. ASSUME NEW i \in (base + 1)..L PROVE t[i] \in Hex \cup {dash}
      <4>1. i \in DOMAIN t BY <1>1, <2>3
      <4>2. PICK n \in 1..N : \/ c[n - 1] < i /\ i < c[n]
                              \/ n - 1 \in 1..(N - 1) /\ c[n - 1] = i
        BY <3>c, <4>1
      <4>3. CASE c[n - 1] < i /\ i < c[n]
        <5>1. n \in 0..N /\ n - 1 \in 0..N BY <1>5
        <5>2. c[n - 1] \in Int /\ c[n] \in Int BY <1>1, <1>5, <5>1
        <5>3. i \in (c[n - 1] + 1)..(c[n] - 1) BY <4>3, <5>2
        <5> QED BY <2>2, <5>3
      <4>4. CASE n - 1 \in 1..(N - 1) /\ c[n - 1] = i BY <1>5, <4>4
      <4> QED BY <4>2, <4>3, <4>4
    <3>7. ASSUME NEW i \in (base + 1)..(L - 1), t[i] = dash PROVE t[i + 1] # dash
      <4>1. i \in DOMAIN t /\ i + 1 \in DOMAIN t /\ i < i + 1 BY <1>1, <2>3
      <4>2. PICK n \in 1..N : c[n - 1] = i /\ i + 1 < c[n] BY <3>4, <3>7, <4>1
      <4> QED BY <1>5, <4>1, <4>2
    <3> QED BY <3>2, <3>3, <3>5, <3>6, <3>7
  <2>8. ~filled(1, "f") /\ ~filled(2, "0") /\ ~filled(3, "0") BY <1>3, <1>6
  <2> QED BY <1>4, <2>4, <2>5, <2>6, <2>7, <2>8
<1>7. ASSUME Positioned(t) PROVE Aligned(t, N, c)
  <2>1. /\ L >= base
        /\ \A n \in 1..3 : t[endOf(n)] = dash
        /\ \A n \in 1..4 : \A i \in (endOf(n - 1) + 1)..(endOf(n) - 1) : t[i] \in Hex
    BY <1>4, <1>7
  <2>2. L > base => /\ ~filled(1, "0")
                    /\ t[base + 1] = dash /\ t[L] # dash
                    /\ \A i \in (base + 1)..L : t[i] \in Hex \cup {dash}
                    /\ \A i \in (base + 1)..(L - 1) : t[i] = dash => t[i + 1] # dash
    BY <1>4, <1>7
  <2>3. ASSUME NEW n \in 0..N, NEW p \in 1..(L + 1), c[n] < p, p = L + 1 \/ t[p] = dash,
               \A i \in (c[n] + 1)..(p - 1) : t[i] \in Hex
        PROVE  n + 1 \in 0..N /\ c[n + 1] = p
    <3>1. \A i \in (c[n] + 1)..(p - 1) : t[i] # dash BY <1>2, <2>3
    <3>2. Cutting(t, dash, parts, N, c) BY <1>2
    <3>3. p \in 1..(Len(t) + 1) /\ (p = Len(t) + 1 \/ t[p] = dash) BY <2>3 DEF L
    <3> QED BY <2>3, <3>1, <3>2, <3>3, NextCut
  <2>4. /\ endOf(0) = 0 /\ \A n \in 0..4 : endOf(n) \in Nat
        /\ endOf(0) + 1 < endOf(1) /\ endOf(1) + 1 < endOf(2)
        /\ endOf(2) + 1 < endOf(3) /\ endOf(3) + 1 < endOf(4)
        /\ endOf(4) = base + 1 /\ base \in Nat
    BY Ends
  <2>b. base \in Nat /\ L \in Nat /\ L >= base BY <1>1, <2>1, <2>4
  <2>5. ASSUME NEW m \in 0..3, m \in 0..N, c[m] = endOf(m) PROVE m + 1 \in 0..N /\ c[m + 1] = endOf(m + 1)
    <3> DEFINE p == endOf(m + 1)
               o == endOf(m)
    <3>m. m = 0 \/ m = 1 \/ m = 2 \/ m = 3 OBVIOUS
    <3>1. o \in Nat /\ p \in Nat /\ o < p /\ p <= base + 1
      BY <2>4, <3>m
    <3>2. p \in 1..(L + 1)
      <4> HIDE DEF p, o
      <4>1. L + 1 >= base + 1 /\ 1 <= p BY <1>1, <2>1, <2>4, <3>1
      <4> QED BY <1>1, <2>4, <3>1, <4>1
    <3>3. \A i \in (o + 1)..(p - 1) : t[i] \in Hex
      <4>1. m + 1 \in 1..4 /\ (m + 1) - 1 = m OBVIOUS
      <4> QED BY <2>1, <4>1
    <3>4. p = L + 1 \/ t[p] = dash
      <4>1. CASE m = 3
        <5>1. p = base + 1 BY <2>4, <4>1
        <5>2. L = base \/ L > base BY <2>b
        <5>3. CASE L = base BY <5>1, <5>3
        <5>4. CASE L > base
          <6>1. t[base + 1] = dash BY <2>2, <5>4
          <6> HIDE DEF p
          <6> QED BY <5>1, <6>1
        <5> QED BY <5>2, <5>3, <5>4
      <4>2. CASE m # 3
        <5>1. m + 1 \in 1..3 BY <4>2
        <5> QED BY <2>1, <5>1
      <4> QED BY <4>1, <4>2
    <3>5. c[m] = o BY <2>5
    <3> HIDE DEF p, o
    <3>6. m + 1 \in 0..N /\ c[m + 1] = p
      BY <2>3, <2>5, <3>1, <3>2, <3>3, <3>4, <3>5
    <3> QED BY <3>6 DEF p
  <2>6. N >= 4 /\ \A n \in 0..4 : c[n] = endOf(n)
    <3>0. 0 \in 0..N /\ c[0] = endOf(0) BY <1>5, <2>4
    <3>1. 1 \in 0..N /\ c[1] = endOf(1) BY <2>5, <3>0
    <3>2. 2 \in 0..N /\ c[2] = endOf(2) BY <2>5, <3>1
    <3>3. 3 \in 0..N /\ c[3] = endOf(3) BY <2>5, <3>2
    <3>4. 4 \in 0..N /\ c[4] = endOf(4) BY <2>5, <3>3
    <3>5. \A n \in 0..4 : c[n] = endOf(n) BY <3>0, <3>1, <3>2, <3>3, <3>4, FourCuts
    <3>6. N >= 4 BY <1>5, <3>4
    <3> QED BY <3>5, <3>6
  <2>7. c[4] = base + 1 BY <2>4, <2>6
  <2>8. ASSUME NEW n \in 1..N PROVE \A i \in (c[n - 1] + 1)..(c[n] - 1) : t[i] \in Hex
    <3> SUFFICES ASSUME NEW i \in (c[n - 1] + 1)..(c[n] - 1) PROVE t[i] \in Hex
      OBVIOUS
    <3>1. n \in 0..N /\ n - 1 \in 0..N /\ n - 1 < n BY <1>5
    <3>2. c[n - 1] \in 0..(L + 1) /\ c[n] \in 0..(L + 1) BY <1>5, <3>1
    <3>3. i \in 1..L /\ c[n - 1] < i /\ i < c[n] BY <1>1, <3>2
    <3>4. t[i] # dash BY <1>1, <1>5, <3>3
    <3>5. CASE i <= base
      <4>1. n <= 4
        <5> SUFFICES ASSUME n > 4 PROVE FALSE BY <1>5
        <5>1. 4 \in 0..N /\ (n - 1 = 4 \/ 4 < n - 1) BY <1>5, <2>6
        <5> DEFINE x == c[n - 1]
        <5>2. x \in Int /\ x < i BY <1>1, <3>2, <3>3
        <5>3. x = base + 1 \/ base + 1 < x
          <6>1. CASE n - 1 = 4 BY <2>7, <6>1
          <6>2. CASE 4 < n - 1
            <7>1. c[4] < c[n - 1] BY <1>5, <3>1, <5>1, <6>2
            <7> QED BY <2>7, <7>1
          <6> QED BY <5>1, <6>1, <6>2
        <5> HIDE DEF x
        <5> QED BY <1>1, <2>4, <3>3, <3>5, <5>2, <5>3
      <4>2. n \in 1..4 /\ n \in 0..4 /\ n - 1 \in 0..4 BY <1>5, <4>1
      <4>3. c[n] = endOf(n) /\ c[n - 1] = endOf(n - 1) BY <2>6, <4>2
      <4> QED BY <2>1, <4>2, <4>3
    <3>6. CASE ~(i <= base)
      <4>1. L > base /\ i \in (base + 1)..L BY <1>1, <2>4, <3>3, <3>6
      <4> QED BY <2>2, <3>4, <4>1
    <3> QED BY <3>5, <3>6
  <2>9. ASSUME NEW n \in 1..N PROVE c[n] # c[n - 1] + 1
    <3> SUFFICES ASSUME c[n] = c[n - 1] + 1 PROVE FALSE OBVIOUS
    <3>1. n \in 0..N /\ n - 1 \in 0..N BY <1>5
    <3>2. CASE n <= 4
      <4>1. n = 1 \/ n = 2 \/ n = 3 \/ n = 4 BY <3>2
      <4>2. c[0] = endOf(0) /\ c[1] = endOf(1) /\ c[2] = endOf(2) /\ c[3] = endOf(3) /\ c[4] = endOf(4)
        BY <2>6
      <4> QED BY <2>4, <4>1, <4>2
    <3>3. CASE ~(n <= 4)
      <4> DEFINE q == c[n - 1]
      <4>1. n - 1 \in 1..(N - 1) /\ 4 \in 0..N /\ (n - 1 = 4 \/ 4 < n - 1) BY <1>5, <2>6, <3>3
      <4>2. q \in 1..L /\ t[q] = dash BY <1>1, <1>5, <4>1
      <4>q. q \in 1..L BY <4>2
      <4>3. base + 1 <= q
        <5>1. CASE n - 1 = 4 BY <2>4, <2>7, <5>1
        <5>2. CASE 4 < n - 1
          <6>1. c[4] < q BY <1>5, <3>1, <4>1, <5>2
          <6> HIDE DEF q
          <6>2. q \in Nat BY <4>q
          <6> QED BY <2>b, <2>7, <6>1, <6>2
        <5> QED BY <4>1, <5>1, <5>2
      <4>4. L > base
        <5> HIDE DEF q
        <5> QED BY <2>b, <4>3, <4>q
      <4>5. CASE n = N
        <5>1. q = L
          <6>1. q + 1 = L + 1 BY <1>5, <4>5
          <6> HIDE DEF q
          <6> QED BY <1>1, <4>2, <6>1
        <5> QED BY <2>2, <4>2, <4>4, <5>1
      <4>6. CASE n # N
        <5>1. n \in 1..(N - 1) BY <1>5, <4>6
        <5>2. q + 1 \in 1..L /\ t[q + 1] = dash BY <1>1, <1>5, <5>1
        <5> HIDE DEF q
        <5>3. q \in (base + 1)..(L - 1) BY <1>1, <2>4, <4>2, <4>3, <5>2
        <5> QED BY <2>2, <4>2, <4>4, <5>2, <5>3
      <4> QED BY <4>5, <4>6
    <3> QED BY <3>2, <3>3
  <2>10. filled(1, "0") => N = 4
    <3> SUFFICES ASSUME N # 4 PROVE ~filled(1, "0") OBVIOUS
    <3>1. 4 \in 0..N /\ N \in 0..N /\ 4 < N BY <1>5, <2>6
    <3>2. c[4] < c[N] BY <1>5, <3>1
    <3>3. L > base BY <1>1, <1>5, <2>4, <2>7, <3>2
    <3> QED BY <2>2, <3>3
  <2>11. ~filled(1, "f") /\ ~filled(2, "0") /\ ~filled(3, "0") BY <1>4, <1>7
  <2> QED BY <1>3, <2>6, <2>8, <2>9, <2>10, <2>11
<1> QED BY <1>6, <1>7

\* For every text, splitting and checking the parts accepts what has the right character
\* at every position.
LEMMA ParentGrammar ==
  ASSUME NEW t, IsSequence(t)
  PROVE  validTraceParent(t) <=> TraceParent(t)
<1> DEFINE parts == Split(t, "-")
<1>1. PICK N, c : Cutting(t, "-", parts, N, c)
  BY SplitCuts
<1>2. validTraceParent(t) <=> Aligned(t, N, c)
  BY <1>1, ValidAligned
<1>3. Aligned(t, N, c) <=> Positioned(t)
  <2> HIDE DEF parts
  <2> QED BY <1>1, AlignedPositioned
<1> QED BY <1>2, <1>3, ReferencePositions

\* A text stays a sequence of characters.
LEMMA TextIsSequence == TraceSpec => []IsSequence(text)
<1>1. TraceInit => IsSequence(text)
  <2>1. <<>> \in Seq({}) OBVIOUS
  <2> QED BY <2>1, SequenceOfMembers DEF TraceInit
<1>2. IsSequence(text) /\ [TraceNext]_traceVars => IsSequence(text)'
  <2> SUFFICES ASSUME IsSequence(text), [TraceNext]_traceVars PROVE IsSequence(text')
    BY DEF IsSequence
  <2>1. CASE TraceNext
    <3>1. PICK c \in alphabet.characters : text' = Append(text, c)
      BY <2>1 DEF TraceNext, Read
    <3> DEFINE S == {text[i] : i \in DOMAIN text} \cup {c}
    <3>2. text \in Seq(S) /\ c \in S BY DEF IsSequence
    <3> HIDE DEF S
    <3>3. text' \in Seq(S) BY <3>1, <3>2
    <3> QED BY <3>3, SequenceOfMembers
  <2>2. CASE UNCHANGED traceVars BY <2>2 DEF traceVars
  <2> QED BY <2>1, <2>2
<1> QED BY <1>1, <1>2, PTL DEF TraceSpec

\* Whatever the lengths of its parts, a text of any length is a traceparent to
\* validTraceParent, which splits it at its dashes, exactly if it has the right
\* character at every position: no dash shifts a part, no empty part and no
\* trailing dash passes, and only a later version may have more than four parts.
THEOREM TraceParentGrammar == TraceSpec => []ParentAgrees
<1>1. IsSequence(text) => ParentAgrees
  BY ParentGrammar DEF ParentAgrees
<1> QED BY <1>1, TextIsSequence, PTL

-----------------------------------------------------------------------------
(* The tracestate.  Both sides are compared with a definition by positions, *)
(* StateAt: the code's splitting, trimming and cutting find its members,    *)
(* keys and values, and the automaton's state tells after every character   *)
(* how far the text is one, or that no text it begins is.                   *)

Comma  == ","
Equals == "="
At     == "@"
Space  == " "
Tab    == "tab"

\* How the character classes lie to each other.
LEMMA Characters ==
  /\ LowerCase \cup Digits \subseteq KeyCharacters /\ LowerCase \subseteq LowerCase \cup Digits
  /\ KeyCharacters \cap (Blanks \cup {Comma, Equals, At}) = {}
  /\ Comma \notin ValueCharacters /\ Equals \notin ValueCharacters /\ Tab \notin ValueCharacters
  /\ Space \in Blanks /\ Tab \in Blanks /\ Space # Tab /\ ValueCharacters \cap Blanks = {Space}
  /\ Comma \notin Blanks /\ Equals \notin Blanks /\ At \notin Blanks /\ Comma # Equals /\ Comma # At /\ Equals # At
  /\ KeyCharacters \subseteq ValueCharacters
BY DEF LowerCase, Digits, KeyCharacters, Blanks, ValueCharacters, Comma, Equals, At, Space, Tab

\* u begins with t.
Extends(u, t) == Len(t) <= Len(u) /\ \A i \in 1..Len(t) : u[i] = t[i]

commas(t) == {i \in DOMAIN t : t[i] = Comma}
starts(t) == {0} \cup commas(t)

\* A member lies between neighbouring commas.
Member(t, a, b) ==
  /\ a \in 0..Len(t) /\ b \in 1..(Len(t) + 1) /\ a < b
  /\ a = 0 \/ t[a] = Comma
  /\ b = Len(t) + 1 \/ t[b] = Comma
  /\ \A i \in (a + 1)..(b - 1) : t[i] # Comma

\* The characters from s to the one before q are a key.
KeyFrom(t, s, q) ==
  /\ s < q /\ q - s <= MaxKeyBytes
  /\ \/ t[s] \in LowerCase /\ \A i \in s..(q - 1) : t[i] \in KeyCharacters
     \/ \E p \in (s + 1)..(q - 2) :
          /\ t[p] = At /\ p - s <= MaxTenantBytes /\ q - 1 - p <= MaxSystemBytes
          /\ t[s] \in LowerCase \cup Digits /\ t[p + 1] \in LowerCase
          /\ \A i \in s..(p - 1) : t[i] \in KeyCharacters
          /\ \A i \in (p + 1)..(q - 1) : t[i] \in KeyCharacters

\* The member that starts after a has its key from s on and its equals sign at q.
Named(t, a, s, q) ==
  /\ s \in 1..Len(t) /\ q \in 1..Len(t) /\ a < s
  /\ \A i \in (a + 1)..(s - 1) : t[i] \in Blanks
  /\ t[q] = Equals /\ KeyFrom(t, s, q)

HasKey(t, a, k) == \E s, q \in 1..Len(t) : Named(t, a, s, q) /\ k = SubSeq(t, s, q - 1)

\* The value after q ends at e, before the member ends at b.
Valued(t, q, e, b) ==
  /\ e \in 1..Len(t) /\ q < e /\ e < b /\ e - q <= MaxValueBytes /\ t[e] # Space
  /\ \A i \in (q + 1)..e : t[i] \in ValueCharacters
  /\ \A i \in (e + 1)..(b - 1) : t[i] \in Blanks

WellFormed(t, a, b) == \E s, q, e \in 1..Len(t) : Named(t, a, s, q) /\ Valued(t, q, e, b)

Distinct(t) == \A x, y \in starts(t) : \A k : HasKey(t, x, k) /\ HasKey(t, y, k) => x = y

\* A tracestate by positions.
StateAt(t) ==
  /\ Len(t) \in 1..MaxStateBytes
  /\ t[1] \notin Blanks /\ t[Len(t)] \notin Blanks
  /\ Cardinality(commas(t)) < MaxMembers
  /\ \A a, b : Member(t, a, b) => WellFormed(t, a, b)
  /\ Distinct(t)

-----------------------------------------------------------------------------
(* The automaton.                                                           *)

\* a is the start of the member being read.
Opened(t, a) ==
  /\ a \in 0..Len(t) /\ (a = 0 \/ t[a] = Comma)
  /\ \A i \in (a + 1)..Len(t) : t[i] # Comma

Closed(t) == \A x, y : Member(t, x, y) /\ y <= Len(t) => WellFormed(t, x, y)

Listed(t, keys) == \A k : k \in keys <=> \E x \in starts(t) : HasKey(t, x, k)

Ledger(t, a, keys, open) ==
  /\ Opened(t, a) /\ (Len(t) > 0 => t[1] \notin Blanks)
  /\ Cardinality(commas(t)) < MaxMembers
  /\ IsFiniteSet(keys) /\ Cardinality(keys) = Cardinality(commas(t)) + open
  /\ Closed(t) /\ Distinct(t) /\ Listed(t, keys)

Led(t, a, s) == s \in (a + 1)..Len(t) /\ \A i \in (a + 1)..(s - 1) : t[i] \in Blanks

BeforeKey(t, a) == \A i \in (a + 1)..Len(t) : t[i] \in Blanks

WithinKey(t, a, s, key) ==
  /\ Led(t, a, s) /\ t[s] \in LowerCase \cup Digits
  /\ \A i \in s..Len(t) : t[i] \in KeyCharacters
  /\ Len(t) - s + 1 <= MaxKeyBytes /\ key = SubSeq(t, s, Len(t))

WithinSystem(t, a, s, p, key, system) ==
  /\ Led(t, a, s) /\ t[s] \in LowerCase \cup Digits
  /\ p \in (s + 1)..Len(t) /\ t[p] = At /\ p - s <= MaxTenantBytes
  /\ \A i \in s..(p - 1) : t[i] \in KeyCharacters
  /\ \A i \in (p + 1)..Len(t) : t[i] \in KeyCharacters
  /\ p < Len(t) => t[p + 1] \in LowerCase
  /\ system = Len(t) - p /\ system <= MaxSystemBytes
  /\ Len(t) - s + 1 <= MaxKeyBytes /\ key = SubSeq(t, s, Len(t))

WithinValue(t, a, s, q, e, value, blanks) ==
  /\ Named(t, a, s, q)
  /\ e \in q..Len(t) /\ value = e - q /\ value <= MaxValueBytes /\ blanks = Len(t) - e
  /\ e = q \/ t[e] # Space
  /\ \A i \in (q + 1)..e : t[i] \in ValueCharacters
  /\ \A i \in (e + 1)..Len(t) : t[i] = Space

BehindValue(t, a, s, q, e) ==
  /\ Named(t, a, s, q)
  /\ e \in (q + 1)..Len(t) /\ e - q <= MaxValueBytes /\ t[e] # Space
  /\ \A i \in (q + 1)..e : t[i] \in ValueCharacters
  /\ \A i \in (e + 1)..Len(t) : t[i] \in Blanks
  /\ \E i \in (e + 1)..Len(t) : t[i] = Tab

Reading(t, a, r) ==
  \/ r.phase = "start" /\ Ledger(t, a, r.keys, 0) /\ BeforeKey(t, a)
  \/ r.phase = "key" /\ Ledger(t, a, r.keys, 0) /\ \E s \in 1..Len(t) : WithinKey(t, a, s, r.key)
  \/ /\ r.phase = "system" /\ Ledger(t, a, r.keys, 0)
     /\ \E s, p \in 1..Len(t) : WithinSystem(t, a, s, p, r.key, r.system)
  \/ /\ r.phase = "value" /\ Ledger(t, a, r.keys, 1)
     /\ \E s, q, e \in 1..Len(t) : WithinValue(t, a, s, q, e, r.value, r.blanks)
  \/ /\ r.phase = "tail" /\ Ledger(t, a, r.keys, 1)
     /\ \E s, q, e \in 1..Len(t) : BehindValue(t, a, s, q, e)

Doomed(t) == \A u : IsSequence(u) /\ Extends(u, t) => ~StateAt(u)

Shaped(r) ==
  r = [phase |-> r.phase, key |-> r.key, system |-> r.system, value |-> r.value,
       blanks |-> r.blanks, keys |-> r.keys, dead |-> r.dead]

Scanned(t, r) ==
  /\ IsSequence(t) /\ Shaped(r)
  /\ IF r.phase = "dead" THEN Doomed(t) ELSE \E a \in 0..Len(t) : Reading(t, a, r)

-----------------------------------------------------------------------------

\* A slice of a sequence.
LEMMA SliceOf ==
  ASSUME NEW t, IsSequence(t), NEW m \in Nat, NEW n \in Nat, m >= 1, m <= n + 1, n <= Len(t)
  PROVE  /\ IsSequence(SubSeq(t, m, n)) /\ Len(SubSeq(t, m, n)) = n - m + 1
         /\ DOMAIN SubSeq(t, m, n) = 1..(n - m + 1)
         /\ \A i \in 1..(n - m + 1) : SubSeq(t, m, n)[i] = t[m + i - 1]
<1> DEFINE T == {t[i] : i \in DOMAIN t}
           part == SubSeq(t, m, n)
<1>1. t \in Seq(T) /\ Len(t) \in Nat BY DEF IsSequence
<1> HIDE DEF T
<1>2. /\ part \in Seq(T) /\ Len(part) = n - m + 1
      /\ \A i \in 1..(n - m + 1) : part[i] = t[m + i - 1]
  <2>1. CASE m > n
    <3>1. part = <<>> BY <1>1, <2>1
    <3>2. n - m + 1 = 0 BY <2>1
    <3> QED BY <3>1, <3>2
  <2>2. CASE m <= n BY <1>1, <2>2
  <2> QED BY <2>1, <2>2
<1> HIDE DEF part
<1>3. IsSequence(part) BY <1>2, SequenceOfMembers
<1>4. DOMAIN part = 1..(n - m + 1) BY <1>2
<1> QED BY <1>2, <1>3, <1>4 DEF part

\* Sequences with the same elements are the same.
LEMMA SameSequence ==
  ASSUME NEW x, IsSequence(x), NEW y, IsSequence(y), Len(x) = Len(y),
         \A i \in 1..Len(x) : x[i] = y[i]
  PROVE  x = y
<1> DEFINE X == {x[i] : i \in DOMAIN x}
           Y == {y[i] : i \in DOMAIN y}
<1>1. x \in Seq(X) /\ y \in Seq(Y) BY DEF IsSequence
<1> HIDE DEF X, Y
<1>2. x \in Seq(X \cup Y) /\ y \in Seq(X \cup Y) BY <1>1
<1>3. DOMAIN x = 1..Len(x) /\ DOMAIN y = 1..Len(x) BY <1>1
<1>4. x = [i \in 1..Len(x) |-> x[i]] /\ y = [i \in 1..Len(x) |-> y[i]] BY <1>1, <1>3
<1> QED BY <1>4

\* Where two texts agree, their slices do.
LEMMA SameSlice ==
  ASSUME NEW t, IsSequence(t), NEW u, IsSequence(u), NEW m \in Nat, NEW n \in Nat, m >= 1, m <= n + 1,
         n <= Len(t), n <= Len(u), \A i \in m..n : u[i] = t[i]
  PROVE  SubSeq(u, m, n) = SubSeq(t, m, n)
<1> DEFINE x == SubSeq(u, m, n)
           y == SubSeq(t, m, n)
           k == n - m + 1
<1>1. /\ IsSequence(x) /\ Len(x) = k /\ \A i \in 1..k : x[i] = u[m + i - 1]
      /\ IsSequence(y) /\ Len(y) = k /\ \A i \in 1..k : y[i] = t[m + i - 1]
  BY SliceOf
<1>2. \A i \in 1..k : m + i - 1 \in m..n OBVIOUS
<1> HIDE DEF x, y
<1>3. \A i \in 1..k : x[i] = y[i] BY <1>1, <1>2
<1> HIDE DEF k
<1>4. x = y BY <1>1, <1>3, SameSequence
<1> QED BY <1>4 DEF x, y

\* Keys and members are a matter of the characters they span.
LEMMA KeyOfSame ==
  ASSUME NEW t, NEW u, NEW s \in Int, NEW q \in Int, \A i \in s..(q - 1) : u[i] = t[i], KeyFrom(t, s, q)
  PROVE  KeyFrom(u, s, q)
<1>1. s < q /\ q - s <= MaxKeyBytes /\ s \in s..(q - 1) BY DEF KeyFrom
<1>2. CASE t[s] \in LowerCase /\ \A i \in s..(q - 1) : t[i] \in KeyCharacters
  BY <1>1, <1>2 DEF KeyFrom
<1>3. CASE ~(t[s] \in LowerCase /\ \A i \in s..(q - 1) : t[i] \in KeyCharacters)
  <2>1. PICK p \in (s + 1)..(q - 2) :
          /\ t[p] = At /\ p - s <= MaxTenantBytes /\ q - 1 - p <= MaxSystemBytes
          /\ t[s] \in LowerCase \cup Digits /\ t[p + 1] \in LowerCase
          /\ \A i \in s..(p - 1) : t[i] \in KeyCharacters
          /\ \A i \in (p + 1)..(q - 1) : t[i] \in KeyCharacters
    BY <1>3 DEF KeyFrom
  <2>2. /\ p \in s..(q - 1) /\ p + 1 \in s..(q - 1)
        /\ \A i \in s..(p - 1) : i \in s..(q - 1)
        /\ \A i \in (p + 1)..(q - 1) : i \in s..(q - 1)
    OBVIOUS
  <2>3. /\ u[p] = At /\ u[s] \in LowerCase \cup Digits /\ u[p + 1] \in LowerCase
        /\ \A i \in s..(p - 1) : u[i] \in KeyCharacters
        /\ \A i \in (p + 1)..(q - 1) : u[i] \in KeyCharacters
    BY <1>1, <2>1, <2>2
  <2> QED BY <1>1, <2>1, <2>3 DEF KeyFrom
<1> QED BY <1>2, <1>3

\* A text that agrees up to the equals sign names the same key.
LEMMA NamedOfSame ==
  ASSUME NEW t, NEW u, NEW a \in Nat, NEW s, NEW q, Named(t, a, s, q), Len(t) \in Nat, Len(u) \in Nat,
         q <= Len(u), \A i \in 1..q : u[i] = t[i]
  PROVE  Named(u, a, s, q)
<1>1. /\ s \in 1..Len(t) /\ q \in 1..Len(t) /\ a < s
      /\ \A i \in (a + 1)..(s - 1) : t[i] \in Blanks
      /\ t[q] = Equals /\ KeyFrom(t, s, q)
  BY DEF Named
<1>2. s < q BY <1>1 DEF KeyFrom
<1>3. s \in 1..Len(u) /\ q \in 1..Len(u) /\ q \in 1..q BY <1>1, <1>2
<1>4. \A i \in (a + 1)..(s - 1) : i \in 1..q BY <1>1, <1>2
<1>5. \A i \in s..(q - 1) : u[i] = t[i] BY <1>1
<1>6. KeyFrom(u, s, q) BY <1>1, <1>5, KeyOfSame
<1>7. \A i \in (a + 1)..(s - 1) : u[i] \in Blanks BY <1>1, <1>4
<1> QED BY <1>1, <1>3, <1>6, <1>7 DEF Named

\* What follows takes no key away.
LEMMA HasKeyOfExtension ==
  ASSUME NEW t, IsSequence(t), NEW u, IsSequence(u), Extends(u, t), NEW a \in Nat, NEW k, HasKey(t, a, k)
  PROVE  HasKey(u, a, k)
<1>n. Len(t) \in Nat /\ Len(u) \in Nat BY DEF IsSequence
<1>1. Len(t) \in Nat /\ Len(u) \in Nat /\ Len(t) <= Len(u) /\ \A i \in 1..Len(t) : u[i] = t[i]
  BY <1>n DEF Extends
<1>2. PICK s, q \in 1..Len(t) : Named(t, a, s, q) /\ k = SubSeq(t, s, q - 1) BY DEF HasKey
<1>3. q <= Len(u) /\ (\A i \in 1..q : u[i] = t[i]) /\ s \in 1..Len(u) /\ q \in 1..Len(u)
  BY <1>1, <1>2
<1>4. Named(u, a, s, q) BY <1>1, <1>2, <1>3, NamedOfSame
<1>5. s < q BY <1>2 DEF Named, KeyFrom
<1>6. SubSeq(u, s, q - 1) = SubSeq(t, s, q - 1)
  BY <1>1, <1>2, <1>3, <1>5, SameSlice
<1> QED BY <1>2, <1>3, <1>4, <1>6 DEF HasKey

\* A text that agrees up to the end of a member has a well-formed member there, too.
LEMMA WellFormedOfSame ==
  ASSUME NEW t, NEW u, Len(t) \in Nat, Len(u) \in Nat, NEW a \in Nat, NEW b \in Nat, b <= Len(t) + 1, b <= Len(u) + 1,
         \A i \in 1..(b - 1) : u[i] = t[i], WellFormed(t, a, b)
  PROVE  WellFormed(u, a, b)
<1>1. PICK s, q, e \in 1..Len(t) : Named(t, a, s, q) /\ Valued(t, q, e, b) BY DEF WellFormed
<1>2. /\ q < e /\ e < b /\ e - q <= MaxValueBytes /\ t[e] # Space
      /\ \A i \in (q + 1)..e : t[i] \in ValueCharacters
      /\ \A i \in (e + 1)..(b - 1) : t[i] \in Blanks
  BY <1>1 DEF Valued
<1>3. s < q BY <1>1 DEF Named, KeyFrom
<1>o. q < e /\ e < b BY <1>2
<1>4. s \in 1..Len(u) /\ q \in 1..Len(u) /\ e \in 1..Len(u) /\ q <= Len(u)
  BY <1>3, <1>o
<1>5. \A i \in 1..q : u[i] = t[i] BY <1>o
<1>6. Named(u, a, s, q) BY <1>1, <1>4, <1>5, NamedOfSame
<1>7. /\ \A i \in (q + 1)..e : i \in 1..(b - 1)
      /\ \A i \in (e + 1)..(b - 1) : i \in 1..(b - 1)
      /\ e \in 1..(b - 1)
  BY <1>o
<1>8. Valued(u, q, e, b) BY <1>2, <1>4, <1>7 DEF Valued
<1> QED BY <1>4, <1>6, <1>8 DEF WellFormed

\* What follows the text being read.
LEMMA Beyond ==
  ASSUME NEW t, IsSequence(t), NEW c, NEW u, IsSequence(u), Extends(u, Append(t, c))
  PROVE  /\ Len(t) \in Nat /\ Len(u) \in Nat /\ Len(t) + 1 <= Len(u)
         /\ \A i \in 1..Len(t) : u[i] = t[i]
         /\ u[Len(t) + 1] = c /\ Extends(u, t)
<1> DEFINE S == {t[i] : i \in DOMAIN t} \cup {c}
<1>1. t \in Seq(S) /\ c \in S BY DEF IsSequence
<1> HIDE DEF S
<1>2. /\ Len(t) \in Nat /\ Len(Append(t, c)) = Len(t) + 1 /\ Append(t, c)[Len(t) + 1] = c
      /\ \A i \in 1..Len(t) : Append(t, c)[i] = t[i]
  BY <1>1
<1>3. Len(u) \in Nat BY DEF IsSequence
<1>4. Len(t) + 1 <= Len(u) /\ \A i \in 1..(Len(t) + 1) : u[i] = Append(t, c)[i]
  BY <1>2 DEF Extends
<1>5. Len(t) + 1 \in 1..(Len(t) + 1) /\ (\A i \in 1..Len(t) : i \in 1..(Len(t) + 1)) /\ Len(t) <= Len(u)
  BY <1>2, <1>3, <1>4
<1>6. u[Len(t) + 1] = c /\ \A i \in 1..Len(t) : u[i] = t[i] BY <1>2, <1>4, <1>5
<1> QED BY <1>2, <1>3, <1>4, <1>5, <1>6 DEF Extends

\* From a start of a member the text has a first comma, or ends.
LEMMA NextComma ==
  ASSUME NEW u, IsSequence(u), NEW a \in Nat, NEW n \in Nat, a <= n, n + 1 <= Len(u),
         a = 0 \/ u[a] = Comma, \A i \in (a + 1)..n : u[i] # Comma
  PROVE  \E b \in (n + 1)..(Len(u) + 1) : Member(u, a, b) /\ (b = n + 1 <=> u[n + 1] = Comma)
<1> DEFINE N == Len(u)
           S == {i \in (n + 1)..(N + 1) : i = N + 1 \/ u[i] = Comma}
           b == Min(S)
<1>1. N \in Nat BY DEF IsSequence
<1>2. N + 1 \in S /\ S \subseteq Nat BY <1>1
<1>3. b \in S /\ \A y \in S : b <= y
  <2> HIDE DEF S
  <2> QED BY <1>2, MinOfNaturals
<1>4. b \in (n + 1)..(N + 1) /\ (b = N + 1 \/ u[b] = Comma) BY <1>3
<1>5. \A i \in (n + 1)..(N + 1) : u[i] = Comma => b <= i BY <1>3
<1> HIDE DEF b, S, N
<1>6. ASSUME NEW i \in (a + 1)..(b - 1) PROVE u[i] # Comma
  <2>1. CASE i <= n BY <2>1
  <2>2. CASE ~(i <= n)
    <3>1. i \in (n + 1)..(N + 1) /\ ~(b <= i) BY <1>1, <1>4, <2>2
    <3> QED BY <1>5, <3>1
  <2> QED BY <2>1, <2>2
<1>7. a \in 0..N /\ b \in 1..(N + 1) /\ a < b BY <1>1, <1>4 DEF N
<1>8. Member(u, a, b) BY <1>4, <1>6, <1>7 DEF Member, N
<1>9. b = n + 1 <=> u[n + 1] = Comma
  <2>1. ASSUME b = n + 1 PROVE u[n + 1] = Comma
    <3>1. n + 1 <= N BY DEF N
    <3>2. b # N + 1 \/ n + 1 = N + 1 BY <2>1
    <3> QED BY <1>1, <1>4, <2>1, <3>1
  <2>2. ASSUME u[n + 1] = Comma PROVE b = n + 1
    <3>1. n + 1 \in (n + 1)..(N + 1) BY <1>1 DEF N
    <3>2. b <= n + 1 BY <1>5, <2>2, <3>1
    <3> QED BY <1>1, <1>4, <3>2
  <2> QED BY <2>1, <2>2
<1> QED BY <1>4, <1>8, <1>9 DEF N

\* In a tracestate that begins with the text and c, the member being read has a key and a
\* value.
LEMMA Overrun ==
  ASSUME NEW t, IsSequence(t), NEW c, NEW u, IsSequence(u), Extends(u, Append(t, c)),
         NEW a, Opened(t, a), StateAt(u)
  PROVE  \E b, s, q, e \in Nat : /\ b >= Len(t) + 1 /\ (b = Len(t) + 1 <=> c = Comma)
                                 /\ Named(u, a, s, q) /\ Valued(u, q, e, b)
<1> DEFINE n == Len(t)
<1>1. /\ n \in Nat /\ Len(u) \in Nat /\ n + 1 <= Len(u) /\ u[n + 1] = c
      /\ \A i \in 1..n : u[i] = t[i]
  BY Beyond
<1>2. /\ a \in 0..n /\ (a = 0 \/ t[a] = Comma)
      /\ \A i \in (a + 1)..n : t[i] # Comma
  BY DEF Opened
<1> HIDE DEF n
<1>3. a \in Nat /\ a <= n /\ (a = 0 \/ a \in 1..n) /\ \A i \in (a + 1)..n : i \in 1..n
  BY <1>1, <1>2
<1>4. (a = 0 \/ u[a] = Comma) /\ \A i \in (a + 1)..n : u[i] # Comma BY <1>1, <1>2, <1>3
<1>5. PICK b \in (n + 1)..(Len(u) + 1) : Member(u, a, b) /\ (b = n + 1 <=> u[n + 1] = Comma)
  BY <1>1, <1>3, <1>4, NextComma
<1>6. PICK s, q, e \in 1..Len(u) : Named(u, a, s, q) /\ Valued(u, q, e, b)
  BY <1>5 DEF StateAt, WellFormed
<1>7. b \in Nat /\ b >= n + 1 /\ s \in Nat /\ q \in Nat /\ e \in Nat BY <1>1, <1>5, <1>6
<1>8. b = n + 1 <=> c = Comma BY <1>1, <1>5
<1> QED BY <1>6, <1>7, <1>8 DEF n

\* Keys begin with a letter or a digit and have no blanks, commas or equals signs.
LEMMA KeySpan ==
  ASSUME NEW t, NEW s \in Int, NEW q \in Int, KeyFrom(t, s, q)
  PROVE  /\ s < q /\ q - s <= MaxKeyBytes /\ t[s] \in LowerCase \cup Digits
         /\ \A i \in s..(q - 1) : t[i] \in KeyCharacters \cup {At}
<1>1. s < q /\ q - s <= MaxKeyBytes BY DEF KeyFrom
<1>2. CASE t[s] \in LowerCase /\ \A i \in s..(q - 1) : t[i] \in KeyCharacters
  BY <1>1, <1>2
<1>3. CASE ~(t[s] \in LowerCase /\ \A i \in s..(q - 1) : t[i] \in KeyCharacters)
  <2>1. PICK p \in (s + 1)..(q - 2) :
          /\ t[p] = At /\ t[s] \in LowerCase \cup Digits
          /\ \A i \in s..(p - 1) : t[i] \in KeyCharacters
          /\ \A i \in (p + 1)..(q - 1) : t[i] \in KeyCharacters
    BY <1>3 DEF KeyFrom
  <2>2. \A i \in s..(q - 1) : i = p \/ i \in s..(p - 1) \/ i \in (p + 1)..(q - 1) OBVIOUS
  <2>3. \A i \in s..(q - 1) : t[i] \in KeyCharacters \cup {At} BY <2>1, <2>2
  <2> QED BY <1>1, <2>1, <2>3
<1> QED BY <1>2, <1>3

\* The key begins with the first character that is not blank.
LEMMA NamedParts ==
  ASSUME NEW t, Len(t) \in Nat, NEW a \in Nat, NEW s, NEW q, Named(t, a, s, q)
  PROVE  /\ s \in Nat /\ q \in Nat /\ a < s /\ s < q /\ q <= Len(t) /\ q - s <= MaxKeyBytes
         /\ t[q] = Equals /\ t[s] \in LowerCase \cup Digits /\ t[s] \notin Blanks
         /\ \A i \in s..(q - 1) : t[i] \in KeyCharacters \cup {At}
         /\ \A i \in (a + 1)..(s - 1) : t[i] \in Blanks
<1>1. /\ s \in 1..Len(t) /\ q \in 1..Len(t) /\ a < s
      /\ \A i \in (a + 1)..(s - 1) : t[i] \in Blanks
      /\ t[q] = Equals /\ KeyFrom(t, s, q)
  BY DEF Named
<1>2. s \in Nat /\ q \in Nat /\ q <= Len(t) BY <1>1
<1>3. /\ s < q /\ q - s <= MaxKeyBytes /\ t[s] \in LowerCase \cup Digits
      /\ \A i \in s..(q - 1) : t[i] \in KeyCharacters \cup {At}
  BY <1>1, <1>2, KeySpan
<1>4. t[s] \notin Blanks BY <1>3, Characters
<1> QED BY <1>1, <1>2, <1>3, <1>4

\* The key begins with the first character that is no blank.
LEMMA FirstOfKey ==
  ASSUME NEW t, Len(t) \in Nat, NEW a \in Nat, NEW s, NEW q, Named(t, a, s, q), NEW i \in Nat, a < i,
         t[i] \notin Blanks, \A j \in (a + 1)..(i - 1) : t[j] \in Blanks
  PROVE  s = i
<1>1. s \in Nat /\ a < s /\ t[s] \notin Blanks /\ \A j \in (a + 1)..(s - 1) : t[j] \in Blanks
  BY NamedParts
<1>2. ~(i < s)
  <2> SUFFICES ASSUME i < s PROVE FALSE OBVIOUS
  <2>1. i \in (a + 1)..(s - 1) BY <1>1
  <2> QED BY <1>1, <2>1
<1>3. ~(s < i)
  <2> SUFFICES ASSUME s < i PROVE FALSE OBVIOUS
  <2>1. s \in (a + 1)..(i - 1) BY <1>1
  <2> QED BY <1>1, <2>1
<1> QED BY <1>1, <1>2, <1>3
\* A member has one key.
LEMMA OneKey ==
  ASSUME NEW t, Len(t) \in Nat, NEW a \in Nat, NEW s, NEW q, Named(t, a, s, q), NEW x, NEW y, Named(t, a, x, y)
  PROVE  s = x /\ q = y
<1>1. /\ s \in Nat /\ q \in Nat /\ s < q /\ t[q] = Equals
      /\ \A i \in s..(q - 1) : t[i] \in KeyCharacters \cup {At}
  BY NamedParts
<1>2. /\ x \in Nat /\ y \in Nat /\ a < x /\ x < y /\ t[y] = Equals /\ t[x] \notin Blanks
      /\ \A i \in x..(y - 1) : t[i] \in KeyCharacters \cup {At}
      /\ \A j \in (a + 1)..(x - 1) : t[j] \in Blanks
  BY NamedParts
<1>3. s = x BY <1>2, FirstOfKey
<1>4. Equals \notin KeyCharacters \cup {At} BY Characters
<1>5. ~(q < y)
  <2> SUFFICES ASSUME q < y PROVE FALSE OBVIOUS
  <2>1. q \in x..(y - 1) BY <1>1, <1>2, <1>3
  <2> QED BY <1>1, <1>2, <1>4, <2>1
<1>6. ~(y < q)
  <2> SUFFICES ASSUME y < q PROVE FALSE OBVIOUS
  <2>1. y \in s..(q - 1) BY <1>1, <1>2, <1>3
  <2> QED BY <1>1, <1>2, <1>4, <2>1
<1>7. q = y BY <1>1, <1>2, <1>5, <1>6
<1> QED BY <1>3, <1>7

\* What starts with a character no key starts with is no member.
LEMMA NoKeyStarts ==
  ASSUME NEW t, IsSequence(t), NEW c, NEW u, IsSequence(u), Extends(u, Append(t, c)),
         NEW a, Opened(t, a), BeforeKey(t, a), c \notin Blanks,
         ~(c \in LowerCase \cup Digits /\ MaxKeyBytes > 0)
  PROVE  ~StateAt(u)
<1> SUFFICES ASSUME StateAt(u) PROVE FALSE OBVIOUS
<1> DEFINE n == Len(t)
<1>1. /\ n \in Nat /\ Len(u) \in Nat /\ n + 1 <= Len(u) /\ u[n + 1] = c
      /\ \A i \in 1..n : u[i] = t[i]
  BY Beyond
<1>2. PICK b, s, q, e \in Nat : Named(u, a, s, q) BY Overrun
<1>3. a \in 0..n BY DEF Opened
<1>4. \A i \in (a + 1)..n : t[i] \in Blanks BY DEF BeforeKey
<1> HIDE DEF n
<1>5. a \in Nat /\ a < n + 1 /\ n + 1 \in Nat /\ \A i \in (a + 1)..((n + 1) - 1) : i \in 1..n /\ i \in (a + 1)..n
  BY <1>1, <1>3
<1>6. \A i \in (a + 1)..((n + 1) - 1) : u[i] \in Blanks BY <1>1, <1>4, <1>5
<1>7. s = n + 1 BY <1>1, <1>2, <1>5, <1>6, FirstOfKey
<1>8. s \in Nat /\ q \in Nat /\ s < q /\ q - s <= MaxKeyBytes /\ u[s] \in LowerCase \cup Digits
  BY <1>1, <1>2, <1>5, NamedParts
<1>9. MaxKeyBytes > 0 BY <1>8, StateLengthAssumption
<1> QED BY <1>1, <1>7, <1>8, <1>9

\* What a key cannot go on with.
LEMMA NoKeyContinues ==
  ASSUME NEW t, IsSequence(t), NEW c, NEW u, IsSequence(u), Extends(u, Append(t, c)),
         NEW a, Opened(t, a), NEW s, NEW key, WithinKey(t, a, s, key),
         ~(c \in KeyCharacters /\ Len(t) - s + 1 < MaxKeyBytes),
         ~(c = At /\ Len(t) - s + 1 <= MaxTenantBytes /\ Len(t) - s + 1 < MaxKeyBytes),
         ~(c = Equals /\ t[s] \in LowerCase)
  PROVE  ~StateAt(u)
<1> SUFFICES ASSUME StateAt(u) PROVE FALSE OBVIOUS
<1> DEFINE n == Len(t)
<1>1. /\ n \in Nat /\ Len(u) \in Nat /\ n + 1 <= Len(u) /\ u[n + 1] = c
      /\ \A i \in 1..n : u[i] = t[i]
  BY Beyond
<1>2. PICK b, z, q, e \in Nat : Named(u, a, z, q) BY Overrun
<1>3. a \in 0..n BY DEF Opened
<1>4. /\ s \in (a + 1)..n /\ \A i \in (a + 1)..(s - 1) : t[i] \in Blanks
      /\ t[s] \in LowerCase \cup Digits
      /\ \A i \in s..n : t[i] \in KeyCharacters
  BY DEF WithinKey, Led
<1>g. /\ ~(c \in KeyCharacters /\ n - s + 1 < MaxKeyBytes)
      /\ ~(c = At /\ n - s + 1 <= MaxTenantBytes /\ n - s + 1 < MaxKeyBytes)
      /\ ~(c = Equals /\ t[s] \in LowerCase)
  OBVIOUS
<1> HIDE DEF n
<1>5. /\ a \in Nat /\ s \in Nat /\ a < s /\ s <= n /\ s \in 1..n
      /\ \A i \in (a + 1)..(s - 1) : i \in 1..n
      /\ \A i \in s..n : i \in 1..n
  BY <1>1, <1>3, <1>4
<1>6. /\ \A i \in (a + 1)..(s - 1) : u[i] \in Blanks
      /\ \A i \in s..n : u[i] \in KeyCharacters
      /\ u[s] = t[s] /\ u[s] \notin Blanks
  BY <1>1, <1>4, <1>5, Characters
<1>7. z = s BY <1>1, <1>2, <1>5, <1>6, FirstOfKey
<1>8. /\ s < q /\ q - s <= MaxKeyBytes /\ u[q] = Equals
      /\ \A i \in s..(q - 1) : u[i] \in KeyCharacters \cup {At}
      /\ KeyFrom(u, s, q)
  <2>1. Named(u, a, s, q) BY <1>2, <1>7
  <2>2. Len(u) \in Nat /\ a \in Nat BY <1>1, <1>5
  <2>3. /\ s < q /\ q - s <= MaxKeyBytes /\ u[q] = Equals
        /\ \A i \in s..(q - 1) : u[i] \in KeyCharacters \cup {At}
    BY ONLY <2>1, <2>2, NamedParts
  <2>4. KeyFrom(u, s, q) BY ONLY <2>1 DEF Named
  <2> QED BY <2>3, <2>4
<1>9. q > n
  <2> SUFFICES ASSUME q <= n PROVE FALSE BY <1>1
  <2>1. q \in s..n BY <1>1, <1>5, <1>8
  <2> QED BY <1>6, <1>8, <2>1, Characters
<1>10. CASE c = Equals
  <2>1. q = n + 1
    <3> SUFFICES ASSUME q # n + 1 PROVE FALSE OBVIOUS
    <3>1. n + 1 \in s..(q - 1) BY <1>1, <1>5, <1>9
    <3> QED BY <1>1, <1>8, <1>10, <3>1, Characters
  <2>2. ~(t[s] \in LowerCase) BY <1>g, <1>10
  <2>3. PICK p \in (s + 1)..(q - 2) : u[p] = At BY <1>6, <1>8, <2>2 DEF KeyFrom
  <2>4. p \in s..n BY <1>1, <1>5, <2>1
  <2> QED BY <1>6, <2>3, <2>4, Characters
<1>11. CASE c # Equals
  <2>1. q > n + 1 /\ n + 1 \in s..(q - 1)
    <3>1. q # n + 1 BY <1>1, <1>8, <1>11
    <3> QED BY <1>1, <1>5, <1>9, <3>1
  <2>2. c \in KeyCharacters \cup {At} BY <1>1, <1>8, <2>1
  <2>3. n - s + 1 < MaxKeyBytes BY <1>1, <1>5, <1>8, <2>1, StateLengthAssumption
  <2>4. c = At BY <1>g, <2>2, <2>3
  <2>5. c \notin KeyCharacters BY <2>4, Characters
  <2>6. PICK p \in (s + 1)..(q - 2) : /\ u[p] = At /\ p - s <= MaxTenantBytes
                                      /\ \A i \in s..(p - 1) : u[i] \in KeyCharacters
                                      /\ \A i \in (p + 1)..(q - 1) : u[i] \in KeyCharacters
    BY <1>1, <1>8, <2>1, <2>5 DEF KeyFrom
  <2>7. ~(n + 1 \in s..(p - 1)) /\ ~(n + 1 \in (p + 1)..(q - 1)) BY <1>1, <2>5, <2>6
  <2>8. p = n + 1 BY <1>1, <1>5, <2>1, <2>7
  <2>9. p - s <= MaxTenantBytes BY <2>6
  <2>10. n - s + 1 <= MaxTenantBytes BY <1>1, <1>5, <2>8, <2>9, StateLengthAssumption
  <2> QED BY <1>g, <2>3, <2>4, <2>10
<1> QED BY <1>10, <1>11

\* What a system id cannot go on with.
LEMMA NoSystemContinues ==
  ASSUME NEW t, IsSequence(t), NEW c, NEW u, IsSequence(u), Extends(u, Append(t, c)),
         NEW a, Opened(t, a), NEW s, NEW p, NEW key, NEW system, WithinSystem(t, a, s, p, key, system),
         ~(/\ c \in (IF system = 0 THEN LowerCase ELSE KeyCharacters)
           /\ system < MaxSystemBytes /\ Len(t) - s + 1 < MaxKeyBytes),
         ~(c = Equals /\ system > 0)
  PROVE  ~StateAt(u)
<1> SUFFICES ASSUME StateAt(u) PROVE FALSE OBVIOUS
<1> DEFINE n == Len(t)
<1>1. /\ n \in Nat /\ Len(u) \in Nat /\ n + 1 <= Len(u) /\ u[n + 1] = c
      /\ \A i \in 1..n : u[i] = t[i]
  BY Beyond
<1>2. PICK b, z, q, e \in Nat : Named(u, a, z, q) BY Overrun
<1>3. a \in 0..n BY DEF Opened
<1>4. /\ s \in (a + 1)..n /\ \A i \in (a + 1)..(s - 1) : t[i] \in Blanks
      /\ t[s] \in LowerCase \cup Digits
      /\ p \in (s + 1)..n /\ t[p] = At /\ system = n - p
      /\ \A i \in s..(p - 1) : t[i] \in KeyCharacters
      /\ \A i \in (p + 1)..n : t[i] \in KeyCharacters
  BY DEF WithinSystem, Led
<1>g. /\ ~(/\ c \in (IF system = 0 THEN LowerCase ELSE KeyCharacters)
           /\ system < MaxSystemBytes /\ n - s + 1 < MaxKeyBytes)
      /\ ~(c = Equals /\ system > 0)
  OBVIOUS
<1> HIDE DEF n
<1>5. /\ a \in Nat /\ s \in Nat /\ a < s /\ s <= n /\ s \in 1..n /\ p \in Nat /\ s < p /\ p <= n /\ p \in 1..n
      /\ \A i \in (a + 1)..(s - 1) : i \in 1..n
      /\ \A i \in s..(p - 1) : i \in 1..n
      /\ \A i \in (p + 1)..n : i \in 1..n
  BY <1>1, <1>3, <1>4
<1>6. /\ \A i \in (a + 1)..(s - 1) : u[i] \in Blanks
      /\ \A i \in s..(p - 1) : u[i] \in KeyCharacters
      /\ \A i \in (p + 1)..n : u[i] \in KeyCharacters
      /\ u[p] = At /\ u[s] = t[s] /\ u[s] \notin Blanks
  BY <1>1, <1>4, <1>5, Characters
<1>7. z = s BY <1>1, <1>2, <1>5, <1>6, FirstOfKey
<1>8. /\ s < q /\ q - s <= MaxKeyBytes /\ u[q] = Equals
      /\ \A i \in s..(q - 1) : u[i] \in KeyCharacters \cup {At}
      /\ KeyFrom(u, s, q)
  <2>1. Named(u, a, s, q) BY <1>2, <1>7
  <2>2. /\ s < q /\ q - s <= MaxKeyBytes /\ u[q] = Equals
        /\ \A i \in s..(q - 1) : u[i] \in KeyCharacters \cup {At}
    <3>1. Len(u) \in Nat /\ a \in Nat BY <1>1, <1>5
    <3> QED BY <2>1, <3>1, NamedParts
  <2> QED BY <2>1, <2>2 DEF Named
<1>9. q > n
  <2> SUFFICES ASSUME q <= n PROVE FALSE BY <1>1
  <2>1. q \in s..(p - 1) \/ q = p \/ q \in (p + 1)..n BY <1>1, <1>5, <1>8
  <2> QED BY <1>6, <1>8, <2>1, Characters
<1>10. PICK y \in (s + 1)..(q - 2) : /\ u[y] = At /\ q - 1 - y <= MaxSystemBytes /\ u[y + 1] \in LowerCase
                                     /\ \A i \in s..(y - 1) : u[i] \in KeyCharacters
                                     /\ \A i \in (y + 1)..(q - 1) : u[i] \in KeyCharacters
  <2>1. p \in s..(q - 1) BY <1>1, <1>5, <1>9
  <2>2. u[p] \notin KeyCharacters BY <1>6, Characters
  <2> QED BY <1>8, <2>1, <2>2 DEF KeyFrom
<1>11. y = p
  <2>1. ~(p \in s..(y - 1)) /\ ~(p \in (y + 1)..(q - 1)) BY <1>6, <1>10, Characters
  <2> QED BY <1>1, <1>5, <1>9, <2>1
<1>12. /\ p <= q - 2 /\ q - 1 - p <= MaxSystemBytes /\ u[p + 1] \in LowerCase
       /\ \A i \in (p + 1)..(q - 1) : u[i] \in KeyCharacters
  BY <1>10, <1>11
<1>s. system \in Int /\ system = n - p BY <1>1, <1>4, <1>5
<1>13. CASE c = Equals
  <2>1. q = n + 1
    <3> SUFFICES ASSUME q # n + 1 PROVE FALSE OBVIOUS
    <3>1. n + 1 \in s..(q - 1) BY <1>1, <1>5, <1>9
    <3> QED BY <1>1, <1>8, <1>13, <3>1, Characters
  <2>2. p <= q - 2 BY <1>12
  <2>3. system > 0 BY <1>1, <1>5, <1>s, <2>1, <2>2
  <2> QED BY <1>g, <1>13, <2>3
<1>14. CASE c # Equals
  <2>1. q > n + 1 /\ n + 1 \in (p + 1)..(q - 1)
    <3>1. q # n + 1 BY <1>1, <1>8, <1>14
    <3> QED BY <1>1, <1>5, <1>9, <3>1
  <2>2. c \in KeyCharacters BY <1>1, <1>12, <2>1
  <2>3. n - s + 1 < MaxKeyBytes BY <1>1, <1>5, <1>8, <2>1, StateLengthAssumption
  <2>4. q - 1 - p <= MaxSystemBytes BY <1>12
  <2>5. system < MaxSystemBytes BY <1>1, <1>5, <1>s, <2>1, <2>4, StateLengthAssumption
  <2>6. system = 0 => c \in LowerCase
    <3> SUFFICES ASSUME system = 0 PROVE c \in LowerCase OBVIOUS
    <3>1. p + 1 = n + 1 BY <1>1, <1>5, <1>s
    <3> QED BY <1>1, <1>12, <3>1
  <2> QED BY <1>g, <2>2, <2>3, <2>5, <2>6
<1> QED BY <1>13, <1>14

\* The member being read has no key before its equals sign.
LEMMA NoKeyYet ==
  ASSUME NEW t, IsSequence(t), NEW a \in Nat, \A i \in (a + 1)..Len(t) : t[i] # Equals, NEW k
  PROVE  ~HasKey(t, a, k)
<1> SUFFICES ASSUME HasKey(t, a, k) PROVE FALSE OBVIOUS
<1>1. Len(t) \in Nat BY DEF IsSequence
<1>2. PICK s, q \in 1..Len(t) : Named(t, a, s, q) BY DEF HasKey
<1>3. s \in Nat /\ q \in Nat /\ a < s /\ s < q /\ q <= Len(t) /\ t[q] = Equals BY <1>1, <1>2, NamedParts
<1>4. q \in (a + 1)..Len(t) BY <1>1, <1>3
<1> QED BY <1>3, <1>4

\* A key that was there before is there twice.
LEMMA NoKeyTwice ==
  ASSUME NEW t, IsSequence(t), NEW u, IsSequence(u), Extends(u, Append(t, Equals)),
         NEW a, Opened(t, a), NEW s, Led(t, a, s), t[s] \notin Blanks,
         \A i \in s..Len(t) : t[i] \in KeyCharacters \cup {At},
         NEW x \in starts(t), HasKey(t, x, SubSeq(t, s, Len(t)))
  PROVE  ~StateAt(u)
<1> SUFFICES ASSUME StateAt(u) PROVE FALSE OBVIOUS
<1> DEFINE n == Len(t)
           key == SubSeq(t, s, n)
<1>1. /\ n \in Nat /\ Len(u) \in Nat /\ n + 1 <= Len(u) /\ u[n + 1] = Equals /\ Extends(u, t)
      /\ \A i \in 1..n : u[i] = t[i]
  BY Beyond
<1>2. PICK b, z, q, e \in Nat : Named(u, a, z, q) BY Overrun
<1>3. a \in 0..n /\ (a = 0 \/ t[a] = Comma) BY DEF Opened
<1>4. s \in (a + 1)..n /\ \A i \in (a + 1)..(s - 1) : t[i] \in Blanks BY DEF Led
<1>d. DOMAIN t = 1..n /\ DOMAIN u = 1..Len(u) BY DEF IsSequence
<1>k. HasKey(t, x, key) /\ \A i \in s..n : t[i] \in KeyCharacters \cup {At} OBVIOUS
<1> HIDE DEF n, key
<1>5. /\ a \in Nat /\ s \in Nat /\ a < s /\ s <= n /\ s \in 1..n /\ s >= 1
      /\ \A i \in (a + 1)..(s - 1) : i \in 1..n
      /\ \A i \in s..n : i \in 1..n
      /\ a = 0 \/ a \in 1..n
  BY <1>1, <1>3, <1>4
<1>6. /\ \A i \in (a + 1)..(s - 1) : u[i] \in Blanks
      /\ \A i \in s..n : u[i] = t[i]
      /\ \A i \in s..n : u[i] \in KeyCharacters \cup {At}
      /\ u[s] \notin Blanks
  BY <1>1, <1>4, <1>5, <1>k
<1>7. z = s BY <1>1, <1>2, <1>5, <1>6, FirstOfKey
<1>8. /\ s < q /\ u[q] = Equals /\ q <= Len(u)
      /\ \A i \in s..(q - 1) : u[i] \in KeyCharacters \cup {At}
  <2>1. Named(u, a, s, q) BY <1>2, <1>7
  <2>2. Len(u) \in Nat /\ a \in Nat BY <1>1, <1>5
  <2> QED BY ONLY <2>1, <2>2, NamedParts
<1>n. Equals \notin KeyCharacters \cup {At} BY Characters
<1>9. ~(q <= n)
  <2> SUFFICES ASSUME q <= n PROVE FALSE OBVIOUS
  <2>1. q \in s..n BY <1>1, <1>5, <1>8
  <2> QED BY <1>6, <1>8, <1>n, <2>1
<1>10. ~(q > n + 1)
  <2> SUFFICES ASSUME q > n + 1 PROVE FALSE OBVIOUS
  <2>1. n + 1 \in s..(q - 1) BY <1>1, <1>5
  <2> QED BY <1>1, <1>8, <1>n, <2>1
<1>11. q = n + 1 /\ q - 1 = n BY <1>1, <1>9, <1>10
<1>12. SubSeq(u, s, n) = key
  <2>1. n <= Len(u) /\ s <= n + 1 BY <1>1, <1>5
  <2> QED BY <1>1, <1>5, <1>6, <2>1, SameSlice DEF n, key
<1>13. HasKey(u, a, key)
  <2>1. s \in 1..Len(u) /\ q \in 1..Len(u) BY <1>1, <1>5, <1>8
  <2> QED BY <1>2, <1>7, <1>11, <1>12, <2>1 DEF HasKey
<1>14. x \in Nat /\ a \in starts(t) BY <1>1, <1>3, <1>5, <1>d DEF starts, commas
<1>15. HasKey(u, x, key) BY <1>1, <1>14, <1>k, HasKeyOfExtension
<1>16. starts(t) \subseteq starts(u)
  <2>1. \A i \in 1..n : i \in 1..Len(u) BY <1>1
  <2> QED BY <1>1, <1>d, <2>1 DEF starts, commas
<1>17. x = a BY <1>13, <1>14, <1>15, <1>16 DEF StateAt, Distinct
<1>18. \A i \in (a + 1)..n : t[i] # Equals
  <2>1. \A i \in (a + 1)..n : i \in (a + 1)..(s - 1) \/ i \in s..n BY <1>1, <1>5
  <2> QED BY <1>4, <1>k, <1>n, <2>1, Characters
<1> QED BY <1>5, <1>17, <1>18, <1>k, NoKeyYet DEF n

\* What a value cannot go on with.
LEMMA NoValueContinues ==
  ASSUME NEW t, IsSequence(t), NEW c, NEW u, IsSequence(u), Extends(u, Append(t, c)),
         NEW a, Opened(t, a), NEW s, NEW q, NEW e, NEW value, NEW blanks,
         WithinValue(t, a, s, q, e, value, blanks),
         ~(c = Comma /\ value > 0), c # Space, ~(c = Tab /\ value > 0),
         ~(c \in ValueCharacters \ {Space} /\ value + blanks < MaxValueBytes)
  PROVE  ~StateAt(u)
<1> SUFFICES ASSUME StateAt(u) PROVE FALSE OBVIOUS
<1> DEFINE n == Len(t)
<1>1. /\ n \in Nat /\ Len(u) \in Nat /\ n + 1 <= Len(u) /\ u[n + 1] = c
      /\ \A i \in 1..n : u[i] = t[i]
  BY Beyond
<1>2. PICK b, x, y, f \in Nat : /\ b >= n + 1 /\ (b = n + 1 <=> c = Comma)
                                /\ Named(u, a, x, y) /\ Valued(u, y, f, b)
  BY Overrun
<1>3. a \in 0..n BY DEF Opened
<1>4. /\ Named(t, a, s, q) /\ e \in q..n /\ value = e - q /\ blanks = n - e
      /\ \A i \in (e + 1)..n : t[i] = Space
  BY DEF WithinValue
<1> HIDE DEF n
<1>5. a \in Nat BY <1>1, <1>3
<1>6. q \in Nat /\ q <= n /\ q >= 1 BY <1>1, <1>4, <1>5, NamedParts DEF n
<1>7. Named(u, a, s, q)
  <2>1. q <= Len(u) /\ \A i \in 1..q : i \in 1..n BY <1>1, <1>6
  <2>2. \A i \in 1..q : u[i] = t[i] BY <1>1, <2>1
  <2> QED BY <1>1, <1>4, <1>5, <2>1, <2>2, NamedOfSame DEF n
<1>8. y = q BY <1>1, <1>2, <1>5, <1>7, OneKey
<1>9. /\ q < f /\ f < b /\ f - q <= MaxValueBytes /\ u[f] # Space
      /\ \A i \in (q + 1)..f : u[i] \in ValueCharacters
      /\ \A i \in (f + 1)..(b - 1) : u[i] \in Blanks
  BY <1>2, <1>8 DEF Valued
<1>10. \A i \in (e + 1)..n : u[i] = Space
  <2>1. \A i \in (e + 1)..n : i \in 1..n BY <1>1, <1>4, <1>6
  <2> QED BY <1>1, <1>4, <2>1
<1>e. e \in Nat /\ q <= e /\ e <= n /\ value \in Nat /\ (value > 0 <=> e # q) /\ value + blanks = n - q
  BY <1>1, <1>4, <1>6
<1>o. f \in Nat /\ q < f /\ f < b BY <1>9
<1>11. ~(f \in (e + 1)..n) BY <1>9, <1>10
<1>12. CASE c = Comma
  <2>1. ~(value > 0) /\ b = n + 1 BY <1>2, <1>12
  <2>2. f \in (e + 1)..n BY <1>1, <1>e, <1>o, <2>1
  <2> QED BY <1>11, <2>2
<1>13. CASE c # Comma
  <2>1. b > n + 1 BY <1>1, <1>2, <1>13
  <2>2. CASE c = Tab
    <3>1. ~(value > 0) BY <2>2
    <3>2. f >= n + 1 BY <1>1, <1>11, <1>e, <1>o, <3>1
    <3>3. n + 1 \in (q + 1)..f BY <1>1, <1>6, <3>2
    <3> QED BY <1>1, <1>9, <2>2, <3>3, Characters
  <2>3. CASE c # Tab
    <3>1. c \notin Blanks BY <2>3 DEF Blanks, Tab, Space
    <3>2. ~(n + 1 \in (f + 1)..(b - 1)) BY <1>1, <1>9, <3>1
    <3>3. f >= n + 1 BY <1>1, <1>o, <2>1, <3>2
    <3>4. n + 1 \in (q + 1)..f BY <1>1, <1>6, <3>3
    <3>5. c \in ValueCharacters BY <1>1, <1>9, <3>4
    <3>6. f - q <= MaxValueBytes BY <1>9
    <3>7. value + blanks < MaxValueBytes BY <1>1, <1>6, <1>e, <1>o, <3>3, <3>6, StateLengthAssumption
    <3> QED BY <3>5, <3>7
  <2> QED BY <2>2, <2>3
<1> QED BY <1>12, <1>13

\* Behind a tab only blanks and the next comma follow.
LEMMA NothingBehindBlanks ==
  ASSUME NEW t, IsSequence(t), NEW c, NEW u, IsSequence(u), Extends(u, Append(t, c)),
         NEW a, Opened(t, a), NEW s, NEW q, NEW e, BehindValue(t, a, s, q, e), c \notin Blanks, c # Comma
  PROVE  ~StateAt(u)
<1> SUFFICES ASSUME StateAt(u) PROVE FALSE OBVIOUS
<1> DEFINE n == Len(t)
<1>1. /\ n \in Nat /\ Len(u) \in Nat /\ n + 1 <= Len(u) /\ u[n + 1] = c
      /\ \A i \in 1..n : u[i] = t[i]
  BY Beyond
<1>2. PICK b, x, y, f \in Nat : /\ b >= n + 1 /\ (b = n + 1 <=> c = Comma)
                                /\ Named(u, a, x, y) /\ Valued(u, y, f, b)
  BY Overrun
<1>3. a \in 0..n BY DEF Opened
<1>4. Named(t, a, s, q) /\ e \in (q + 1)..n /\ \E i \in (e + 1)..n : t[i] = Tab
  BY DEF BehindValue
<1> HIDE DEF n
<1>5. a \in Nat BY <1>1, <1>3
<1>6. q \in Nat /\ q <= n /\ q >= 1 BY <1>1, <1>4, <1>5, NamedParts DEF n
<1>7. Named(u, a, s, q)
  <2>1. q <= Len(u) /\ \A i \in 1..q : i \in 1..n BY <1>1, <1>6
  <2>2. \A i \in 1..q : u[i] = t[i] BY <1>1, <2>1
  <2> QED BY <1>1, <1>4, <1>5, <2>1, <2>2, NamedOfSame DEF n
<1>8. y = q BY <1>1, <1>2, <1>5, <1>7, OneKey
<1>9. /\ q < f /\ f < b
      /\ \A i \in (q + 1)..f : u[i] \in ValueCharacters
      /\ \A i \in (f + 1)..(b - 1) : u[i] \in Blanks
  BY <1>2, <1>8 DEF Valued
<1>10. PICK i \in (e + 1)..n : t[i] = Tab BY <1>4
<1>11. i \in Nat /\ i \in 1..n /\ q < i /\ i <= n BY <1>1, <1>4, <1>6, <1>10
<1>12. u[i] = Tab BY <1>1, <1>10, <1>11
<1>o. f \in Nat /\ q < f /\ f < b BY <1>9
<1>13. b > n + 1 BY <1>1, <1>2
<1>14. ~(n + 1 \in (f + 1)..(b - 1)) BY <1>1, <1>9
<1>15. f >= n + 1 BY <1>1, <1>o, <1>13, <1>14
<1>16. i \in (q + 1)..f BY <1>1, <1>6, <1>11, <1>15
<1> QED BY <1>9, <1>12, <1>16, Characters
-----------------------------------------------------------------------------

\* What one more character changes of a text.
LEMMA Appending ==
  ASSUME NEW t, IsSequence(t), NEW c
  PROVE  /\ IsSequence(Append(t, c)) /\ Len(t) \in Nat /\ Len(Append(t, c)) = Len(t) + 1
         /\ DOMAIN t = 1..Len(t) /\ DOMAIN Append(t, c) = 1..(Len(t) + 1)
         /\ \A i \in 1..Len(t) : Append(t, c)[i] = t[i]
         /\ Append(t, c)[Len(t) + 1] = c
         /\ Extends(Append(t, c), t) /\ Extends(Append(t, c), Append(t, c))
<1> DEFINE S == {t[i] : i \in DOMAIN t} \cup {c}
<1>1. t \in Seq(S) /\ c \in S BY DEF IsSequence
<1> HIDE DEF S
<1>2. Append(t, c) \in Seq(S) BY <1>1
<1>3. IsSequence(Append(t, c)) BY <1>2, SequenceOfMembers
<1>4. /\ Len(t) \in Nat /\ Len(Append(t, c)) = Len(t) + 1 /\ Append(t, c)[Len(t) + 1] = c
      /\ \A i \in 1..Len(t) : Append(t, c)[i] = t[i]
      /\ DOMAIN t = 1..Len(t) /\ DOMAIN Append(t, c) = 1..(Len(t) + 1)
  BY <1>1
<1>5. Extends(Append(t, c), t) BY <1>4 DEF Extends
<1>6. Extends(Append(t, c), Append(t, c)) BY <1>4 DEF Extends
<1> QED BY <1>3, <1>4, <1>5, <1>6

\* The commas of a text are finitely many.
LEMMA CommasFinite ==
  ASSUME NEW t, IsSequence(t)
  PROVE  IsFiniteSet(commas(t)) /\ Cardinality(commas(t)) \in Nat /\ Len(t) + 1 \notin commas(t)
<1>1. Len(t) \in Nat /\ DOMAIN t = 1..Len(t) BY DEF IsSequence
<1>2. commas(t) \subseteq 1..Len(t) BY <1>1 DEF commas
<1>3. IsFiniteSet(1..Len(t)) BY <1>1, FS_Interval
<1>4. IsFiniteSet(commas(t)) BY <1>2, <1>3, FS_Subset
<1>5. Len(t) + 1 \notin 1..Len(t) BY <1>1
<1> QED BY <1>2, <1>4, <1>5, FS_CardinalityType

\* Only a comma adds to the commas.
LEMMA CommasAfter ==
  ASSUME NEW t, IsSequence(t), NEW c
  PROVE  /\ c # Comma => commas(Append(t, c)) = commas(t)
         /\ c = Comma => /\ commas(Append(t, c)) = commas(t) \cup {Len(t) + 1}
                         /\ Cardinality(commas(Append(t, c))) = Cardinality(commas(t)) + 1
<1> DEFINE n == Len(t)
           v == Append(t, c)
<1>1. /\ n \in Nat /\ DOMAIN t = 1..n /\ DOMAIN v = 1..(n + 1)
      /\ v[n + 1] = c /\ \A i \in 1..n : v[i] = t[i]
  BY Appending
<1> HIDE DEF n, v
<1>2. \A i : i \in 1..(n + 1) <=> i \in 1..n \/ i = n + 1 BY <1>1
<1>3. c # Comma => commas(v) = commas(t) BY <1>1, <1>2 DEF commas
<1>4. c = Comma => commas(v) = commas(t) \cup {n + 1} BY <1>1, <1>2 DEF commas
<1>5. IsFiniteSet(commas(t)) /\ n + 1 \notin commas(t) BY CommasFinite DEF n
<1>6. Cardinality(commas(t) \cup {n + 1}) = Cardinality(commas(t)) + 1
  BY <1>5, FS_AddElement
<1> QED BY <1>3, <1>4, <1>6 DEF n, v

\* There is room for so many members.
LEMMA NoMemberMore ==
  ASSUME NEW t, IsSequence(t), NEW u, IsSequence(u), Extends(u, Append(t, Comma)),
         Cardinality(commas(t)) + 1 >= MaxMembers
  PROVE  ~StateAt(u)
<1> SUFFICES ASSUME StateAt(u) PROVE FALSE OBVIOUS
<1> DEFINE v == Append(t, Comma)
<1>1. IsSequence(v) /\ Len(v) \in Nat /\ DOMAIN v = 1..Len(v)
  BY Appending DEF IsSequence
<1>2. Cardinality(commas(v)) = Cardinality(commas(t)) + 1 BY CommasAfter
<1> HIDE DEF v
<1>3. Len(u) \in Nat /\ DOMAIN u = 1..Len(u) BY DEF IsSequence
<1>4. Extends(u, v) BY DEF v
<1>5. Len(v) <= Len(u) /\ \A i \in 1..Len(v) : u[i] = v[i] BY <1>4 DEF Extends
<1>6. \A i \in 1..Len(v) : i \in 1..Len(u) BY <1>1, <1>3, <1>5
<1>7. commas(v) \subseteq commas(u) BY <1>1, <1>3, <1>5, <1>6 DEF commas
<1>8. IsFiniteSet(commas(u)) /\ Cardinality(commas(u)) \in Nat /\ Cardinality(commas(v)) \in Nat
  BY <1>1, CommasFinite
<1>9. Cardinality(commas(v)) <= Cardinality(commas(u)) BY <1>7, <1>8, FS_Subset
<1>10. Cardinality(commas(u)) < MaxMembers BY DEF StateAt
<1>11. Cardinality(commas(t)) \in Nat BY CommasFinite
<1> QED BY <1>2, <1>8, <1>9, <1>10, <1>11, StateLengthAssumption

\* A key whose equals sign was there before one more character was there before.
LEMMA HasKeyBefore ==
  ASSUME NEW t, IsSequence(t), NEW c, NEW x \in Nat, NEW k,
         NEW s, NEW q, Named(Append(t, c), x, s, q), k = SubSeq(Append(t, c), s, q - 1), q # Len(t) + 1
  PROVE  HasKey(t, x, k)
<1> DEFINE n == Len(t)
           v == Append(t, c)
<1>1. /\ IsSequence(v) /\ n \in Nat /\ Len(v) = n + 1 /\ \A i \in 1..n : v[i] = t[i]
  BY Appending
<1>2. Named(v, x, s, q) /\ k = SubSeq(v, s, q - 1) /\ q # n + 1 OBVIOUS
<1> HIDE DEF n, v
<1>3. s \in Nat /\ q \in Nat /\ x < s /\ s < q /\ q <= n + 1 BY <1>1, <1>2, NamedParts
<1>4. q <= n /\ s \in 1..n /\ q \in 1..n /\ s >= 1 /\ q - 1 \in Nat /\ s <= (q - 1) + 1
  BY <1>1, <1>2, <1>3
<1>5. (\A i \in 1..q : t[i] = v[i]) /\ (\A i \in s..(q - 1) : t[i] = v[i])
  BY <1>1, <1>4
<1>6. Named(t, x, s, q) BY <1>1, <1>2, <1>4, <1>5, NamedOfSame DEF n
<1>7. q - 1 <= Len(t) /\ q - 1 <= Len(v) BY <1>1, <1>4 DEF n
<1>8. SubSeq(t, s, q - 1) = SubSeq(v, s, q - 1) BY <1>1, <1>4, <1>5, <1>7, SameSlice
<1> QED BY <1>2, <1>4, <1>6, <1>8 DEF HasKey, n

\* Only an equals sign ends a key.
LEMMA KeysKept ==
  ASSUME NEW t, IsSequence(t), NEW c, c # Equals, NEW x, NEW k
  PROVE  /\ x \in starts(Append(t, c)) /\ HasKey(Append(t, c), x, k) => x \in starts(t) /\ HasKey(t, x, k)
         /\ x \in starts(t) /\ HasKey(t, x, k) => x \in starts(Append(t, c)) /\ HasKey(Append(t, c), x, k)
<1> DEFINE n == Len(t)
           v == Append(t, c)
<1>1. /\ IsSequence(v) /\ n \in Nat /\ Len(v) = n + 1 /\ v[n + 1] = c /\ Extends(v, t)
      /\ DOMAIN t = 1..n /\ DOMAIN v = 1..(n + 1)
  BY Appending
<1>2. commas(v) = commas(t) \/ commas(v) = commas(t) \cup {n + 1} BY CommasAfter
<1>3. starts(t) \subseteq Nat /\ starts(v) \subseteq Nat BY <1>1 DEF starts, commas
<1> HIDE DEF n, v
<1>4. ASSUME x \in starts(v), HasKey(v, x, k) PROVE x \in starts(t) /\ HasKey(t, x, k)
  <2>1. PICK s, q \in 1..Len(v) : Named(v, x, s, q) /\ k = SubSeq(v, s, q - 1) BY <1>4 DEF HasKey
  <2>2. x \in Nat BY <1>3, <1>4
  <2>3. s \in Nat /\ q \in Nat /\ x < s /\ s < q /\ q <= n + 1 /\ v[q] = Equals
    BY <1>1, <2>1, <2>2, NamedParts
  <2>4. q # n + 1 BY <1>1, <2>3
  <2>5. HasKey(t, x, k) BY <2>1, <2>2, <2>4, HasKeyBefore DEF n, v
  <2>6. x # n + 1 BY <1>1, <2>2, <2>3
  <2> QED BY <1>2, <1>4, <2>5, <2>6 DEF starts
<1>5. ASSUME x \in starts(t), HasKey(t, x, k) PROVE x \in starts(v) /\ HasKey(v, x, k)
  <2>1. x \in Nat BY <1>3, <1>5
  <2>2. HasKey(v, x, k) BY <1>1, <1>5, <2>1, HasKeyOfExtension
  <2> QED BY <1>2, <1>5, <2>2 DEF starts
<1> QED BY <1>4, <1>5 DEF v

\* The list of keys stays right unless an equals sign is read.
LEMMA ListedKept ==
  ASSUME NEW t, IsSequence(t), NEW c, c # Equals, NEW keys, Listed(t, keys), Distinct(t)
  PROVE  Listed(Append(t, c), keys) /\ Distinct(Append(t, c))
<1> DEFINE v == Append(t, c)
<1>1. \A x, k : (x \in starts(v) /\ HasKey(v, x, k)) <=> (x \in starts(t) /\ HasKey(t, x, k))
  BY KeysKept
<1> HIDE DEF v
<1>2. Listed(v, keys)
  <2> SUFFICES ASSUME NEW k PROVE k \in keys <=> \E x \in starts(v) : HasKey(v, x, k) BY DEF Listed
  <2>1. k \in keys <=> \E x \in starts(t) : HasKey(t, x, k) BY DEF Listed
  <2> QED BY <1>1, <2>1
<1>3. Distinct(v) BY <1>1 DEF Distinct
<1> QED BY <1>2, <1>3 DEF v

\* A comma closes the member being read, which must then be well formed.
LEMMA ClosedAfter ==
  ASSUME NEW t, IsSequence(t), NEW c, NEW a, Opened(t, a), Closed(t),
         c = Comma => WellFormed(Append(t, c), a, Len(t) + 1)
  PROVE  Closed(Append(t, c))
<1> DEFINE n == Len(t)
           v == Append(t, c)
<1>1. /\ n \in Nat /\ Len(v) = n + 1 /\ v[n + 1] = c /\ \A i \in 1..n : v[i] = t[i]
  BY Appending
<1>2. /\ a \in 0..n /\ (a = 0 \/ t[a] = Comma)
      /\ \A i \in (a + 1)..n : t[i] # Comma
  BY DEF Opened
<1>w. c = Comma => WellFormed(v, a, n + 1) OBVIOUS
<1> HIDE DEF n, v
<1> SUFFICES ASSUME NEW x, NEW y, Member(v, x, y), y <= n + 1 PROVE WellFormed(v, x, y)
  BY <1>1 DEF Closed, v
<1>3. /\ x \in 0..(n + 1) /\ y \in 1..(n + 2) /\ x < y
      /\ x = 0 \/ v[x] = Comma
      /\ y = n + 2 \/ v[y] = Comma
      /\ \A i \in (x + 1)..(y - 1) : v[i] # Comma
  <2>1. /\ x \in 0..Len(v) /\ y \in 1..(Len(v) + 1) /\ x < y
        /\ x = 0 \/ v[x] = Comma
        /\ y = Len(v) + 1 \/ v[y] = Comma
        /\ \A i \in (x + 1)..(y - 1) : v[i] # Comma
    BY DEF Member
  <2>2. (n + 1) + 1 = n + 2 BY <1>1
  <2> QED BY <1>1, <2>1, <2>2
<1>4. x \in Nat /\ y \in Nat /\ x <= n /\ y # n + 2 /\ v[y] = Comma BY <1>1, <1>3
<1>5. CASE y <= n
  <2>1. x \in 0..n /\ y \in 1..(n + 1) /\ y \in 1..n /\ (x = 0 \/ x \in 1..n) /\ \A i \in (x + 1)..(y - 1) : i \in 1..n
    BY <1>1, <1>3, <1>4, <1>5
  <2>2. (x = 0 \/ t[x] = Comma) /\ t[y] = Comma /\ \A i \in (x + 1)..(y - 1) : t[i] # Comma
    BY <1>1, <1>3, <1>4, <2>1
  <2>3. Member(t, x, y) BY <1>3, <2>1, <2>2 DEF Member, n
  <2>4. WellFormed(t, x, y) BY <1>5, <2>3 DEF Closed, n
  <2>5. y <= Len(t) + 1 /\ y <= Len(v) + 1 /\ Len(t) \in Nat /\ Len(v) \in Nat BY <1>1, <1>4, <1>5 DEF n
  <2>6. \A i \in 1..(y - 1) : v[i] = t[i] BY <1>1, <1>4, <1>5
  <2> QED BY <1>4, <2>4, <2>5, <2>6, WellFormedOfSame
<1>6. CASE ~(y <= n)
  <2>1. y = n + 1 BY <1>1, <1>4, <1>6
  <2>2. c = Comma BY <1>1, <1>4, <2>1
  <2>3. ~(x < a)
    <3> SUFFICES ASSUME x < a PROVE FALSE OBVIOUS
    <3>1. a # 0 /\ a \in 1..n /\ a \in (x + 1)..(y - 1) BY <1>1, <1>2, <1>4, <2>1
    <3>2. v[a] = Comma BY <1>1, <1>2, <3>1
    <3> QED BY <1>3, <3>1, <3>2
  <2>4. ~(a < x)
    <3> SUFFICES ASSUME a < x PROVE FALSE OBVIOUS
    <3>1. x # 0 /\ x \in 1..n /\ x \in (a + 1)..n BY <1>1, <1>2, <1>4
    <3>2. t[x] = Comma BY <1>1, <1>3, <3>1
    <3> QED BY <1>2, <3>1, <3>2
  <2>5. x = a BY <1>1, <1>2, <1>4, <2>3, <2>4
  <2> QED BY <1>w, <2>1, <2>2, <2>5
<1> QED BY <1>5, <1>6

\* What the ledger of finished members says.
LEMMA LedgerParts ==
  ASSUME NEW t, IsSequence(t), NEW a, NEW keys, NEW open, Ledger(t, a, keys, open)
  PROVE  /\ Opened(t, a) /\ Closed(t) /\ Distinct(t) /\ Listed(t, keys) /\ IsFiniteSet(keys)
         /\ Len(t) > 0 => t[1] \notin Blanks
         /\ Cardinality(commas(t)) < MaxMembers /\ Cardinality(keys) = Cardinality(commas(t)) + open
         /\ a \in Nat /\ a <= Len(t) /\ Len(t) \in Nat /\ Cardinality(commas(t)) \in Nat
<1>1. Len(t) \in Nat BY DEF IsSequence
<1>2. Opened(t, a) BY DEF Ledger
<1>3. a \in Nat /\ a <= Len(t) BY <1>1, <1>2 DEF Opened
<1>4. Cardinality(commas(t)) \in Nat BY CommasFinite
<1> QED BY <1>1, <1>2, <1>3, <1>4 DEF Ledger

\* The first character stays the first.
LEMMA FirstKept ==
  ASSUME NEW t, IsSequence(t), NEW c, Len(t) > 0 => t[1] \notin Blanks, Len(t) = 0 => c \notin Blanks
  PROVE  Append(t, c)[1] \notin Blanks
<1>1. /\ Len(t) \in Nat /\ Append(t, c)[Len(t) + 1] = c /\ \A i \in 1..Len(t) : Append(t, c)[i] = t[i]
  BY Appending
<1>2. CASE Len(t) = 0
  <2>1. Len(t) + 1 = 1 BY <1>2
  <2> QED BY <1>1, <1>2, <2>1
<1>3. CASE Len(t) # 0
  <2>1. 1 \in 1..Len(t) /\ Len(t) > 0 BY <1>1, <1>3
  <2> QED BY <1>1, <2>1
<1> QED BY <1>2, <1>3

\* A comma opens the next member.
LEMMA OpenedAfter ==
  ASSUME NEW t, IsSequence(t), NEW c, NEW a, Opened(t, a)
  PROVE  /\ c # Comma => Opened(Append(t, c), a)
         /\ c = Comma => Opened(Append(t, c), Len(t) + 1)
<1> DEFINE n == Len(t)
           v == Append(t, c)
<1>1. /\ n \in Nat /\ Len(v) = n + 1 /\ v[n + 1] = c /\ \A i \in 1..n : v[i] = t[i]
  BY Appending
<1>2. /\ a \in 0..n /\ (a = 0 \/ t[a] = Comma)
      /\ \A i \in (a + 1)..n : t[i] # Comma
  BY DEF Opened
<1> HIDE DEF n, v
<1>3. /\ a \in 0..(n + 1) /\ (a = 0 \/ a \in 1..n) /\ n + 1 \in 0..(n + 1)
      /\ \A i \in (a + 1)..(n + 1) : i = n + 1 \/ (i \in 1..n /\ i \in (a + 1)..n)
      /\ \A i \in ((n + 1) + 1)..(n + 1) : FALSE
  BY <1>1, <1>2
<1>4. a = 0 \/ v[a] = Comma BY <1>1, <1>2, <1>3
<1>5. c # Comma => \A i \in (a + 1)..(n + 1) : v[i] # Comma BY <1>1, <1>2, <1>3
<1>6. c # Comma => Opened(v, a) BY <1>1, <1>3, <1>4, <1>5 DEF Opened
<1>7. c = Comma => Opened(v, n + 1) BY <1>1, <1>3 DEF Opened
<1> QED BY <1>6, <1>7 DEF n, v

\* A character within a member leaves the ledger as it is.
LEMMA LedgerKept ==
  ASSUME NEW t, IsSequence(t), NEW c, NEW a, NEW keys, NEW open, Ledger(t, a, keys, open),
         c # Comma, c # Equals, Len(t) = 0 => c \notin Blanks
  PROVE  Ledger(Append(t, c), a, keys, open)
<1> DEFINE v == Append(t, c)
<1>1. /\ Opened(t, a) /\ Closed(t) /\ Distinct(t) /\ Listed(t, keys) /\ IsFiniteSet(keys)
      /\ Len(t) > 0 => t[1] \notin Blanks
      /\ Cardinality(commas(t)) < MaxMembers /\ Cardinality(keys) = Cardinality(commas(t)) + open
  BY LedgerParts
<1>2. Opened(v, a) BY <1>1, OpenedAfter
<1>3. Closed(v) BY <1>1, ClosedAfter
<1>4. Distinct(v) /\ Listed(v, keys) BY <1>1, ListedKept
<1>5. commas(v) = commas(t) BY CommasAfter
<1>6. v[1] \notin Blanks BY <1>1, FirstKept
<1> HIDE DEF v
<1>7. Ledger(v, a, keys, open) BY <1>1, <1>2, <1>3, <1>4, <1>5, <1>6 DEF Ledger
<1> QED BY <1>7 DEF v

\* The end of a member.
LEMMA LedgerClosed ==
  ASSUME NEW t, IsSequence(t), NEW a, NEW keys, Ledger(t, a, keys, 1), Len(t) > 0,
         WellFormed(Append(t, Comma), a, Len(t) + 1), Cardinality(keys) < MaxMembers
  PROVE  Ledger(Append(t, Comma), Len(t) + 1, keys, 0)
<1> DEFINE v == Append(t, Comma)
           n == Len(t)
<1>1. /\ Opened(t, a) /\ Closed(t) /\ Distinct(t) /\ Listed(t, keys) /\ IsFiniteSet(keys)
      /\ Len(t) > 0 => t[1] \notin Blanks
      /\ Cardinality(keys) = Cardinality(commas(t)) + 1
      /\ Len(t) \in Nat /\ Cardinality(commas(t)) \in Nat
  BY LedgerParts
<1>2. Opened(v, n + 1) BY <1>1, OpenedAfter
<1>3. Closed(v) BY <1>1, ClosedAfter
<1>4. Distinct(v) /\ Listed(v, keys)
  <2>1. Comma # Equals BY Characters
  <2> QED BY <1>1, <2>1, ListedKept
<1>5. Cardinality(commas(v)) = Cardinality(commas(t)) + 1 BY CommasAfter
<1>6. v[1] \notin Blanks
  <2>1. Len(t) # 0 BY <1>1
  <2> QED BY <1>1, <2>1, FirstKept
<1> HIDE DEF v, n
<1>7. Cardinality(keys) = Cardinality(commas(v)) + 0 /\ Cardinality(commas(v)) < MaxMembers
  <2> DEFINE m == Cardinality(commas(t))
  <2>1. m \in Nat /\ Cardinality(keys) = m + 1 /\ Cardinality(commas(v)) = m + 1 BY <1>1, <1>5
  <2> HIDE DEF m
  <2> QED BY <2>1
<1>8. Ledger(v, n + 1, keys, 0) BY <1>1, <1>2, <1>3, <1>4, <1>6, <1>7 DEF Ledger
<1> QED BY <1>8 DEF v, n

\* The end of a key.
LEMMA LedgerNamed ==
  ASSUME NEW t, IsSequence(t), NEW a, NEW keys, Ledger(t, a, keys, 0), Len(t) > 0,
         NEW s, Named(Append(t, Equals), a, s, Len(t) + 1),
         NEW key, key = SubSeq(t, s, Len(t)), key \notin keys
  PROVE  Ledger(Append(t, Equals), a, keys \cup {key}, 1)
<1> DEFINE v == Append(t, Equals)
           n == Len(t)
           new == keys \cup {key}
<1>1. /\ Opened(t, a) /\ Closed(t) /\ Distinct(t) /\ Listed(t, keys) /\ IsFiniteSet(keys)
      /\ n > 0 => t[1] \notin Blanks
      /\ Cardinality(keys) = Cardinality(commas(t)) + 0
      /\ Cardinality(commas(t)) < MaxMembers
      /\ n \in Nat /\ Cardinality(commas(t)) \in Nat /\ a \in Nat
  BY LedgerParts
<1>2. /\ IsSequence(v) /\ Len(v) = n + 1 /\ v[n + 1] = Equals /\ Extends(v, t)
      /\ DOMAIN t = 1..n /\ DOMAIN v = 1..(n + 1) /\ \A i \in 1..n : v[i] = t[i]
  BY Appending
<1>c. Equals # Comma BY Characters
<1>3. Opened(v, a) BY <1>1, <1>c, OpenedAfter
<1>4. Closed(v) BY <1>1, <1>c, ClosedAfter
<1>5. commas(v) = commas(t) BY <1>c, CommasAfter
<1>6. v[1] \notin Blanks
  <2>1. n # 0 BY <1>1
  <2> QED BY <1>1, <2>1, FirstKept
<1>7. Named(v, a, s, n + 1) /\ key = SubSeq(t, s, n) OBVIOUS
<1>o. /\ a \in 0..n /\ (a = 0 \/ t[a] = Comma)
      /\ \A i \in (a + 1)..n : t[i] # Comma
  BY <1>1 DEF Opened
<1> HIDE DEF v, n
<1>8. s \in Nat /\ a < s /\ s < n + 1 BY <1>1, <1>2, <1>7, NamedParts
<1>9. SubSeq(v, s, n) = key
  <2>1. s >= 1 /\ s <= n + 1 /\ n <= Len(v) /\ \A i \in s..n : i \in 1..n BY <1>1, <1>2, <1>8
  <2>2. \A i \in s..n : v[i] = t[i] BY <1>2, <2>1
  <2> QED BY <1>1, <1>2, <1>7, <1>8, <2>1, <2>2, SameSlice DEF n
<1>10. starts(v) = starts(t) /\ a \in starts(t)
  <2>1. a = 0 \/ a \in 1..n BY <1>1, <1>o
  <2> QED BY <1>2, <1>5, <1>o, <2>1 DEF starts, commas
<1>11. \A x \in starts(t) : x \in Nat /\ (x = 0 \/ (x \in 1..n /\ t[x] = Comma))
  <2>1. \A x \in starts(t) : x = 0 \/ (x \in 1..n /\ t[x] = Comma) BY <1>2 DEF starts, commas
  <2>2. \A x \in 1..n : x \in Nat BY <1>1
  <2> QED BY <2>1, <2>2
<1>12. HasKey(v, a, key)
  <2>1. s \in 1..(n + 1) /\ n + 1 \in 1..(n + 1) /\ (n + 1) - 1 = n BY <1>1, <1>8
  <2> QED BY <1>2, <1>7, <1>9, <2>1 DEF HasKey
<1>13. ASSUME NEW x \in starts(t), NEW k, HasKey(v, x, k) PROVE HasKey(t, x, k) \/ (x = a /\ k = key)
  <2>1. PICK y, q \in 1..Len(v) : Named(v, x, y, q) /\ k = SubSeq(v, y, q - 1) BY <1>13 DEF HasKey
  <2>2. x \in Nat BY <1>11
  <2>3. CASE q # n + 1
    <3>1. HasKey(t, x, k) BY <2>1, <2>2, <2>3, HasKeyBefore DEF n, v
    <3> QED BY <3>1
  <2>4. CASE q = n + 1
    <3>1. /\ y \in Nat /\ x < y /\ y < n + 1
          /\ \A i \in y..n : v[i] \in KeyCharacters \cup {At}
          /\ \A i \in (x + 1)..(y - 1) : v[i] \in Blanks
      <4>1. Named(v, x, y, n + 1) /\ Len(v) \in Nat /\ (n + 1) - 1 = n BY <1>1, <1>2, <2>1, <2>4
      <4> QED BY <2>2, <4>1, NamedParts
    <3>2. ~(x < a)
      <4> SUFFICES ASSUME x < a PROVE FALSE OBVIOUS
      <4>1. a # 0 /\ a \in 1..n /\ (a \in (x + 1)..(y - 1) \/ a \in y..n) BY <1>1, <1>o, <2>2, <3>1
      <4>2. v[a] = Comma BY <1>2, <1>o, <4>1
      <4> QED BY <3>1, <4>1, <4>2, Characters
    <3>3. ~(a < x)
      <4> SUFFICES ASSUME a < x PROVE FALSE OBVIOUS
      <4>1. x # 0 /\ x \in Nat BY <1>1, <2>2
      <4>2. x \in 1..n /\ t[x] = Comma BY <1>11, <4>1
      <4>3. x \in (a + 1)..n BY <1>1, <4>2
      <4> QED BY <1>o, <4>2, <4>3
    <3>4. x = a BY <1>1, <2>2, <3>2, <3>3
    <3>5. y = s
      <4>1. Named(v, a, y, n + 1) /\ Len(v) \in Nat BY <1>1, <1>2, <2>1, <2>4, <3>4
      <4> QED BY <1>1, <1>7, <4>1, OneKey
    <3>6. q - 1 = n BY <1>1, <2>4
    <3> QED BY <1>9, <2>1, <3>4, <3>5, <3>6
  <2> QED BY <2>3, <2>4
<1>15. \A x \in starts(t) : \A k : HasKey(t, x, k) => HasKey(v, x, k)
  BY <1>2, <1>11, HasKeyOfExtension
<1>16. \A k : k \in keys <=> \E x \in starts(t) : HasKey(t, x, k) BY <1>1 DEF Listed
<1>17. Listed(v, new)
  <2> SUFFICES ASSUME NEW k PROVE k \in new <=> \E x \in starts(v) : HasKey(v, x, k) BY DEF Listed
  <2>1. ASSUME k \in new PROVE \E x \in starts(v) : HasKey(v, x, k)
    BY <1>10, <1>12, <1>15, <1>16, <2>1
  <2>2. ASSUME NEW x \in starts(v), HasKey(v, x, k) PROVE k \in new
    BY <1>10, <1>13, <1>16, <2>2
  <2> QED BY <2>1, <2>2
<1>18. Distinct(v)
  <2> SUFFICES ASSUME NEW x \in starts(t), NEW y \in starts(t), NEW k, HasKey(v, x, k), HasKey(v, y, k)
               PROVE  x = y
    BY <1>10 DEF Distinct
  <2>1. HasKey(t, x, k) \/ (x = a /\ k = key) BY <1>13
  <2>2. HasKey(t, y, k) \/ (y = a /\ k = key) BY <1>13
  <2>3. HasKey(t, x, k) /\ HasKey(t, y, k) => x = y BY <1>1 DEF Distinct
  <2>4. ~HasKey(t, x, key) /\ ~HasKey(t, y, key) BY <1>16
  <2> QED BY <2>1, <2>2, <2>3, <2>4
<1>19. IsFiniteSet(new) /\ Cardinality(new) = Cardinality(commas(v)) + 1
  <2>1. IsFiniteSet(new) /\ Cardinality(new) = Cardinality(keys) + 1 BY <1>1, FS_AddElement
  <2> HIDE DEF new
  <2> QED BY <1>1, <1>5, <2>1
<1> HIDE DEF new
<1>20. Ledger(v, a, new, 1) BY <1>1, <1>3, <1>4, <1>5, <1>6, <1>17, <1>18, <1>19 DEF Ledger
<1> QED BY <1>20 DEF v, new
-----------------------------------------------------------------------------

\* A slice up to the end of the text grows with it.
LEMMA SliceGrows ==
  ASSUME NEW t, IsSequence(t), NEW c, NEW s \in Nat, s >= 1, s <= Len(t) + 1
  PROVE  SubSeq(Append(t, c), s, Len(t) + 1) = Append(SubSeq(t, s, Len(t)), c)
<1> DEFINE n == Len(t)
           v == Append(t, c)
           x == SubSeq(v, s, n + 1)
           y == SubSeq(t, s, n)
           z == Append(y, c)
<1>1. IsSequence(v) /\ n \in Nat /\ Len(v) = n + 1 /\ v[n + 1] = c /\ \A i \in 1..n : v[i] = t[i]
  BY Appending
<1>2. n + 1 \in Nat /\ s <= (n + 1) + 1 /\ n + 1 <= Len(v) /\ (n + 1) - s + 1 = n - s + 2 BY <1>1
<1>3. IsSequence(x) /\ Len(x) = (n + 1) - s + 1 /\ \A i \in 1..((n + 1) - s + 1) : x[i] = v[s + i - 1]
  <2> DEFINE m == n + 1
  <2>1. IsSequence(v) /\ m \in Nat /\ s <= m + 1 /\ m <= Len(v) BY <1>1, <1>2
  <2> SUFFICES IsSequence(SubSeq(v, s, m)) /\ Len(SubSeq(v, s, m)) = m - s + 1
               /\ \A i \in 1..(m - s + 1) : SubSeq(v, s, m)[i] = v[s + i - 1]
    OBVIOUS
  <2> HIDE DEF v, m
  <2> QED BY <2>1, SliceOf
<1>4. IsSequence(y) /\ Len(y) = n - s + 1 /\ \A i \in 1..(n - s + 1) : y[i] = t[s + i - 1]
  BY <1>1, SliceOf
<1>5. IsSequence(z) /\ Len(z) = Len(y) + 1 /\ z[Len(y) + 1] = c /\ \A i \in 1..Len(y) : z[i] = y[i]
  BY <1>4, Appending
<1> HIDE DEF n, v, x, y, z
<1>6. Len(x) = Len(z) /\ Len(z) = n - s + 2 BY <1>1, <1>2, <1>3, <1>4, <1>5
<1>7. ASSUME NEW i \in 1..Len(x) PROVE x[i] = z[i]
  <2>1. x[i] = v[s + i - 1] BY <1>3
  <2>2. CASE i = n - s + 2
    <3>1. s + i - 1 = n + 1 /\ i = Len(y) + 1 BY <1>1, <1>4, <2>2
    <3> QED BY <1>1, <1>5, <2>1, <3>1
  <2>3. CASE i # n - s + 2
    <3>1. i \in 1..(n - s + 1) /\ s + i - 1 \in 1..n BY <1>1, <1>2, <1>3, <2>3
    <3>2. i \in 1..Len(y) BY <1>4, <3>1
    <3>3. z[i] = t[s + i - 1] BY <1>4, <1>5, <3>1, <3>2
    <3>4. v[s + i - 1] = t[s + i - 1] BY <1>1, <3>1
    <3> QED BY <2>1, <3>3, <3>4
  <2> QED BY <2>2, <2>3
<1>8. x = z BY <1>3, <1>5, <1>6, <1>7, SameSequence
<1> QED BY <1>8 DEF n, v, x, y, z

\* A blank before a key is skipped (InStart).
LEMMA BlankBeforeKey ==
  ASSUME NEW t, IsSequence(t), NEW c \in Blanks, NEW a \in Nat, BeforeKey(t, a)
  PROVE  BeforeKey(Append(t, c), a)
<1> DEFINE n == Len(t)
           v == Append(t, c)
<1>1. n \in Nat /\ Len(v) = n + 1 /\ v[n + 1] = c /\ \A i \in 1..n : v[i] = t[i] BY Appending
<1>2. \A i \in (a + 1)..n : t[i] \in Blanks BY DEF BeforeKey
<1> HIDE DEF n, v
<1>3. \A i \in (a + 1)..(n + 1) : i = n + 1 \/ (i \in 1..n /\ i \in (a + 1)..n) BY <1>1
<1>4. \A i \in (a + 1)..(n + 1) : v[i] \in Blanks BY <1>1, <1>2, <1>3
<1> QED BY <1>1, <1>4 DEF BeforeKey, v

\* A letter or a digit begins a key (InStart).
LEMMA KeyBegins ==
  ASSUME NEW t, IsSequence(t), NEW c \in LowerCase \cup Digits, NEW a \in Nat, a <= Len(t), BeforeKey(t, a),
         MaxKeyBytes > 0
  PROVE  WithinKey(Append(t, c), a, Len(t) + 1, <<c>>)
<1> DEFINE n == Len(t)
           v == Append(t, c)
           x == SubSeq(t, n + 1, n)
<1>1. n \in Nat /\ Len(v) = n + 1 /\ v[n + 1] = c /\ \A i \in 1..n : v[i] = t[i] BY Appending
<1>2. \A i \in (a + 1)..n : t[i] \in Blanks BY DEF BeforeKey
<1>x. SubSeq(v, n + 1, n + 1) = <<c>>
  <2>1. n + 1 \in Nat /\ n + 1 >= 1 /\ n + 1 <= n + 1 /\ n + 1 > n BY <1>1
  <2>2. SubSeq(v, n + 1, n + 1) = Append(x, c) BY <2>1, SliceGrows
  <2>3. x = <<>>
    <3>1. IsSequence(x) /\ Len(x) = n - (n + 1) + 1 BY <1>1, <2>1, SliceOf
    <3>2. n - (n + 1) + 1 = 0 BY <1>1
    <3> HIDE DEF x
    <3> QED BY <3>1, <3>2 DEF IsSequence
  <2>4. Append(<<>>, c) = <<c>> OBVIOUS
  <2> HIDE DEF x
  <2> QED BY <2>2, <2>3, <2>4
<1>a. a <= n OBVIOUS
<1> HIDE DEF n, v
<1>3. /\ \A i \in (a + 1)..((n + 1) - 1) : i \in 1..n /\ i \in (a + 1)..n
      /\ n + 1 \in (a + 1)..(n + 1) /\ \A i \in (n + 1)..(n + 1) : i = n + 1
      /\ (n + 1) - (n + 1) + 1 <= MaxKeyBytes
  BY <1>1, <1>a, StateLengthAssumption
<1>4. \A i \in (a + 1)..((n + 1) - 1) : v[i] \in Blanks BY <1>1, <1>2, <1>3
<1>5. Led(v, a, n + 1) BY <1>1, <1>3, <1>4 DEF Led
<1>6. c \in KeyCharacters BY Characters
<1>7. \A i \in (n + 1)..(n + 1) : v[i] \in KeyCharacters BY <1>1, <1>3, <1>6
<1>8. WithinKey(v, a, n + 1, <<c>>) BY <1>1, <1>3, <1>5, <1>7, <1>x DEF WithinKey
<1> QED BY <1>8 DEF n, v

\* The key being read keeps its place.
LEMMA LedKept ==
  ASSUME NEW t, IsSequence(t), NEW c, NEW a \in Nat, NEW s, Led(t, a, s)
  PROVE  /\ Led(Append(t, c), a, s) /\ s \in Nat /\ a < s /\ s >= 1 /\ s <= Len(t) /\ s <= Len(t) + 1
         /\ s \in 1..Len(t) /\ s \in 1..Len(Append(t, c)) /\ Append(t, c)[s] = t[s]
<1> DEFINE n == Len(t)
           v == Append(t, c)
<1>1. n \in Nat /\ Len(v) = n + 1 /\ \A i \in 1..n : v[i] = t[i] BY Appending
<1>2. s \in (a + 1)..n /\ \A i \in (a + 1)..(s - 1) : t[i] \in Blanks BY DEF Led
<1> HIDE DEF n, v
<1>3. /\ s \in Nat /\ s \in 1..n /\ s \in (a + 1)..(n + 1) /\ a < s /\ s <= n /\ s \in 1..(n + 1) /\ s >= 1 /\ s <= n + 1
      /\ \A i \in (a + 1)..(s - 1) : i \in 1..n
  BY <1>1, <1>2
<1>4. v[s] = t[s] /\ \A i \in (a + 1)..(s - 1) : v[i] \in Blanks BY <1>1, <1>2, <1>3
<1>5. Led(v, a, s) BY <1>1, <1>3, <1>4 DEF Led
<1> QED BY <1>1, <1>3, <1>4, <1>5 DEF n, v

\* A key grows up to its limit (InKey).
LEMMA KeyGrows ==
  ASSUME NEW t, IsSequence(t), NEW c \in KeyCharacters, NEW a \in Nat, NEW s, NEW key, WithinKey(t, a, s, key),
         Len(t) - s + 1 < MaxKeyBytes
  PROVE  WithinKey(Append(t, c), a, s, Append(key, c))
<1> DEFINE n == Len(t)
           v == Append(t, c)
<1>1. n \in Nat /\ Len(v) = n + 1 /\ v[n + 1] = c /\ \A i \in 1..n : v[i] = t[i] BY Appending
<1>2. /\ Led(t, a, s) /\ t[s] \in LowerCase \cup Digits
      /\ \A i \in s..n : t[i] \in KeyCharacters
      /\ key = SubSeq(t, s, n)
  BY DEF WithinKey
<1>3. Led(v, a, s) /\ s \in Nat /\ s >= 1 /\ s <= n /\ s <= n + 1 /\ v[s] = t[s] BY <1>2, LedKept
<1>4. SubSeq(v, s, n + 1) = Append(key, c) BY <1>2, <1>3, SliceGrows
<1>5. n - s + 1 < MaxKeyBytes OBVIOUS
<1> HIDE DEF n, v
<1>s. s \in Nat /\ s >= 1 /\ s <= n BY <1>3
<1>6. /\ (n + 1) - s + 1 <= MaxKeyBytes
      /\ \A i \in s..(n + 1) : i = n + 1 \/ (i \in s..n /\ i \in 1..n)
  BY <1>1, <1>5, <1>s, StateLengthAssumption
<1>7. \A i \in s..(n + 1) : v[i] \in KeyCharacters BY <1>1, <1>2, <1>6
<1>8. WithinKey(v, a, s, Append(key, c)) BY <1>1, <1>2, <1>3, <1>4, <1>6, <1>7 DEF WithinKey
<1> QED BY <1>8 DEF v

\* An at sign ends the tenant and begins the system id (InKey).
LEMMA SystemBegins ==
  ASSUME NEW t, IsSequence(t), NEW a \in Nat, NEW s, NEW key, WithinKey(t, a, s, key),
         Len(t) - s + 1 <= MaxTenantBytes, Len(t) - s + 1 < MaxKeyBytes
  PROVE  WithinSystem(Append(t, At), a, s, Len(t) + 1, Append(key, At), 0)
<1> DEFINE n == Len(t)
           v == Append(t, At)
<1>1. n \in Nat /\ Len(v) = n + 1 /\ v[n + 1] = At /\ \A i \in 1..n : v[i] = t[i] BY Appending
<1>2. /\ Led(t, a, s) /\ t[s] \in LowerCase \cup Digits
      /\ \A i \in s..n : t[i] \in KeyCharacters
      /\ key = SubSeq(t, s, n)
  BY DEF WithinKey
<1>3. Led(v, a, s) /\ s \in Nat /\ s >= 1 /\ s <= n /\ s <= n + 1 /\ v[s] = t[s] BY <1>2, LedKept
<1>4. SubSeq(v, s, n + 1) = Append(key, At) BY <1>2, <1>3, SliceGrows
<1>5. n - s + 1 < MaxKeyBytes /\ n - s + 1 <= MaxTenantBytes OBVIOUS
<1> HIDE DEF n, v
<1>s. s \in Nat /\ s >= 1 /\ s <= n BY <1>3
<1>6. /\ (n + 1) - s + 1 <= MaxKeyBytes /\ (n + 1) - s <= MaxTenantBytes
      /\ n + 1 \in (s + 1)..(n + 1) /\ ~(n + 1 < n + 1)
      /\ 0 = (n + 1) - (n + 1) /\ 0 <= MaxSystemBytes
      /\ \A i \in s..((n + 1) - 1) : i \in s..n /\ i \in 1..n
      /\ \A i \in ((n + 1) + 1)..(n + 1) : FALSE
  BY <1>1, <1>5, <1>s, StateLengthAssumption
<1>7. \A i \in s..((n + 1) - 1) : v[i] \in KeyCharacters BY <1>1, <1>2, <1>6
<1>8. WithinSystem(v, a, s, n + 1, Append(key, At), 0) BY <1>1, <1>2, <1>3, <1>4, <1>6, <1>7 DEF WithinSystem
<1> QED BY <1>8 DEF n, v

\* A system id grows up to its limit (InSystem).
LEMMA SystemGrows ==
  ASSUME NEW t, IsSequence(t), NEW c, NEW a \in Nat, NEW s, NEW p, NEW key, NEW system,
         WithinSystem(t, a, s, p, key, system),
         c \in (IF system = 0 THEN LowerCase ELSE KeyCharacters),
         system < MaxSystemBytes, Len(t) - s + 1 < MaxKeyBytes
  PROVE  WithinSystem(Append(t, c), a, s, p, Append(key, c), system + 1)
<1> DEFINE n == Len(t)
           v == Append(t, c)
<1>1. n \in Nat /\ Len(v) = n + 1 /\ v[n + 1] = c /\ \A i \in 1..n : v[i] = t[i] BY Appending
<1>2. /\ Led(t, a, s) /\ t[s] \in LowerCase \cup Digits
      /\ p \in (s + 1)..n /\ t[p] = At /\ p - s <= MaxTenantBytes
      /\ \A i \in s..(p - 1) : t[i] \in KeyCharacters
      /\ \A i \in (p + 1)..n : t[i] \in KeyCharacters
      /\ p < n => t[p + 1] \in LowerCase
      /\ system = n - p /\ key = SubSeq(t, s, n)
  BY DEF WithinSystem
<1>3. Led(v, a, s) /\ s \in Nat /\ s >= 1 /\ s <= n /\ s <= n + 1 /\ v[s] = t[s] BY <1>2, LedKept
<1>4. SubSeq(v, s, n + 1) = Append(key, c) BY <1>2, <1>3, SliceGrows
<1>5. n - s + 1 < MaxKeyBytes /\ system < MaxSystemBytes OBVIOUS
<1>c. c \in KeyCharacters /\ (system = 0 => c \in LowerCase) BY Characters
<1> HIDE DEF n, v
<1>s. p \in Nat /\ s < p /\ p <= n /\ system = n - p BY <1>1, <1>2, <1>3
<1>6. /\ (n + 1) - s + 1 <= MaxKeyBytes /\ system + 1 <= MaxSystemBytes /\ system + 1 = (n + 1) - p
      /\ p \in (s + 1)..(n + 1) /\ p \in 1..n /\ p < n + 1
      /\ \A i \in s..(p - 1) : i \in 1..n
      /\ \A i \in (p + 1)..(n + 1) : i = n + 1 \/ (i \in (p + 1)..n /\ i \in 1..n)
  BY <1>1, <1>3, <1>5, <1>s, StateLengthAssumption
<1>7. v[p] = At /\ \A i \in s..(p - 1) : v[i] \in KeyCharacters BY <1>1, <1>2, <1>6
<1>8. \A i \in (p + 1)..(n + 1) : v[i] \in KeyCharacters BY <1>1, <1>2, <1>6, <1>c
<1>9. v[p + 1] \in LowerCase
  <2>1. CASE p < n
    <3>1. p + 1 \in 1..n BY <1>1, <1>s, <2>1
    <3> QED BY <1>1, <1>2, <2>1, <3>1
  <2>2. CASE ~(p < n)
    <3>1. p + 1 = n + 1 /\ system = 0 BY <1>1, <1>s, <2>2
    <3> QED BY <1>1, <1>c, <3>1
  <2> QED BY <2>1, <2>2
<1>t. p - s <= MaxTenantBytes BY <1>2
<1>10. WithinSystem(v, a, s, p, Append(key, c), system + 1)
  BY <1>1, <1>2, <1>3, <1>4, <1>6, <1>7, <1>8, <1>9, <1>t DEF WithinSystem
<1> QED BY <1>10 DEF v

\* An equals sign ends a key without a tenant (InKey).
LEMMA KeyEnds ==
  ASSUME NEW t, IsSequence(t), NEW a \in Nat, NEW s, NEW key, WithinKey(t, a, s, key), t[s] \in LowerCase
  PROVE  Named(Append(t, Equals), a, s, Len(t) + 1)
<1> DEFINE n == Len(t)
           v == Append(t, Equals)
<1>1. n \in Nat /\ Len(v) = n + 1 /\ v[n + 1] = Equals /\ \A i \in 1..n : v[i] = t[i] BY Appending
<1>2. Led(t, a, s) /\ (\A i \in s..n : t[i] \in KeyCharacters) /\ n - s + 1 <= MaxKeyBytes
  BY DEF WithinKey
<1>3. Led(v, a, s) /\ s \in Nat /\ a < s /\ s >= 1 /\ s <= n /\ v[s] = t[s] /\ s \in 1..(n + 1) BY <1>1, <1>2, LedKept
<1> HIDE DEF n, v
<1>4. /\ s < n + 1 /\ (n + 1) - s <= MaxKeyBytes /\ n + 1 \in 1..(n + 1)
      /\ \A i \in s..((n + 1) - 1) : i \in s..n /\ i \in 1..n
  BY <1>1, <1>2, <1>3, StateLengthAssumption
<1>5. \A i \in s..((n + 1) - 1) : v[i] \in KeyCharacters BY <1>1, <1>2, <1>4
<1>6. KeyFrom(v, s, n + 1) BY <1>3, <1>4, <1>5 DEF KeyFrom
<1>7. \A i \in (a + 1)..(s - 1) : v[i] \in Blanks BY <1>3 DEF Led
<1>8. Named(v, a, s, n + 1) BY <1>1, <1>3, <1>4, <1>6, <1>7 DEF Named
<1> QED BY <1>8 DEF n, v

\* An equals sign ends a key with a tenant (InSystem).
LEMMA SystemEnds ==
  ASSUME NEW t, IsSequence(t), NEW a \in Nat, NEW s, NEW p, NEW key, NEW system,
         WithinSystem(t, a, s, p, key, system), system > 0
  PROVE  Named(Append(t, Equals), a, s, Len(t) + 1)
<1> DEFINE n == Len(t)
           v == Append(t, Equals)
<1>1. n \in Nat /\ Len(v) = n + 1 /\ v[n + 1] = Equals /\ \A i \in 1..n : v[i] = t[i] BY Appending
<1>2. /\ Led(t, a, s) /\ t[s] \in LowerCase \cup Digits
      /\ p \in (s + 1)..n /\ t[p] = At
      /\ \A i \in s..(p - 1) : t[i] \in KeyCharacters
      /\ \A i \in (p + 1)..n : t[i] \in KeyCharacters
      /\ p < n => t[p + 1] \in LowerCase
  BY DEF WithinSystem
<1>l. p - s <= MaxTenantBytes /\ system = n - p /\ system <= MaxSystemBytes /\ n - s + 1 <= MaxKeyBytes
  BY DEF WithinSystem
<1>3. Led(v, a, s) /\ s \in Nat /\ a < s /\ s >= 1 /\ s <= n /\ v[s] = t[s] /\ s \in 1..(n + 1) BY <1>1, <1>2, LedKept
<1> HIDE DEF n, v
<1>s. p \in Nat /\ s < p /\ p < n BY <1>1, <1>2, <1>3, <1>l
<1>4. /\ s < n + 1 /\ (n + 1) - s <= MaxKeyBytes /\ n + 1 \in 1..(n + 1)
      /\ p \in (s + 1)..((n + 1) - 2) /\ p \in 1..n /\ p + 1 \in 1..n
      /\ (n + 1) - 1 - p <= MaxSystemBytes
      /\ \A i \in s..(p - 1) : i \in 1..n
      /\ \A i \in (p + 1)..((n + 1) - 1) : i \in (p + 1)..n /\ i \in 1..n
  BY <1>1, <1>3, <1>l, <1>s, StateLengthAssumption
<1>5. /\ v[p] = At /\ v[p + 1] \in LowerCase /\ v[s] \in LowerCase \cup Digits
      /\ \A i \in s..(p - 1) : v[i] \in KeyCharacters
      /\ \A i \in (p + 1)..((n + 1) - 1) : v[i] \in KeyCharacters
  BY <1>1, <1>2, <1>3, <1>4, <1>s
<1>6. KeyFrom(v, s, n + 1) BY <1>3, <1>4, <1>5, <1>l DEF KeyFrom
<1>7. \A i \in (a + 1)..(s - 1) : v[i] \in Blanks BY <1>3 DEF Led
<1>8. Named(v, a, s, n + 1) BY <1>1, <1>3, <1>4, <1>6, <1>7 DEF Named
<1> QED BY <1>8 DEF n, v

\* A key stays the key of its member.
LEMMA NamedKept ==
  ASSUME NEW t, IsSequence(t), NEW c, NEW a \in Nat, NEW s, NEW q, Named(t, a, s, q)
  PROVE  /\ Named(Append(t, c), a, s, q) /\ s \in Nat /\ q \in Nat /\ 1 <= s /\ s < q /\ q <= Len(t)
         /\ s \in 1..Len(t) /\ q \in 1..Len(t) /\ s \in 1..(Len(t) + 1) /\ q \in 1..(Len(t) + 1)
<1> DEFINE n == Len(t)
           v == Append(t, c)
<1>1. n \in Nat /\ Len(v) = n + 1 /\ \A i \in 1..n : v[i] = t[i] BY Appending
<1>2. s \in Nat /\ q \in Nat /\ a < s /\ s < q /\ q <= n BY <1>1, NamedParts
<1> HIDE DEF n, v
<1>3. /\ 1 <= s /\ s \in 1..n /\ q \in 1..n /\ s \in 1..(n + 1) /\ q \in 1..(n + 1) /\ q <= n + 1
      /\ n + 1 \in Nat /\ \A i \in 1..q : i \in 1..n
  BY <1>1, <1>2
<1>4. \A i \in 1..q : v[i] = t[i] BY <1>1, <1>3
<1>5. Named(v, a, s, q) BY <1>1, <1>3, <1>4, NamedOfSame DEF n
<1> QED BY <1>2, <1>3, <1>5 DEF n, v

\* The value begins behind the equals sign.
LEMMA ValueBegins ==
  ASSUME NEW t, IsSequence(t), NEW a, NEW s, Named(Append(t, Equals), a, s, Len(t) + 1)
  PROVE  WithinValue(Append(t, Equals), a, s, Len(t) + 1, Len(t) + 1, 0, 0)
<1> DEFINE n == Len(t)
           v == Append(t, Equals)
<1>1. n \in Nat /\ Len(v) = n + 1 BY Appending
<1>2. Named(v, a, s, n + 1) OBVIOUS
<1> HIDE DEF n, v
<1>3. /\ n + 1 \in (n + 1)..(n + 1) /\ 0 = (n + 1) - (n + 1) /\ 0 <= MaxValueBytes
      /\ \A i \in ((n + 1) + 1)..(n + 1) : FALSE
  BY <1>1, StateLengthAssumption
<1>4. WithinValue(v, a, s, n + 1, n + 1, 0, 0) BY <1>1, <1>2, <1>3 DEF WithinValue
<1> QED BY <1>4 DEF n, v

\* A space counts for the value only if more of it follows (InValue).
LEMMA ValueBlank ==
  ASSUME NEW t, IsSequence(t), NEW a \in Nat, NEW s, NEW q, NEW e, NEW value, NEW blanks,
         WithinValue(t, a, s, q, e, value, blanks)
  PROVE  WithinValue(Append(t, Space), a, s, q, e, value, blanks + 1)
<1> DEFINE n == Len(t)
           v == Append(t, Space)
<1>1. n \in Nat /\ Len(v) = n + 1 /\ v[n + 1] = Space /\ \A i \in 1..n : v[i] = t[i] BY Appending
<1>2. /\ Named(t, a, s, q) /\ e \in q..n
      /\ e = q \/ t[e] # Space
      /\ \A i \in (q + 1)..e : t[i] \in ValueCharacters
      /\ \A i \in (e + 1)..n : t[i] = Space
  BY DEF WithinValue
<1>l. value = e - q /\ value <= MaxValueBytes /\ blanks = n - e BY DEF WithinValue
<1>3. Named(v, a, s, q) /\ q \in Nat /\ 1 <= s /\ s < q /\ s \in Nat BY <1>2, NamedKept
<1> HIDE DEF n, v
<1>s. e \in q..n /\ q \in Nat /\ 1 <= q BY <1>2, <1>3
<1>4. /\ e \in q..(n + 1) /\ e \in 1..n /\ blanks + 1 = (n + 1) - e
      /\ \A i \in (q + 1)..e : i \in 1..n
      /\ \A i \in (e + 1)..(n + 1) : i = n + 1 \/ (i \in (e + 1)..n /\ i \in 1..n)
  BY <1>1, <1>l, <1>s
<1>5. /\ e = q \/ v[e] # Space
      /\ \A i \in (q + 1)..e : v[i] \in ValueCharacters
      /\ \A i \in (e + 1)..(n + 1) : v[i] = Space
  BY <1>1, <1>2, <1>4
<1>6. WithinValue(v, a, s, q, e, value, blanks + 1) BY <1>1, <1>3, <1>4, <1>5, <1>l DEF WithinValue
<1> QED BY <1>6 DEF v

\* A character behind spaces makes them part of the value (InValue).
LEMMA ValueGrows ==
  ASSUME NEW t, IsSequence(t), NEW c \in ValueCharacters \ {Space}, NEW a \in Nat, NEW s, NEW q, NEW e,
         NEW value, NEW blanks, WithinValue(t, a, s, q, e, value, blanks),
         value + blanks < MaxValueBytes
  PROVE  WithinValue(Append(t, c), a, s, q, Len(t) + 1, value + blanks + 1, 0)
<1> DEFINE n == Len(t)
           v == Append(t, c)
<1>1. n \in Nat /\ Len(v) = n + 1 /\ v[n + 1] = c /\ \A i \in 1..n : v[i] = t[i] BY Appending
<1>2. /\ Named(t, a, s, q) /\ e \in q..n
      /\ \A i \in (q + 1)..e : t[i] \in ValueCharacters
      /\ \A i \in (e + 1)..n : t[i] = Space
  BY DEF WithinValue
<1>l. value = e - q /\ blanks = n - e BY DEF WithinValue
<1>3. Named(v, a, s, q) /\ q \in Nat /\ 1 <= s /\ s < q /\ s \in Nat BY <1>2, NamedKept
<1> HIDE DEF n, v
<1>s. e \in q..n /\ q \in Nat /\ 1 <= q BY <1>2, <1>3
<1>4. /\ n + 1 \in q..(n + 1) /\ value + blanks + 1 = (n + 1) - q /\ 0 = (n + 1) - (n + 1)
      /\ value + blanks + 1 <= MaxValueBytes
      /\ \A i \in (q + 1)..(n + 1) : i = n + 1 \/ (i \in (q + 1)..e /\ i \in 1..n) \/ (i \in (e + 1)..n /\ i \in 1..n)
      /\ \A i \in ((n + 1) + 1)..(n + 1) : FALSE
  BY <1>1, <1>l, <1>s, StateLengthAssumption
<1>c. Space \in ValueCharacters BY Characters
<1>5. \A i \in (q + 1)..(n + 1) : v[i] \in ValueCharacters BY <1>1, <1>2, <1>4, <1>c
<1>6. v[n + 1] # Space BY <1>1
<1>7. WithinValue(v, a, s, q, n + 1, value + blanks + 1, 0) BY <1>1, <1>3, <1>4, <1>5, <1>6 DEF WithinValue
<1> QED BY <1>7 DEF n, v

\* A tab ends the value (InValue).
LEMMA ValueTab ==
  ASSUME NEW t, IsSequence(t), NEW a \in Nat, NEW s, NEW q, NEW e, NEW value, NEW blanks,
         WithinValue(t, a, s, q, e, value, blanks), value > 0
  PROVE  BehindValue(Append(t, Tab), a, s, q, e)
<1> DEFINE n == Len(t)
           v == Append(t, Tab)
<1>1. n \in Nat /\ Len(v) = n + 1 /\ v[n + 1] = Tab /\ \A i \in 1..n : v[i] = t[i] BY Appending
<1>2. /\ Named(t, a, s, q) /\ e \in q..n
      /\ e = q \/ t[e] # Space
      /\ \A i \in (q + 1)..e : t[i] \in ValueCharacters
      /\ \A i \in (e + 1)..n : t[i] = Space
  BY DEF WithinValue
<1>l. value = e - q /\ value <= MaxValueBytes BY DEF WithinValue
<1>3. Named(v, a, s, q) /\ q \in Nat /\ 1 <= s /\ s < q /\ s \in Nat BY <1>2, NamedKept
<1> HIDE DEF n, v
<1>s. e \in q..n /\ q \in Nat /\ 1 <= q /\ e # q BY <1>1, <1>2, <1>3, <1>l
<1>4. /\ e \in (q + 1)..(n + 1) /\ e \in 1..n /\ e - q <= MaxValueBytes /\ n + 1 \in (e + 1)..(n + 1)
      /\ \A i \in (q + 1)..e : i \in 1..n
      /\ \A i \in (e + 1)..(n + 1) : i = n + 1 \/ (i \in (e + 1)..n /\ i \in 1..n)
  BY <1>1, <1>l, <1>s
<1>c. Space \in Blanks /\ Tab \in Blanks BY Characters
<1>5. /\ v[e] # Space
      /\ \A i \in (q + 1)..e : v[i] \in ValueCharacters
      /\ \A i \in (e + 1)..(n + 1) : v[i] \in Blanks
      /\ \E i \in (e + 1)..(n + 1) : v[i] = Tab
  BY <1>1, <1>2, <1>4, <1>c, <1>s
<1>6. BehindValue(v, a, s, q, e) BY <1>1, <1>3, <1>4, <1>5 DEF BehindValue
<1> QED BY <1>6 DEF v

\* Blanks may follow a value (InTail).
LEMMA TailGrows ==
  ASSUME NEW t, IsSequence(t), NEW c \in Blanks, NEW a \in Nat, NEW s, NEW q, NEW e, BehindValue(t, a, s, q, e)
  PROVE  BehindValue(Append(t, c), a, s, q, e)
<1> DEFINE n == Len(t)
           v == Append(t, c)
<1>1. n \in Nat /\ Len(v) = n + 1 /\ v[n + 1] = c /\ \A i \in 1..n : v[i] = t[i] BY Appending
<1>2. /\ Named(t, a, s, q) /\ e \in (q + 1)..n /\ t[e] # Space
      /\ \A i \in (q + 1)..e : t[i] \in ValueCharacters
      /\ \A i \in (e + 1)..n : t[i] \in Blanks
      /\ \E i \in (e + 1)..n : t[i] = Tab
  BY DEF BehindValue
<1>l. e - q <= MaxValueBytes BY DEF BehindValue
<1>3. Named(v, a, s, q) /\ q \in Nat /\ 1 <= s /\ s < q /\ s \in Nat BY <1>2, NamedKept
<1> HIDE DEF n, v
<1>s. e \in (q + 1)..n /\ q \in Nat /\ 1 <= q BY <1>2, <1>3
<1>4. /\ e \in (q + 1)..(n + 1) /\ e \in 1..n
      /\ \A i \in (q + 1)..e : i \in 1..n
      /\ \A i \in (e + 1)..n : i \in 1..n /\ i \in (e + 1)..(n + 1)
      /\ \A i \in (e + 1)..(n + 1) : i = n + 1 \/ (i \in (e + 1)..n /\ i \in 1..n)
  BY <1>1, <1>s
<1>5. /\ v[e] # Space
      /\ \A i \in (q + 1)..e : v[i] \in ValueCharacters
      /\ \A i \in (e + 1)..(n + 1) : v[i] \in Blanks
  BY <1>1, <1>2, <1>4
<1>6. \E i \in (e + 1)..(n + 1) : v[i] = Tab BY <1>1, <1>2, <1>4
<1>7. BehindValue(v, a, s, q, e) BY <1>1, <1>3, <1>4, <1>5, <1>6, <1>l DEF BehindValue
<1> QED BY <1>7 DEF v

\* A value that has begun, and blanks: the member is well formed as far as it goes.
LEMMA ValueEnds ==
  ASSUME NEW t, IsSequence(t), NEW a \in Nat, NEW s, NEW q, NEW e, Named(t, a, s, q),
         e \in (q + 1)..Len(t), e - q <= MaxValueBytes, t[e] # Space,
         \A i \in (q + 1)..e : t[i] \in ValueCharacters,
         \A i \in (e + 1)..Len(t) : t[i] \in Blanks
  PROVE  WellFormed(t, a, Len(t) + 1) /\ \A c : WellFormed(Append(t, c), a, Len(t) + 1)
<1> DEFINE n == Len(t)
<1>1. n \in Nat BY DEF IsSequence
<1>2. s \in 1..n /\ q \in 1..n BY NamedKept
<1>3. /\ e \in (q + 1)..n /\ e - q <= MaxValueBytes /\ t[e] # Space
      /\ \A i \in (q + 1)..e : t[i] \in ValueCharacters
      /\ \A i \in (e + 1)..n : t[i] \in Blanks
  OBVIOUS
<1>n. Named(t, a, s, q) OBVIOUS
<1>e. e \in (q + 1)..n OBVIOUS
<1> HIDE DEF n
<1>4. e \in 1..n /\ q < e /\ e < n + 1 /\ \A i \in (e + 1)..((n + 1) - 1) : i \in (e + 1)..n
  BY <1>1, <1>2, <1>e
<1>5. Valued(t, q, e, n + 1) BY <1>3, <1>4 DEF Valued, n
<1>6. WellFormed(t, a, n + 1) BY <1>2, <1>4, <1>5, <1>n DEF WellFormed, n
<1>7. ASSUME NEW c PROVE WellFormed(Append(t, c), a, n + 1)
  <2> DEFINE v == Append(t, c)
  <2>1. Len(v) = n + 1 /\ \A i \in 1..n : v[i] = t[i] BY Appending DEF n
  <2> HIDE DEF v
  <2>2. n + 1 \in Nat /\ n + 1 <= Len(t) + 1 /\ n + 1 <= Len(v) + 1 /\ Len(v) \in Nat /\ (n + 1) - 1 = n
    BY <1>1, <2>1 DEF n
  <2>3. WellFormed(v, a, n + 1) BY <1>1, <1>6, <2>1, <2>2, WellFormedOfSame DEF n
  <2> QED BY <2>3 DEF v
<1> QED BY <1>6, <1>7 DEF n

\* Behind a comma no key has begun.
LEMMA MemberBegins ==
  ASSUME NEW t, IsSequence(t)
  PROVE  BeforeKey(Append(t, Comma), Len(t) + 1)
<1>1. Len(t) \in Nat /\ Len(Append(t, Comma)) = Len(t) + 1 BY Appending
<1>2. \A i \in ((Len(t) + 1) + 1)..(Len(t) + 1) : FALSE BY <1>1
<1> QED BY <1>1, <1>2 DEF BeforeKey

-----------------------------------------------------------------------------
(* The records of the automaton.                                            *)

withPhase(o, x) == [o EXCEPT !.phase = x]

\* Setting the phase leaves the other fields alone.
LEMMA PhaseFields ==
  ASSUME NEW o, Shaped(o), NEW x,
         NEW r, r = withPhase(o, x)
  PROVE  /\ Shaped(r) /\ r.phase = x
         /\ r.key = o.key /\ r.system = o.system /\ r.value = o.value /\ r.blanks = o.blanks /\ r.keys = o.keys
<1> DEFINE r1 == [o EXCEPT !.phase = x]
<1>0. r = r1 BY DEF withPhase
<1>1. /\ Shaped(r1) /\ r1.phase = x
      /\ r1.key = o.key /\ r1.system = o.system /\ r1.value = o.value /\ r1.blanks = o.blanks /\ r1.keys = o.keys
  BY DEF Shaped
<1> HIDE DEF r1
<1> QED BY <1>0, <1>1

withDead(o, x, d) == [o EXCEPT !.phase = x, !.dead = d]

\* Giving up leaves what was read alone.
LEMMA DeadFields ==
  ASSUME NEW o, Shaped(o), NEW x, NEW d,
         NEW r, r = withDead(o, x, d)
  PROVE  /\ Shaped(r) /\ r.phase = x /\ r.dead = d
         /\ r.key = o.key /\ r.system = o.system /\ r.value = o.value /\ r.blanks = o.blanks /\ r.keys = o.keys
<1> DEFINE r1 == [o EXCEPT !.phase = x]
           r2 == [r1 EXCEPT !.dead = d]
<1>0. r = r2 BY DEF withDead
<1>1. /\ Shaped(r1) /\ r1.phase = x
      /\ r1.key = o.key /\ r1.system = o.system /\ r1.value = o.value /\ r1.blanks = o.blanks /\ r1.keys = o.keys
  BY DEF Shaped
<1>2. /\ Shaped(r2) /\ r2.phase = x /\ r2.dead = d
      /\ r2.key = o.key /\ r2.system = o.system /\ r2.value = o.value /\ r2.blanks = o.blanks /\ r2.keys = o.keys
  <2> HIDE DEF r1
  <2> QED BY <1>1 DEF Shaped
<1> HIDE DEF r2
<1> QED BY <1>0, <1>2

withKey(o, x, k) == [o EXCEPT !.phase = x, !.key = k]

\* Setting the key leaves the other fields alone.
LEMMA KeyFields ==
  ASSUME NEW o, Shaped(o), NEW x, NEW k,
         NEW r, r = withKey(o, x, k)
  PROVE  /\ Shaped(r) /\ r.phase = x /\ r.key = k
         /\ r.system = o.system /\ r.value = o.value /\ r.blanks = o.blanks /\ r.keys = o.keys
<1> DEFINE r1 == [o EXCEPT !.phase = x]
           r2 == [r1 EXCEPT !.key = k]
<1>0. r = r2 BY DEF withKey
<1>1. /\ Shaped(r1) /\ r1.phase = x
      /\ r1.key = o.key /\ r1.system = o.system /\ r1.value = o.value /\ r1.blanks = o.blanks /\ r1.keys = o.keys
  BY DEF Shaped
<1>2. /\ Shaped(r2) /\ r2.phase = x /\ r2.key = k
      /\ r2.system = o.system /\ r2.value = o.value /\ r2.blanks = o.blanks /\ r2.keys = o.keys
  <2> HIDE DEF r1
  <2> QED BY <1>1 DEF Shaped
<1> HIDE DEF r2
<1> QED BY <1>0, <1>2

withSystem(o, n) == [o EXCEPT !.system = n]

\* Setting the system id leaves the other fields alone.
LEMMA SystemFields ==
  ASSUME NEW o, Shaped(o), NEW n,
         NEW r, r = withSystem(o, n)
  PROVE  /\ Shaped(r) /\ r.system = n
         /\ r.phase = o.phase /\ r.key = o.key /\ r.value = o.value /\ r.blanks = o.blanks /\ r.keys = o.keys
<1> DEFINE r1 == [o EXCEPT !.system = n]
<1>0. r = r1 BY DEF withSystem
<1>1. /\ Shaped(r1) /\ r1.system = n
      /\ r1.phase = o.phase /\ r1.key = o.key /\ r1.value = o.value /\ r1.blanks = o.blanks /\ r1.keys = o.keys
  BY DEF Shaped
<1> HIDE DEF r1
<1> QED BY <1>0, <1>1

withBlanks(o, m) == [o EXCEPT !.blanks = m]

\* Setting the blanks leaves the other fields alone.
LEMMA BlankFields ==
  ASSUME NEW o, Shaped(o), NEW m,
         NEW r, r = withBlanks(o, m)
  PROVE  /\ Shaped(r) /\ r.blanks = m
         /\ r.phase = o.phase /\ r.key = o.key /\ r.system = o.system /\ r.value = o.value /\ r.keys = o.keys
<1> DEFINE r1 == [o EXCEPT !.blanks = m]
<1>0. r = r1 BY DEF withBlanks
<1>1. /\ Shaped(r1) /\ r1.blanks = m
      /\ r1.phase = o.phase /\ r1.key = o.key /\ r1.system = o.system /\ r1.value = o.value /\ r1.keys = o.keys
  BY DEF Shaped
<1> HIDE DEF r1
<1> QED BY <1>0, <1>1

withValue(o, n, m) == [o EXCEPT !.value = n, !.blanks = m]

\* Setting the value leaves the other fields alone.
LEMMA ValueFields ==
  ASSUME NEW o, Shaped(o), NEW n, NEW m,
         NEW r, r = withValue(o, n, m)
  PROVE  /\ Shaped(r) /\ r.value = n /\ r.blanks = m
         /\ r.phase = o.phase /\ r.key = o.key /\ r.system = o.system /\ r.keys = o.keys
<1> DEFINE r1 == [o EXCEPT !.value = n]
           r2 == [r1 EXCEPT !.blanks = m]
<1>0. r = r2 BY DEF withValue
<1>1. /\ Shaped(r1) /\ r1.value = n
      /\ r1.phase = o.phase /\ r1.key = o.key /\ r1.system = o.system /\ r1.blanks = o.blanks /\ r1.keys = o.keys
  BY DEF Shaped
<1>2. /\ Shaped(r2) /\ r2.value = n /\ r2.blanks = m
      /\ r2.phase = o.phase /\ r2.key = o.key /\ r2.system = o.system /\ r2.keys = o.keys
  <2> HIDE DEF r1
  <2> QED BY <1>1 DEF Shaped
<1> HIDE DEF r2
<1> QED BY <1>0, <1>2

withName(o, x, ks, n, m) == [o EXCEPT !.phase = x, !.keys = ks, !.value = n, !.blanks = m]

\* Adding a key to the list leaves the key alone.
LEMMA NamedFields ==
  ASSUME NEW o, Shaped(o), NEW x, NEW ks, NEW n, NEW m,
         NEW r, r = withName(o, x, ks, n, m)
  PROVE  /\ Shaped(r) /\ r.phase = x /\ r.keys = ks /\ r.value = n /\ r.blanks = m
         /\ r.key = o.key /\ r.system = o.system
<1> DEFINE r1 == [o EXCEPT !.phase = x]
           r2 == [r1 EXCEPT !.keys = ks]
           r3 == [r2 EXCEPT !.value = n]
           r4 == [r3 EXCEPT !.blanks = m]
<1>0. r = r4 BY DEF withName
<1>1. /\ Shaped(r1) /\ r1.phase = x
      /\ r1.key = o.key /\ r1.system = o.system /\ r1.value = o.value /\ r1.blanks = o.blanks /\ r1.keys = o.keys
  BY DEF Shaped
<1>2. /\ Shaped(r2) /\ r2.phase = x /\ r2.keys = ks
      /\ r2.key = o.key /\ r2.system = o.system /\ r2.value = o.value /\ r2.blanks = o.blanks
  <2> HIDE DEF r1
  <2> QED BY <1>1 DEF Shaped
<1>3. /\ Shaped(r3) /\ r3.phase = x /\ r3.keys = ks /\ r3.value = n
      /\ r3.key = o.key /\ r3.system = o.system /\ r3.blanks = o.blanks
  <2> HIDE DEF r2
  <2> QED BY <1>2 DEF Shaped
<1>4. /\ Shaped(r4) /\ r4.phase = x /\ r4.keys = ks /\ r4.value = n /\ r4.blanks = m
      /\ r4.key = o.key /\ r4.system = o.system
  <2> HIDE DEF r3
  <2> QED BY <1>3 DEF Shaped
<1> HIDE DEF r4
<1> QED BY <1>0, <1>4

\* Giving up keeps the shape of the automaton's state.
LEMMA DeadShaped ==
  ASSUME Shaped(scan)
  PROVE  Shaped(Dead) /\ Dead.phase = "dead"
<1>1. Dead = withDead(scan, "dead", scan.dead + 1) BY DEF Dead, withDead
<1> QED BY <1>1, DeadFields

\* A text that is being read is scanned.
LEMMA GoesOn ==
  ASSUME NEW t, IsSequence(t), NEW r, Shaped(r), NEW a, Reading(t, a, r)
  PROVE  Scanned(t, r)
<1>1. r.phase # "dead" BY Zenon DEF Reading
<1>2. a \in 0..Len(t) BY Zenon DEF Reading, Ledger, Opened
<1> QED BY <1>1, <1>2, Zenon DEF Scanned

\* A text beyond repair is scanned by the dead automaton.
LEMMA GoesDead ==
  ASSUME NEW t, IsSequence(t), NEW r, Shaped(r), r.phase = "dead", Doomed(t)
  PROVE  Scanned(t, r)
BY Zenon DEF Scanned

\* No tracestate begins with a blank.
LEMMA NoBlankFirst ==
  ASSUME NEW t, IsSequence(t), Len(t) = 0, NEW c \in Blanks
  PROVE  Doomed(Append(t, c))
<1> SUFFICES ASSUME NEW u, IsSequence(u), Extends(u, Append(t, c)), StateAt(u) PROVE FALSE
  BY DEF Doomed
<1>1. IsSequence(t) /\ Len(t) = 0 OBVIOUS
<1>2. u[Len(t) + 1] = c
  <2> HIDE DEF Blanks
  <2> QED BY ONLY IsSequence(t), IsSequence(u), Extends(u, Append(t, c)), Beyond
<1>3. u[1] = c
  <2>1. Len(t) + 1 = 1 BY <1>1
  <2> QED BY <1>2, <2>1
<1>4. u[1] \notin Blanks BY DEF StateAt
<1> QED BY <1>3, <1>4

\* InStart keeps the invariant.
LEMMA StartStep ==
  ASSUME IsSequence(text), Shaped(scan), scan.phase = "start", NEW a,
         Ledger(text, a, scan.keys, 0), BeforeKey(text, a), NEW c
  PROVE  Scanned(Append(text, c), InStart(c))
<1> DEFINE v == Append(text, c)
           r == InStart(c)
           n == Len(text)
<1>1. IsSequence(v) /\ n \in Nat /\ Len(v) = n + 1 BY Appending
<1>2. Opened(text, a) /\ a \in Nat /\ a <= n BY LedgerParts
<1>3. CASE c \in Blanks /\ text # <<>>
  <2>1. r = scan BY <1>3 DEF InStart
  <2>2. c # Comma /\ c # Equals BY <1>3, Characters
  <2>3. n # 0 BY <1>3 DEF IsSequence
  <2>4. Ledger(v, a, scan.keys, 0) BY <2>2, <2>3, LedgerKept
  <2>5. BeforeKey(v, a) BY <1>2, <1>3, BlankBeforeKey
  <2> HIDE DEF v, r
  <2>6. Reading(v, a, r) BY <2>1, <2>4, <2>5, Zenon DEF Reading
  <2>7. Scanned(v, r) BY <1>1, <2>1, <2>6, GoesOn
  <2> QED BY <2>7 DEF v, r
<1>4. CASE ~(c \in Blanks /\ text # <<>>) /\ c \in LowerCase \cup Digits /\ MaxKeyBytes > 0
  <2>1. r = withKey(scan, "key", <<c>>) BY <1>4 DEF InStart, withKey
  <2>2. Shaped(r) /\ r.phase = "key" /\ r.key = <<c>> /\ r.keys = scan.keys BY <2>1, KeyFields
  <2>3. c # Comma /\ c # Equals /\ c \notin Blanks BY <1>4, Characters
  <2>4. Ledger(v, a, scan.keys, 0) BY <2>3, LedgerKept
  <2>5. WithinKey(v, a, n + 1, <<c>>) BY <1>2, <1>4, KeyBegins
  <2>6. n + 1 \in 1..Len(v) BY <1>1
  <2> HIDE DEF v, r, n
  <2>7. Reading(v, a, r) BY <2>2, <2>4, <2>5, <2>6, Zenon DEF Reading
  <2>8. Scanned(v, r) BY <1>1, <2>2, <2>7, GoesOn
  <2> QED BY <2>8 DEF v, r
<1>5. CASE ~(c \in Blanks /\ text # <<>>) /\ ~(c \in LowerCase \cup Digits /\ MaxKeyBytes > 0)
  <2>1. r = Dead BY <1>5 DEF InStart
  <2>2. Doomed(v)
    <3>1. CASE c \in Blanks
      <4>1. text = <<>> BY <1>5, <3>1
      <4>2. n = 0 BY <4>1
      <4> QED BY <3>1, <4>2, NoBlankFirst
    <3>2. CASE c \notin Blanks BY <1>2, <1>5, <3>2, NoKeyStarts DEF Doomed
    <3> QED BY <3>1, <3>2
  <2>3. Shaped(r) /\ r.phase = "dead" BY <2>1, DeadShaped
  <2> HIDE DEF v, r
  <2>4. Scanned(v, r) BY <1>1, <2>2, <2>3, GoesDead
  <2> QED BY <2>4 DEF v, r
<1> QED BY <1>3, <1>4, <1>5

\* The key read so far is no longer than the text.
LEMMA SliceRead ==
  ASSUME NEW t, IsSequence(t), NEW s \in 1..Len(t), NEW key, key = SubSeq(t, s, Len(t))
  PROVE  Len(key) = Len(t) - s + 1 /\ key[1] = t[s] /\ Len(t) > 0
<1>1. Len(t) \in Nat BY DEF IsSequence
<1>2. s \in Nat /\ s >= 1 /\ s <= Len(t) + 1 /\ 1 \in 1..(Len(t) - s + 1) /\ s + 1 - 1 = s /\ Len(t) > 0 BY <1>1
<1>3. Len(key) = Len(t) - s + 1 /\ \A i \in 1..(Len(t) - s + 1) : key[i] = t[s + i - 1]
  BY <1>1, <1>2, SliceOf
<1>4. key[1] = t[s + 1 - 1] BY <1>2, <1>3
<1> QED BY <1>2, <1>3, <1>4

\* The equals sign ends a key, which must be new.
LEMMA BeginStep ==
  ASSUME IsSequence(text), Shaped(scan), NEW a, Ledger(text, a, scan.keys, 0), NEW s \in 1..Len(text),
         Led(text, a, s), text[s] \notin Blanks, \A i \in s..Len(text) : text[i] \in KeyCharacters \cup {At},
         scan.key = SubSeq(text, s, Len(text)), Named(Append(text, Equals), a, s, Len(text) + 1)
  PROVE  Scanned(Append(text, Equals), beginValue)
<1> DEFINE v == Append(text, Equals)
           r == beginValue
           n == Len(text)
<1>1. IsSequence(v) /\ n \in Nat /\ Len(v) = n + 1 BY Appending
<1>2. Opened(text, a) /\ Listed(text, scan.keys) BY LedgerParts
<1>3. n > 0 BY SliceRead
<1>4. CASE scan.key \in scan.keys
  <2>1. r = Dead BY <1>4 DEF beginValue
  <2>2. PICK x \in starts(text) : HasKey(text, x, scan.key) BY <1>2, <1>4 DEF Listed
  <2>3. HasKey(text, x, SubSeq(text, s, Len(text))) BY <2>2
  <2>4. Doomed(v)
    <3> SUFFICES ASSUME NEW u, IsSequence(u), Extends(u, v) PROVE ~StateAt(u) BY DEF Doomed
    <3> QED BY <1>2, <2>3, NoKeyTwice
  <2>5. Shaped(r) /\ r.phase = "dead" BY <2>1, DeadShaped
  <2> HIDE DEF v, r
  <2>6. Scanned(v, r) BY <1>1, <2>4, <2>5, GoesDead
  <2> QED BY <2>6 DEF v, r
<1>5. CASE scan.key \notin scan.keys
  <2> DEFINE new == scan.keys \cup {scan.key}
  <2>1. r = withName(scan, "value", new, 0, 0) BY <1>5 DEF beginValue, withName
  <2>2. Shaped(r) /\ r.phase = "value" /\ r.keys = new /\ r.value = 0 /\ r.blanks = 0
    <3> HIDE DEF new, r
    <3> QED BY <2>1, NamedFields
  <2>3. Ledger(v, a, new, 1) BY <1>3, <1>5, LedgerNamed
  <2>4. WithinValue(v, a, s, n + 1, n + 1, 0, 0) BY ValueBegins
  <2>5. n + 1 \in 1..Len(v) /\ s \in 1..Len(v) BY <1>1
  <2> HIDE DEF v, r, n, new
  <2>6. Reading(v, a, r) BY <2>2, <2>3, <2>4, <2>5, Zenon DEF Reading
  <2>7. Scanned(v, r) BY <1>1, <2>2, <2>6, GoesOn
  <2> QED BY <2>7 DEF v, r
<1> QED BY <1>4, <1>5

\* InKey keeps the invariant.
LEMMA KeyStep ==
  ASSUME IsSequence(text), Shaped(scan), NEW a, Ledger(text, a, scan.keys, 0),
         NEW s \in 1..Len(text), WithinKey(text, a, s, scan.key), NEW c
  PROVE  Scanned(Append(text, c), InKey(c))
<1> DEFINE v == Append(text, c)
           r == InKey(c)
           n == Len(text)
           m == n - s + 1
           key == Append(scan.key, c)
<1> SUFFICES Scanned(v, r) OBVIOUS
<1>1. IsSequence(v) /\ n \in Nat /\ Len(v) = n + 1 BY Appending
<1>2. Opened(text, a) /\ a \in Nat /\ a <= n BY LedgerParts
<1>3. /\ Led(text, a, s) /\ text[s] \in LowerCase \cup Digits /\ scan.key = SubSeq(text, s, n)
      /\ \A i \in s..n : text[i] \in KeyCharacters
  BY DEF WithinKey
<1>4. Len(scan.key) = m /\ scan.key[1] = text[s] BY <1>3, SliceRead
<1>5. s \in 1..Len(v) /\ n + 1 \in 1..Len(v) BY <1>1
<1>d. ASSUME r.phase = "dead", Shaped(r), ~(c \in KeyCharacters /\ m < MaxKeyBytes),
             ~(c = At /\ m <= MaxTenantBytes /\ m < MaxKeyBytes), ~(c = Equals /\ text[s] \in LowerCase)
      PROVE  Scanned(v, r)
  <2>1. Doomed(v)
    <3> SUFFICES ASSUME NEW u, IsSequence(u), Extends(u, v) PROVE ~StateAt(u) BY DEF Doomed
    <3> QED BY <1>2, <1>d, NoKeyContinues
  <2> HIDE DEF v, r
  <2> QED BY <1>1, <1>d, <2>1, GoesDead
<1>6. CASE c \in KeyCharacters
  <2>2. c # Comma /\ c # Equals /\ c # At /\ c \notin Blanks BY <1>6, Characters
  <2>1. r = longer(c, "key")
    <3>1. c # "@" /\ c # "=" BY <2>2 DEF At, Equals
    <3> QED BY <1>6, <3>1 DEF InKey
  <2>3. CASE m < MaxKeyBytes
    <3>1. r = withKey(scan, "key", key) BY <1>4, <2>1, <2>3 DEF longer, withKey
    <3>2. Shaped(r) /\ r.phase = "key" /\ r.key = key /\ r.keys = scan.keys
      <4> HIDE DEF r, key
      <4> QED BY <3>1, KeyFields
    <3>3. Ledger(v, a, scan.keys, 0) BY <2>2, LedgerKept
    <3>4. WithinKey(v, a, s, key) BY <1>2, <1>6, <2>3, KeyGrows
    <3> HIDE DEF v, r, key
    <3>5. Reading(v, a, r) BY <1>5, <3>2, <3>3, <3>4, Zenon DEF Reading
    <3> QED BY <1>1, <3>2, <3>5, GoesOn
  <2>4. CASE ~(m < MaxKeyBytes)
    <3>1. r = Dead BY <1>4, <2>1, <2>4 DEF longer
    <3>2. Shaped(r) /\ r.phase = "dead" BY <3>1, DeadShaped
    <3> HIDE DEF r, v, m
    <3> QED BY <1>d, <2>2, <2>4, <3>2
  <2> QED BY <2>3, <2>4
<1>7. CASE c = At /\ m <= MaxTenantBytes
  <2>1. r = withSystem(longer(c, "system"), 0)
    <3>1. c = "@" /\ Len(scan.key) <= MaxTenantBytes BY <1>4, <1>7 DEF At
    <3>2. c \notin KeyCharacters BY <1>7, Characters
    <3> HIDE DEF m, n
    <3> QED BY <3>1, <3>2 DEF InKey, withSystem
  <2>2. c # Comma /\ c # Equals /\ c \notin KeyCharacters /\ c \notin Blanks BY <1>7, Characters
  <2>3. CASE m < MaxKeyBytes
    <3> DEFINE o == longer(c, "system")
    <3>1. o = withKey(scan, "system", key) BY <1>4, <2>3 DEF longer, withKey
    <3>2. Shaped(o) /\ o.phase = "system" /\ o.key = key /\ o.keys = scan.keys
      <4> HIDE DEF o, key
      <4> QED BY <3>1, KeyFields
    <3>3. Shaped(r) /\ r.phase = "system" /\ r.key = key /\ r.keys = scan.keys /\ r.system = 0
      <4> HIDE DEF o, r, key
      <4>1. r = withSystem(o, 0) BY <2>1 DEF o
      <4> QED BY <3>2, <4>1, SystemFields
    <3>4. Ledger(v, a, scan.keys, 0) BY <2>2, LedgerKept
    <3>5. WithinSystem(v, a, s, n + 1, key, 0) BY <1>2, <1>7, <2>3, SystemBegins
    <3> HIDE DEF v, r, key
    <3>6. Reading(v, a, r) BY <1>5, <3>3, <3>4, <3>5, Zenon DEF Reading
    <3> QED BY <1>1, <3>3, <3>6, GoesOn
  <2>4. CASE ~(m < MaxKeyBytes)
    <3>1. longer(c, "system") = Dead BY <1>4, <2>4 DEF longer
    <3>2. r = withSystem(Dead, 0) BY <2>1, <3>1
    <3>3. Shaped(r) /\ r.phase = "dead"
      <4> HIDE DEF r
      <4> QED BY <3>2, DeadShaped, SystemFields
    <3> HIDE DEF r, v, m
    <3> QED BY <1>d, <2>2, <2>4, <3>3
  <2> QED BY <2>3, <2>4
<1>8. CASE c = Equals /\ text[s] \in LowerCase
  <2>1. c \notin KeyCharacters /\ c # At BY <1>8, Characters
  <2>2. r = beginValue
    <3>1. c = "=" /\ c # "@" /\ scan.key[1] \in LowerCase BY <1>4, <1>8, <2>1 DEF Equals, At
    <3> QED BY <2>1, <3>1 DEF InKey
  <2>3. Named(v, a, s, n + 1) BY <1>2, <1>8, KeyEnds
  <2>4. text[s] \notin Blanks BY <1>3, Characters
  <2>5. \A i \in s..n : text[i] \in KeyCharacters \cup {At} BY <1>3
  <2>6. Scanned(Append(text, Equals), beginValue) BY <1>3, <1>8, <2>3, <2>4, <2>5, BeginStep
  <2>7. v = Append(text, Equals) BY <1>8
  <2> HIDE DEF v, r
  <2> QED BY <2>2, <2>6, <2>7
<1>9. CASE c \notin KeyCharacters /\ ~(c = At /\ m <= MaxTenantBytes) /\ ~(c = Equals /\ text[s] \in LowerCase)
  <2>1. r = Dead
    <3>1. ~(c = "@" /\ Len(scan.key) <= MaxTenantBytes) /\ ~(c = "=" /\ scan.key[1] \in LowerCase)
      BY <1>4, <1>9 DEF Equals, At
    <3> HIDE DEF m, n
    <3> QED BY <1>9, <3>1 DEF InKey
  <2>2. Shaped(r) /\ r.phase = "dead" BY <2>1, DeadShaped
  <2> HIDE DEF r, v, m
  <2> QED BY <1>d, <1>9, <2>2
<1> HIDE DEF v, r, m
<1> QED BY <1>6, <1>7, <1>8, <1>9

\* InSystem keeps the invariant.
LEMMA SystemStep ==
  ASSUME IsSequence(text), Shaped(scan), NEW a, Ledger(text, a, scan.keys, 0),
         NEW s \in 1..Len(text), NEW p \in 1..Len(text), WithinSystem(text, a, s, p, scan.key, scan.system), NEW c
  PROVE  Scanned(Append(text, c), InSystem(c))
<1> DEFINE v == Append(text, c)
           r == InSystem(c)
           n == Len(text)
           m == n - s + 1
           key == Append(scan.key, c)
           system == scan.system
           more == c \in (IF system = 0 THEN LowerCase ELSE KeyCharacters)
<1> SUFFICES Scanned(v, r) OBVIOUS
<1>1. IsSequence(v) /\ n \in Nat /\ Len(v) = n + 1 BY Appending
<1>2. Opened(text, a) /\ a \in Nat /\ a <= n BY LedgerParts
<1>3. /\ Led(text, a, s) /\ text[s] \in LowerCase \cup Digits /\ scan.key = SubSeq(text, s, n)
      /\ p \in (s + 1)..n /\ text[p] = At
      /\ \A i \in s..(p - 1) : text[i] \in KeyCharacters
      /\ \A i \in (p + 1)..n : text[i] \in KeyCharacters
  BY DEF WithinSystem
<1>4. Len(scan.key) = m BY <1>3, SliceRead
<1>5. s \in 1..Len(v) /\ p \in 1..Len(v) BY <1>1
<1>6. more => c \in KeyCharacters BY Characters
<1>d. ASSUME r.phase = "dead", Shaped(r), ~(more /\ system < MaxSystemBytes /\ m < MaxKeyBytes),
             ~(c = Equals /\ system > 0)
      PROVE  Scanned(v, r)
  <2>1. Doomed(v)
    <3> SUFFICES ASSUME NEW u, IsSequence(u), Extends(u, v) PROVE ~StateAt(u) BY DEF Doomed
    <3> QED BY <1>2, <1>d, NoSystemContinues
  <2> HIDE DEF v, r
  <2> QED BY <1>1, <1>d, <2>1, GoesDead
<1>7. CASE more /\ system < MaxSystemBytes
  <2> DEFINE o == longer(c, "system")
  <2>1. c # Comma /\ c # Equals /\ c \notin Blanks BY <1>6, <1>7, Characters
  <2>2. r = withSystem(o, o.system + 1)
    <3>1. c # "=" BY <2>1 DEF Equals
    <3> QED BY <1>7, <3>1 DEF InSystem, withSystem
  <2>3. CASE m < MaxKeyBytes
    <3>1. o = withKey(scan, "system", key) BY <1>4, <2>3 DEF longer, withKey
    <3>2. Shaped(o) /\ o.phase = "system" /\ o.key = key /\ o.keys = scan.keys /\ o.system = system
      <4> HIDE DEF o, key
      <4> QED BY <3>1, KeyFields
    <3>3. Shaped(r) /\ r.phase = "system" /\ r.key = key /\ r.keys = scan.keys /\ r.system = system + 1
      <4> HIDE DEF o, r, key, system
      <4> QED BY <2>2, <3>2, SystemFields
    <3>4. Ledger(v, a, scan.keys, 0) BY <2>1, LedgerKept
    <3>5. WithinSystem(v, a, s, p, key, system + 1) BY <1>2, <1>7, <2>3, SystemGrows
    <3> HIDE DEF v, r, key, system
    <3>6. Reading(v, a, r) BY <1>5, <3>3, <3>4, <3>5, Zenon DEF Reading
    <3> QED BY <1>1, <3>3, <3>6, GoesOn
  <2>4. CASE ~(m < MaxKeyBytes)
    <3>1. o = Dead BY <1>4, <2>4 DEF longer
    <3>2. Shaped(r) /\ r.phase = "dead"
      <4> HIDE DEF r, o
      <4> QED BY <2>2, <3>1, DeadShaped, SystemFields
    <3> HIDE DEF r, v, m, more, system
    <3> QED BY <1>d, <2>1, <2>4, <3>2
  <2> QED BY <2>3, <2>4
<1>8. CASE c = Equals /\ system > 0
  <2>1. c \notin KeyCharacters BY <1>8, Characters
  <2>2. r = beginValue
    <3>1. c = "=" BY <1>8 DEF Equals
    <3>2. ~more BY <1>6, <2>1
    <3> QED BY <1>8, <3>1, <3>2 DEF InSystem
  <2>3. Named(v, a, s, n + 1) BY <1>2, <1>8, SystemEnds
  <2>4. text[s] \notin Blanks BY <1>3, Characters
  <2>5. \A i \in s..n : text[i] \in KeyCharacters \cup {At}
    <3>1. \A i \in s..n : i = p \/ i \in s..(p - 1) \/ i \in (p + 1)..n BY <1>1
    <3> QED BY <1>3, <3>1
  <2>6. Scanned(Append(text, Equals), beginValue) BY <1>3, <1>8, <2>3, <2>4, <2>5, BeginStep
  <2>7. v = Append(text, Equals) BY <1>8
  <2> HIDE DEF v, r
  <2> QED BY <2>2, <2>6, <2>7
<1>9. CASE ~(more /\ system < MaxSystemBytes) /\ ~(c = Equals /\ system > 0)
  <2>1. r = Dead
    <3>1. ~(c = "=" /\ scan.system > 0) BY <1>9 DEF Equals
    <3> QED BY <1>9, <3>1 DEF InSystem
  <2>2. Shaped(r) /\ r.phase = "dead" BY <2>1, DeadShaped
  <2> HIDE DEF r, v, m, more, system
  <2> QED BY <1>d, <1>9, <2>2
<1> HIDE DEF v, r, more, system
<1> QED BY <1>7, <1>8, <1>9

\* A comma ends a member.
LEMMA CommaStep ==
  ASSUME IsSequence(text), Shaped(scan), NEW a, Ledger(text, a, scan.keys, 1), Len(text) > 0,
         WellFormed(Append(text, Comma), a, Len(text) + 1)
  PROVE  /\ Cardinality(scan.keys) < MaxMembers =>
              Scanned(Append(text, Comma), withPhase(scan, "start"))
         /\ ~(Cardinality(scan.keys) < MaxMembers) => Doomed(Append(text, Comma))
<1> DEFINE v == Append(text, Comma)
           r == withPhase(scan, "start")
           n == Len(text)
<1>1. IsSequence(v) /\ n \in Nat BY Appending
<1>2. ASSUME Cardinality(scan.keys) < MaxMembers PROVE Scanned(v, r)
  <2>1. Ledger(v, n + 1, scan.keys, 0) BY <1>2, LedgerClosed
  <2>2. BeforeKey(v, n + 1) BY MemberBegins
  <2>3. Shaped(r) /\ r.phase = "start" /\ r.keys = scan.keys BY PhaseFields
  <2> HIDE DEF v, r, n
  <2>4. Reading(v, n + 1, r) BY <2>1, <2>2, <2>3, Zenon DEF Reading
  <2> QED BY <1>1, <2>3, <2>4, GoesOn
<1>3. ASSUME ~(Cardinality(scan.keys) < MaxMembers) PROVE Doomed(v)
  <2> DEFINE m == Cardinality(commas(text))
  <2>1. Cardinality(scan.keys) = m + 1 /\ m \in Nat BY LedgerParts
  <2>2. m + 1 >= MaxMembers
    <3> HIDE DEF m
    <3> QED BY <1>3, <2>1, StateLengthAssumption
  <2> SUFFICES ASSUME NEW u, IsSequence(u), Extends(u, v) PROVE ~StateAt(u) BY DEF Doomed
  <2> QED BY <2>2, NoMemberMore
<1> QED BY <1>2, <1>3

\* InValue keeps the invariant.
LEMMA ValueStep ==
  ASSUME IsSequence(text), Shaped(scan), scan.phase = "value", NEW a, Ledger(text, a, scan.keys, 1),
         NEW s \in 1..Len(text), NEW q \in 1..Len(text), NEW e \in 1..Len(text),
         WithinValue(text, a, s, q, e, scan.value, scan.blanks), NEW c
  PROVE  Scanned(Append(text, c), InValue(c))
<1> DEFINE v == Append(text, c)
           r == InValue(c)
           n == Len(text)
           value == scan.value
           blanks == scan.blanks
           few == Cardinality(scan.keys) < MaxMembers
<1> SUFFICES Scanned(v, r) OBVIOUS
<1>1. IsSequence(v) /\ n \in Nat /\ Len(v) = n + 1 BY Appending
<1>2. Opened(text, a) /\ a \in Nat /\ a <= n BY LedgerParts
<1>3. s \in 1..Len(v) /\ q \in 1..Len(v) /\ e \in 1..Len(v) /\ n + 1 \in 1..Len(v) /\ n > 0 BY <1>1
<1>s. Comma = "," /\ Space = " " /\ Tab = "tab" BY DEF Comma, Space, Tab
<1>c. /\ Comma # Space /\ Comma # Tab /\ Space # Tab /\ Comma # Equals /\ Space # Equals /\ Tab # Equals
      /\ Comma \notin ValueCharacters /\ Tab \notin ValueCharacters
  BY Characters
<1>4. CASE c = Comma /\ value > 0
  <2>1. WellFormed(Append(text, Comma), a, n + 1)
    <3>1. /\ Named(text, a, s, q) /\ e \in q..n /\ value = e - q /\ value <= MaxValueBytes
          /\ e = q \/ text[e] # Space
          /\ \A i \in (q + 1)..e : text[i] \in ValueCharacters
          /\ \A i \in (e + 1)..n : text[i] = Space
      BY DEF WithinValue
    <3>2. e \in q..n /\ value = e - q /\ value <= MaxValueBytes /\ value > 0 BY <1>4, <3>1
    <3> HIDE DEF value
    <3>3. e \in (q + 1)..n /\ e # q /\ e - q <= MaxValueBytes BY <1>1, <3>2
    <3>4. \A i \in (e + 1)..n : text[i] \in Blanks BY <3>1, Characters
    <3> QED BY <1>2, <3>1, <3>3, <3>4, ValueEnds
  <2>2. few => Scanned(Append(text, Comma), withPhase(scan, "start")) BY <1>3, <2>1, CommaStep
  <2>3. ~few => Doomed(Append(text, Comma)) BY <1>3, <2>1, CommaStep
  <2>v. v = Append(text, Comma) BY <1>4
  <2>4. CASE few
    <3>1. r = withPhase(scan, "start") BY <1>4, <1>c, <1>s, <2>4 DEF InValue, withPhase
    <3> HIDE DEF v, r, few
    <3> QED BY <2>2, <2>4, <2>v, <3>1
  <2>5. CASE ~few
    <3>1. r = Dead BY <1>4, <1>c, <1>s, <2>5 DEF InValue
    <3>2. Shaped(r) /\ r.phase = "dead" BY <3>1, DeadShaped
    <3> HIDE DEF v, r, few
    <3> QED BY <1>1, <2>3, <2>5, <2>v, <3>2, GoesDead
  <2> QED BY <2>4, <2>5
<1>5. CASE c = Space
  <2>1. r = withBlanks(scan, blanks + 1) BY <1>5, <1>c, <1>s DEF InValue, withBlanks
  <2>2. Shaped(r) /\ r.phase = "value" /\ r.keys = scan.keys /\ r.value = value /\ r.blanks = blanks + 1
    <3> HIDE DEF r
    <3> QED BY <2>1, BlankFields
  <2>3. Ledger(v, a, scan.keys, 1) BY <1>3, <1>5, <1>c, LedgerKept
  <2>4. WithinValue(v, a, s, q, e, value, blanks + 1) BY <1>2, <1>5, ValueBlank
  <2> HIDE DEF v, r, value, blanks
  <2>5. Reading(v, a, r) BY <1>3, <2>2, <2>3, <2>4, Zenon DEF Reading
  <2> QED BY <1>1, <2>2, <2>5, GoesOn
<1>6. CASE c = Tab /\ value > 0
  <2>1. r = withPhase(scan, "tail") BY <1>6, <1>c, <1>s DEF InValue, withPhase
  <2>2. Shaped(r) /\ r.phase = "tail" /\ r.keys = scan.keys
    <3> HIDE DEF r
    <3> QED BY <2>1, PhaseFields
  <2>3. Ledger(v, a, scan.keys, 1) BY <1>3, <1>6, <1>c, LedgerKept
  <2>4. BehindValue(v, a, s, q, e) BY <1>2, <1>6, ValueTab
  <2> HIDE DEF v, r
  <2>5. Reading(v, a, r) BY <1>3, <2>2, <2>3, <2>4, Zenon DEF Reading
  <2> QED BY <1>1, <2>2, <2>5, GoesOn
<1>7. CASE c \in ValueCharacters \ {Space} /\ value + blanks < MaxValueBytes
  <2>1. r = withValue(scan, value + blanks + 1, 0) BY <1>7, <1>c, <1>s DEF InValue, withValue
  <2>2. Shaped(r) /\ r.phase = "value" /\ r.keys = scan.keys /\ r.value = value + blanks + 1 /\ r.blanks = 0
    <3> HIDE DEF r, value, blanks
    <3> QED BY <2>1, ValueFields
  <2>3. c # Comma /\ c # Equals BY <1>7, Characters
  <2>4. Ledger(v, a, scan.keys, 1) BY <1>3, <2>3, LedgerKept
  <2>5. WithinValue(v, a, s, q, n + 1, value + blanks + 1, 0) BY <1>2, <1>7, ValueGrows
  <2> HIDE DEF v, r, value, blanks
  <2>6. Reading(v, a, r) BY <1>3, <2>2, <2>4, <2>5, Zenon DEF Reading
  <2> QED BY <1>1, <2>2, <2>6, GoesOn
<1>8. CASE /\ ~(c = Comma /\ value > 0) /\ c # Space /\ ~(c = Tab /\ value > 0)
           /\ ~(c \in ValueCharacters \ {Space} /\ value + blanks < MaxValueBytes)
  <2>1. r = Dead BY <1>8, <1>s DEF InValue
  <2>2. Shaped(r) /\ r.phase = "dead" BY <2>1, DeadShaped
  <2>3. Doomed(v)
    <3> SUFFICES ASSUME NEW u, IsSequence(u), Extends(u, v) PROVE ~StateAt(u) BY DEF Doomed
    <3> QED BY <1>2, <1>8, NoValueContinues
  <2> HIDE DEF v, r
  <2> QED BY <1>1, <2>2, <2>3, GoesDead
<1> HIDE DEF v, r, value, blanks
<1> QED BY <1>4, <1>5, <1>6, <1>7, <1>8

\* InTail keeps the invariant.
LEMMA TailStep ==
  ASSUME IsSequence(text), Shaped(scan), scan.phase = "tail", NEW a, Ledger(text, a, scan.keys, 1),
         NEW s \in 1..Len(text), NEW q \in 1..Len(text), NEW e \in 1..Len(text),
         BehindValue(text, a, s, q, e), NEW c
  PROVE  Scanned(Append(text, c), InTail(c))
<1> DEFINE v == Append(text, c)
           r == InTail(c)
           n == Len(text)
           few == Cardinality(scan.keys) < MaxMembers
<1> SUFFICES Scanned(v, r) OBVIOUS
<1>1. IsSequence(v) /\ n \in Nat /\ Len(v) = n + 1 BY Appending
<1>2. Opened(text, a) /\ a \in Nat /\ a <= n BY LedgerParts
<1>3. s \in 1..Len(v) /\ q \in 1..Len(v) /\ e \in 1..Len(v) /\ n > 0 BY <1>1
<1>s. Comma = "," BY DEF Comma
<1>4. CASE c \in Blanks
  <2>1. c # Comma /\ c # Equals BY <1>4, Characters
  <2>2. r = scan BY <1>4, <1>s, <2>1 DEF InTail
  <2>3. Ledger(v, a, scan.keys, 1) BY <1>3, <2>1, LedgerKept
  <2>4. BehindValue(v, a, s, q, e) BY <1>2, <1>4, TailGrows
  <2> HIDE DEF v, r
  <2>5. Reading(v, a, r) BY <1>3, <2>2, <2>3, <2>4, Zenon DEF Reading
  <2> QED BY <1>1, <2>2, <2>5, GoesOn
<1>5. CASE c = Comma
  <2>1. WellFormed(Append(text, Comma), a, n + 1)
    <3>1. /\ Named(text, a, s, q) /\ e \in (q + 1)..n /\ e - q <= MaxValueBytes /\ text[e] # Space
          /\ \A i \in (q + 1)..e : text[i] \in ValueCharacters
          /\ \A i \in (e + 1)..n : text[i] \in Blanks
      BY DEF BehindValue
    <3> QED BY <1>2, <3>1, ValueEnds
  <2>2. few => Scanned(Append(text, Comma), withPhase(scan, "start")) BY <1>3, <2>1, CommaStep
  <2>3. ~few => Doomed(Append(text, Comma)) BY <1>3, <2>1, CommaStep
  <2>v. v = Append(text, Comma) /\ c \notin Blanks BY <1>5, Characters
  <2>4. CASE few
    <3>1. r = withPhase(scan, "start") BY <1>5, <1>s, <2>4, <2>v DEF InTail, withPhase
    <3> HIDE DEF v, r, few
    <3> QED BY <2>2, <2>4, <2>v, <3>1
  <2>5. CASE ~few
    <3>1. r = Dead BY <1>5, <1>s, <2>5, <2>v DEF InTail
    <3>2. Shaped(r) /\ r.phase = "dead" BY <3>1, DeadShaped
    <3> HIDE DEF v, r, few
    <3> QED BY <1>1, <2>3, <2>5, <2>v, <3>2, GoesDead
  <2> QED BY <2>4, <2>5
<1>6. CASE c \notin Blanks /\ c # Comma
  <2>1. r = Dead BY <1>6, <1>s DEF InTail
  <2>2. Shaped(r) /\ r.phase = "dead" BY <2>1, DeadShaped
  <2>3. Doomed(v)
    <3> SUFFICES ASSUME NEW u, IsSequence(u), Extends(u, v) PROVE ~StateAt(u) BY DEF Doomed
    <3> QED BY <1>2, <1>6, NothingBehindBlanks
  <2> HIDE DEF v, r
  <2> QED BY <1>1, <2>2, <2>3, GoesDead
<1> QED BY <1>4, <1>5, <1>6

\* What begins beyond repair stays beyond repair.
LEMMA DeadStep ==
  ASSUME IsSequence(text), Shaped(scan), Doomed(text), NEW c
  PROVE  Scanned(Append(text, c), Dead)
<1> DEFINE v == Append(text, c)
<1>1. IsSequence(v) BY Appending
<1>2. Doomed(v)
  <2> SUFFICES ASSUME NEW u, IsSequence(u), Extends(u, v) PROVE ~StateAt(u) BY DEF Doomed
  <2>1. Extends(u, text) BY Beyond
  <2> QED BY <2>1 DEF Doomed
<1>3. Shaped(Dead) /\ Dead.phase = "dead" BY DeadShaped
<1> HIDE DEF v
<1>4. Scanned(v, Dead) BY <1>1, <1>2, <1>3, GoesDead
<1> QED BY <1>4 DEF v

\* Every character read keeps the invariant.
LEMMA ScanStep ==
  ASSUME Scanned(text, scan), NEW c, Read(c)
  PROVE  Scanned(text', scan')
<1> DEFINE v == Append(text, c)
<1>1. /\ text' = v
      /\ scan.phase = "start"  => scan' = InStart(c)
      /\ scan.phase = "key"    => scan' = InKey(c)
      /\ scan.phase = "system" => scan' = InSystem(c)
      /\ scan.phase = "value"  => scan' = InValue(c)
      /\ scan.phase = "tail"   => scan' = InTail(c)
      /\ scan.phase = "dead"   => scan' = Dead
  BY DEF Read
<1>2. IsSequence(text) /\ Shaped(scan) BY Zenon DEF Scanned
<1>3. CASE scan.phase = "dead"
  <2>1. Doomed(text) BY <1>3, Zenon DEF Scanned
  <2>2. Scanned(v, Dead) BY <1>2, <2>1, DeadStep
  <2> HIDE DEF v
  <2> QED BY <1>1, <1>3, <2>2
<1>4. CASE scan.phase # "dead"
  <2>1. PICK a : Reading(text, a, scan) BY <1>4, Zenon DEF Scanned
  <2>2. CASE scan.phase = "start" /\ Ledger(text, a, scan.keys, 0) /\ BeforeKey(text, a)
    <3>1. Scanned(v, InStart(c)) BY <1>2, <2>2, StartStep
    <3> HIDE DEF v
    <3> QED BY <1>1, <2>2, <3>1
  <2>3. CASE /\ scan.phase = "key" /\ Ledger(text, a, scan.keys, 0)
             /\ \E s \in 1..Len(text) : WithinKey(text, a, s, scan.key)
    <3>1. Scanned(v, InKey(c)) BY <1>2, <2>3, KeyStep
    <3> HIDE DEF v
    <3> QED BY <1>1, <2>3, <3>1
  <2>4. CASE /\ scan.phase = "system" /\ Ledger(text, a, scan.keys, 0)
             /\ \E s, p \in 1..Len(text) : WithinSystem(text, a, s, p, scan.key, scan.system)
    <3>1. Scanned(v, InSystem(c)) BY <1>2, <2>4, SystemStep
    <3> HIDE DEF v
    <3> QED BY <1>1, <2>4, <3>1
  <2>5. CASE /\ scan.phase = "value" /\ Ledger(text, a, scan.keys, 1)
             /\ \E s, q, e \in 1..Len(text) : WithinValue(text, a, s, q, e, scan.value, scan.blanks)
    <3>1. Scanned(v, InValue(c)) BY <1>2, <2>5, ValueStep
    <3> HIDE DEF v
    <3> QED BY <1>1, <2>5, <3>1
  <2>6. CASE /\ scan.phase = "tail" /\ Ledger(text, a, scan.keys, 1)
             /\ \E s, q, e \in 1..Len(text) : BehindValue(text, a, s, q, e)
    <3>1. Scanned(v, InTail(c)) BY <1>2, <2>6, TailStep
    <3> HIDE DEF v
    <3> QED BY <1>1, <2>6, <3>1
  <2> QED BY <2>1, <2>2, <2>3, <2>4, <2>5, <2>6, Zenon DEF Reading
<1> QED BY <1>3, <1>4

\* The invariant holds of the empty text.
LEMMA ScanStart ==
  Scanned(<<>>, Start)
<1> DEFINE t == <<>>
<1>1. IsSequence(t) /\ Len(t) = 0 BY DEF IsSequence
<1>2. Shaped(Start) /\ Start.phase = "start" /\ Start.keys = {} BY DEF Shaped, Start
<1>3. commas(t) = {} /\ starts(t) = {0} BY DEF commas, starts
<1> HIDE DEF t
<1>4. 1..Len(t) = {} /\ 0 \in 0..Len(t) /\ \A i \in (0 + 1)..Len(t) : FALSE BY <1>1
<1>5. Opened(t, 0) BY <1>4 DEF Opened
<1>6. Closed(t)
  <2> SUFFICES ASSUME NEW x, NEW y, Member(t, x, y), y <= Len(t) PROVE FALSE BY DEF Closed
  <2>1. y \in 1..(Len(t) + 1) BY DEF Member
  <2> QED BY <1>1, <2>1
<1>7. \A x, k : ~HasKey(t, x, k) BY <1>4 DEF HasKey
<1>8. Distinct(t) /\ Listed(t, {}) BY <1>7 DEF Distinct, Listed
<1>9. IsFiniteSet({}) /\ Cardinality({}) = 0 BY FS_EmptySet
<1>10. Cardinality(commas(t)) < MaxMembers /\ Cardinality({}) = Cardinality(commas(t)) + 0
  BY <1>3, <1>9, StateLengthAssumption
<1>11. Len(t) > 0 => t[1] \notin Blanks BY <1>1
<1>12. Ledger(t, 0, {}, 0) BY <1>5, <1>6, <1>8, <1>9, <1>10, <1>11 DEF Ledger
<1>13. BeforeKey(t, 0) BY <1>4 DEF BeforeKey
<1>14. Reading(t, 0, Start) BY <1>2, <1>12, <1>13, Zenon DEF Reading
<1>15. Scanned(t, Start) BY <1>1, <1>2, <1>14, GoesOn
<1> QED BY <1>15 DEF t

-----------------------------------------------------------------------------
(* What the automaton accepts.                                              *)

\* The member being read is the last one.
LEMMA OpenedMember ==
  ASSUME NEW t, IsSequence(t), NEW a, Opened(t, a)
  PROVE  /\ Member(t, a, Len(t) + 1) /\ a \in Nat
         /\ \A x, y : Member(t, x, y) => y <= Len(t) \/ (x = a /\ y = Len(t) + 1)
<1> DEFINE n == Len(t)
<1>1. n \in Nat BY DEF IsSequence
<1>2. /\ a \in 0..n /\ (a = 0 \/ t[a] = Comma)
      /\ \A i \in (a + 1)..n : t[i] # Comma
  BY DEF Opened
<1> HIDE DEF n
<1>3. a \in Nat /\ n + 1 \in 1..(n + 1) /\ a < n + 1 /\ \A i \in (a + 1)..((n + 1) - 1) : i \in (a + 1)..n
  BY <1>1, <1>2
<1>4. Member(t, a, n + 1) BY <1>2, <1>3 DEF Member, n
<1>5. ASSUME NEW x, NEW y, Member(t, x, y), ~(y <= n) PROVE x = a /\ y = n + 1
  <2>1. /\ x \in 0..n /\ y \in 1..(n + 1) /\ x < y /\ (x = 0 \/ t[x] = Comma)
        /\ \A i \in (x + 1)..(y - 1) : t[i] # Comma
    BY <1>5 DEF Member, n
  <2>2. y = n + 1 /\ x \in Nat /\ x <= n BY <1>1, <1>5, <2>1
  <2>3. ~(x < a)
    <3> SUFFICES ASSUME x < a PROVE FALSE OBVIOUS
    <3>1. a # 0 /\ a \in (x + 1)..(y - 1) BY <1>1, <1>2, <2>2
    <3> QED BY <1>2, <2>1, <3>1
  <2>4. ~(a < x)
    <3> SUFFICES ASSUME a < x PROVE FALSE OBVIOUS
    <3>1. x # 0 /\ x \in (a + 1)..n BY <1>1, <1>3, <2>2
    <3> QED BY <1>2, <2>1, <3>1
  <2> QED BY <1>3, <2>2, <2>3, <2>4
<1> QED BY <1>3, <1>4, <1>5 DEF n

\* A tracestate ends with a whole member, whose key and value ended too.
LEMMA LastMember ==
  ASSUME NEW t, IsSequence(t), NEW a, Opened(t, a), StateAt(t)
  PROVE  \E s, q, e \in Nat : /\ Named(t, a, s, q) /\ q \in (a + 1)..Len(t) /\ t[q] = Equals
                              /\ e \in (q + 1)..Len(t) /\ t[e] # Space
<1> DEFINE n == Len(t)
<1>1. n \in Nat BY DEF IsSequence
<1>2. Member(t, a, n + 1) /\ a \in Nat BY OpenedMember
<1>3. WellFormed(t, a, n + 1) BY <1>2 DEF StateAt
<1>4. PICK s, q, e \in 1..n : Named(t, a, s, q) /\ Valued(t, q, e, n + 1) BY <1>3 DEF WellFormed
<1>5. a < s /\ s < q /\ t[q] = Equals BY <1>1, <1>2, <1>4, NamedParts
<1>6. q < e /\ t[e] # Space BY <1>4 DEF Valued
<1>o. q < e BY <1>6
<1> HIDE DEF n
<1>7. q \in (a + 1)..n /\ e \in (q + 1)..n /\ s \in Nat /\ q \in Nat /\ e \in Nat BY <1>1, <1>2, <1>4, <1>5, <1>o
<1> QED BY <1>4, <1>5, <1>6, <1>7 DEF n

\* A text whose last member has no equals sign is no tracestate.
LEMMA Unfinished ==
  ASSUME NEW t, IsSequence(t), NEW a, Opened(t, a), \A i \in (a + 1)..Len(t) : t[i] # Equals
  PROVE  ~StateAt(t)
BY LastMember

\* A text that ends within a value is a tracestate exactly if the value is not empty and ends it.
LEMMA Finished ==
  ASSUME NEW t, IsSequence(t), NEW a, NEW keys, Ledger(t, a, keys, 1), NEW s, NEW q, NEW e, NEW value, NEW blanks,
         WithinValue(t, a, s, q, e, value, blanks)
  PROVE  StateAt(t) <=> value > 0 /\ blanks = 0 /\ Len(t) <= MaxStateBytes
<1> DEFINE n == Len(t)
<1>1. /\ Opened(t, a) /\ Closed(t) /\ Distinct(t) /\ (n > 0 => t[1] \notin Blanks)
      /\ Cardinality(commas(t)) < MaxMembers /\ a \in Nat /\ n \in Nat
  BY LedgerParts
<1>2. /\ Named(t, a, s, q) /\ e \in q..n
      /\ e = q \/ t[e] # Space
      /\ \A i \in (q + 1)..e : t[i] \in ValueCharacters
      /\ \A i \in (e + 1)..n : t[i] = Space
  BY DEF WithinValue
<1>l. value = e - q /\ value <= MaxValueBytes /\ blanks = n - e BY DEF WithinValue
<1>3. q \in Nat /\ q >= 1 /\ q <= n
  <2>1. s \in Nat /\ q \in Nat /\ 1 <= s /\ s < q /\ q <= n BY <1>1, <1>2, NamedKept
  <2> QED BY <2>1
<1> HIDE DEF n
<1>n. n \in Nat BY <1>1
<1>s. e \in q..n /\ e \in Nat BY <1>2, <1>3, <1>n
<1>4. ASSUME StateAt(t) PROVE value > 0 /\ blanks = 0 /\ n <= MaxStateBytes
  <2>1. PICK x, y, f \in Nat : Named(t, a, x, y) /\ f \in (y + 1)..n /\ t[f] # Space
    BY <1>1, <1>4, LastMember DEF n
  <2>2. y = q BY <1>1, <1>2, <2>1, OneKey DEF n
  <2>3. ~(f \in (e + 1)..n) BY <1>2, <2>1
  <2>f. f \in Nat /\ f \in (q + 1)..n BY <2>1, <2>2
  <2>4. value > 0 BY <1>3, <1>l, <1>n, <1>s, <2>3, <2>f
  <2>5. t[n] \notin Blanks /\ n <= MaxStateBytes BY <1>4, <1>n, StateLengthAssumption DEF StateAt, n
  <2>6. ~(n \in (e + 1)..n) BY <1>2, <2>5, Characters
  <2>7. blanks = 0 BY <1>l, <1>n, <1>s, <2>6
  <2> QED BY <2>4, <2>5, <2>7
<1>5. ASSUME value > 0, blanks = 0, n <= MaxStateBytes PROVE StateAt(t)
  <2>1. e = n /\ e # q /\ e \in (q + 1)..n /\ e \in (q + 1)..e /\ n \in 1..MaxStateBytes /\ e - q <= MaxValueBytes /\ n > 0
    BY <1>3, <1>5, <1>l, <1>n, <1>s, StateLengthAssumption
  <2>2. t[n] \in ValueCharacters /\ t[n] # Space BY <1>2, <2>1
  <2>3. t[n] \notin Blanks BY <2>2, Characters
  <2>4. \A i \in (e + 1)..n : t[i] \in Blanks BY <1>2, Characters
  <2>e. t[e] # Space BY <2>1, <2>2
  <2>5. WellFormed(t, a, n + 1) BY <1>1, <1>2, <2>1, <2>4, <2>e, ValueEnds DEF n
  <2>6. \A x, y : Member(t, x, y) => y <= n \/ (x = a /\ y = n + 1) BY <1>1, OpenedMember DEF n
  <2>7. \A x, y : Member(t, x, y) => WellFormed(t, x, y)
    <3>1. \A x, y : Member(t, x, y) /\ y <= n => WellFormed(t, x, y) BY <1>1 DEF Closed, n
    <3> QED BY <2>5, <2>6, <3>1
  <2> QED BY <1>1, <2>1, <2>3, <2>7 DEF StateAt, n
<1> QED BY <1>4, <1>5 DEF n

\* The automaton accepts exactly the tracestates by positions.
LEMMA AutomatonAgrees ==
  ASSUME Scanned(text, scan)
  PROVE  StateAt(text) <=> TraceState
<1> DEFINE n == Len(text)
<1>1. IsSequence(text) /\ Shaped(scan) BY Zenon DEF Scanned
<1>n. n \in Nat BY <1>1 DEF IsSequence
<1>2. CASE scan.phase = "dead"
  <2>1. Doomed(text) BY <1>2, Zenon DEF Scanned
  <2>2. Extends(text, text) BY <1>n DEF Extends
  <2>3. ~StateAt(text) BY <1>1, <2>1, <2>2 DEF Doomed
  <2>4. ~TraceState BY <1>2 DEF TraceState
  <2> QED BY <2>3, <2>4
<1>3. CASE scan.phase # "dead"
  <2>1. PICK a : Reading(text, a, scan) BY <1>3, Zenon DEF Scanned
  <2>2. ASSUME scan.phase # "value", Ledger(text, a, scan.keys, 0), \A i \in (a + 1)..n : text[i] # Equals
        PROVE  StateAt(text) <=> TraceState
    <3>1. Opened(text, a) BY <1>1, <2>2, LedgerParts
    <3>2. ~StateAt(text) BY <1>1, <2>2, <3>1, Unfinished
    <3>3. ~TraceState BY <2>2 DEF TraceState
    <3> QED BY <3>2, <3>3
  <2>c. \A i : text[i] \in Blanks \cup KeyCharacters \cup {At} => text[i] # Equals BY Characters
  <2>3. CASE scan.phase = "start" /\ Ledger(text, a, scan.keys, 0) /\ BeforeKey(text, a)
    <3>1. \A i \in (a + 1)..n : text[i] # Equals BY <2>3, <2>c DEF BeforeKey
    <3>2. scan.phase # "value" BY <2>3
    <3> QED BY <2>2, <2>3, <3>1, <3>2
  <2>4. CASE /\ scan.phase = "key" /\ Ledger(text, a, scan.keys, 0)
             /\ \E s \in 1..Len(text) : WithinKey(text, a, s, scan.key)
    <3>1. PICK s \in 1..n : WithinKey(text, a, s, scan.key) BY <2>4
    <3>2. /\ \A i \in (a + 1)..(s - 1) : text[i] \in Blanks
          /\ \A i \in s..n : text[i] \in KeyCharacters
      BY <3>1 DEF WithinKey, Led
    <3>a. a \in Nat BY <1>1, <2>4, LedgerParts
    <3>3. \A i \in (a + 1)..n : i \in (a + 1)..(s - 1) \/ i \in s..n BY <1>n, <3>1, <3>a
    <3>4. \A i \in (a + 1)..n : text[i] # Equals BY <2>c, <3>2, <3>3
    <3>5. scan.phase # "value" BY <2>4
    <3> QED BY <2>2, <2>4, <3>4, <3>5
  <2>5. CASE /\ scan.phase = "system" /\ Ledger(text, a, scan.keys, 0)
             /\ \E s, p \in 1..Len(text) : WithinSystem(text, a, s, p, scan.key, scan.system)
    <3>1. PICK s, p \in 1..n : WithinSystem(text, a, s, p, scan.key, scan.system) BY <2>5
    <3>2. /\ \A i \in (a + 1)..(s - 1) : text[i] \in Blanks
          /\ \A i \in s..(p - 1) : text[i] \in KeyCharacters
          /\ text[p] = At /\ \A i \in (p + 1)..n : text[i] \in KeyCharacters
      BY <3>1 DEF WithinSystem, Led
    <3>a. a \in Nat BY <1>1, <2>5, LedgerParts
    <3>3. \A i \in (a + 1)..n : i \in (a + 1)..(s - 1) \/ i \in s..(p - 1) \/ i = p \/ i \in (p + 1)..n
      BY <1>n, <3>1, <3>a
    <3>4. \A i \in (a + 1)..n : text[i] # Equals BY <2>c, <3>2, <3>3
    <3>5. scan.phase # "value" BY <2>5
    <3> QED BY <2>2, <2>5, <3>4, <3>5
  <2>6. CASE /\ scan.phase = "value" /\ Ledger(text, a, scan.keys, 1)
             /\ \E s, q, e \in 1..Len(text) : WithinValue(text, a, s, q, e, scan.value, scan.blanks)
    <3>1. StateAt(text) <=> scan.value > 0 /\ scan.blanks = 0 /\ Len(text) <= MaxStateBytes
      BY <1>1, <2>6, Finished
    <3> QED BY <2>6, <3>1 DEF TraceState
  <2>7. CASE /\ scan.phase = "tail" /\ Ledger(text, a, scan.keys, 1)
             /\ \E s, q, e \in 1..Len(text) : BehindValue(text, a, s, q, e)
    <3>1. PICK s, q, e \in 1..n : BehindValue(text, a, s, q, e) BY <2>7
    <3>2. (\A i \in (e + 1)..n : text[i] \in Blanks) /\ \E i \in (e + 1)..n : text[i] = Tab
      BY <3>1 DEF BehindValue
    <3>3. \A i \in (e + 1)..n : n \in (e + 1)..n BY <1>n, <3>1
    <3>4. text[n] \in Blanks BY <3>2, <3>3
    <3>5. ~StateAt(text) BY <3>4 DEF StateAt
    <3>6. ~TraceState BY <2>7 DEF TraceState
    <3> QED BY <3>5, <3>6
  <2> QED BY <2>1, <2>3, <2>4, <2>5, <2>6, <2>7, Zenon DEF Reading
<1> QED BY <1>2, <1>3
-----------------------------------------------------------------------------
(* package strings, by positions.                                           *)

\* A slice of a slice is a slice.
LEMMA SliceOfSlice ==
  ASSUME NEW t, IsSequence(t), NEW m \in Nat, NEW n \in Nat, m >= 1, m <= n + 1, n <= Len(t),
         NEW lo \in Nat, NEW hi \in Nat, m <= lo, lo <= hi + 1, hi <= n
  PROVE  SubSeq(SubSeq(t, m, n), lo - m + 1, hi - m + 1) = SubSeq(t, lo, hi)
<1> DEFINE x == SubSeq(t, m, n)
           i == lo - m + 1
           j == hi - m + 1
           y == SubSeq(x, i, j)
           z == SubSeq(t, lo, hi)
           k == hi - lo + 1
<1>t. Len(t) \in Nat BY DEF IsSequence
<1>1. IsSequence(x) /\ Len(x) = n - m + 1 /\ \A l \in 1..(n - m + 1) : x[l] = t[m + l - 1] BY SliceOf
<1>2. i \in Nat /\ j \in Nat /\ i >= 1 /\ i <= j + 1 /\ j <= n - m + 1 /\ j - i + 1 = k OBVIOUS
<1>3. lo >= 1 /\ hi <= Len(t) BY <1>t
<1>4. IsSequence(z) /\ Len(z) = k /\ \A l \in 1..k : z[l] = t[lo + l - 1] BY <1>3, SliceOf
<1>i. i = lo - m + 1 /\ k = hi - lo + 1 /\ k \in Int OBVIOUS
<1> HIDE DEF x, i, j, z, k
<1>5. IsSequence(y) /\ Len(y) = k /\ \A l \in 1..k : y[l] = x[i + l - 1]
  <2>1. j <= Len(x) BY <1>1, <1>2
  <2>2. /\ IsSequence(y) /\ Len(y) = j - i + 1
        /\ \A l \in 1..(j - i + 1) : y[l] = x[i + l - 1]
    BY <1>1, <1>2, <2>1, SliceOf
  <2> HIDE DEF y
  <2> QED BY <1>2, <2>2
<1> HIDE DEF y
<1>6. ASSUME NEW l \in 1..k PROVE y[l] = z[l]
  <2>1. i + l - 1 \in 1..(n - m + 1) /\ m + (i + l - 1) - 1 = lo + l - 1 BY <1>i
  <2> DEFINE p == i + l - 1
  <2>2. y[l] = x[p] /\ p \in 1..(n - m + 1) BY <1>5, <2>1
  <2>3. m + p - 1 = lo + l - 1 BY <2>1
  <2> HIDE DEF p
  <2>4. x[p] = t[m + p - 1] BY <1>1, <2>2
  <2>5. x[p] = t[lo + l - 1] BY <2>3, <2>4
  <2> QED BY <1>4, <2>2, <2>5
<1>7. y = z BY <1>4, <1>5, <1>6, SameSequence
<1> QED BY <1>7 DEF x, y, z, i, j

\* When a slice is empty.
LEMMA EmptySlice ==
  ASSUME NEW t, IsSequence(t), NEW m \in Nat, NEW n \in Nat, m >= 1, m <= n + 1, n <= Len(t)
  PROVE  SubSeq(t, m, n) = <<>> <=> m = n + 1
<1>1. IsSequence(SubSeq(t, m, n)) /\ Len(SubSeq(t, m, n)) = n - m + 1 BY SliceOf
<1> DEFINE x == SubSeq(t, m, n)
<1>2. IsSequence(x) /\ Len(x) = n - m + 1 BY <1>1
<1> HIDE DEF x
<1>3. x = <<>> <=> Len(x) = 0 BY <1>2 DEF IsSequence
<1>4. n - m + 1 = 0 <=> m = n + 1 OBVIOUS
<1>5. x = <<>> <=> m = n + 1 BY <1>2, <1>3, <1>4
<1> QED BY <1>5 DEF x

\* What a slice consists of.
LEMMA SetOfSlice ==
  ASSUME NEW t, IsSequence(t), NEW m \in Nat, NEW n \in Nat, m >= 1, m <= n + 1, n <= Len(t), NEW S
  PROVE  ToSet(SubSeq(t, m, n)) \subseteq S <=> \A i \in m..n : t[i] \in S
<1> DEFINE x == SubSeq(t, m, n)
           k == n - m + 1
<1>1. DOMAIN x = 1..k /\ \A i \in 1..k : x[i] = t[m + i - 1] BY SliceOf
<1>2. /\ \A i \in 1..k : m + i - 1 \in m..n
      /\ \A i \in m..n : i - m + 1 \in 1..k /\ m + (i - m + 1) - 1 = i
  OBVIOUS
<1> HIDE DEF x, k
<1>3. ToSet(x) = {x[i] : i \in 1..k} BY <1>1 DEF ToSet
<1>4. ASSUME ToSet(x) \subseteq S, NEW i \in m..n PROVE t[i] \in S
  <2> DEFINE j == i - m + 1
  <2>1. j \in 1..k /\ m + j - 1 = i BY <1>2
  <2> HIDE DEF j
  <2>2. x[j] = t[i] BY <1>1, <2>1
  <2>3. x[j] \in ToSet(x) BY <1>3, <2>1
  <2> QED BY <1>4, <2>2, <2>3
<1>5. ASSUME \A i \in m..n : t[i] \in S PROVE ToSet(x) \subseteq S
  BY <1>1, <1>2, <1>3, <1>5
<1> QED BY <1>4, <1>5 DEF x

\* What a slice contains.
LEMMA InSlice ==
  ASSUME NEW t, IsSequence(t), NEW m \in Nat, NEW n \in Nat, m >= 1, m <= n + 1, n <= Len(t), NEW z
  PROVE  Contains(SubSeq(t, m, n), z) <=> \E i \in m..n : t[i] = z
<1> DEFINE x == SubSeq(t, m, n)
           k == n - m + 1
<1>1. Len(x) = k /\ DOMAIN x = 1..k /\ \A i \in 1..k : x[i] = t[m + i - 1] BY SliceOf
<1>2. /\ \A i \in 1..k : m + i - 1 \in m..n
      /\ \A i \in m..n : i - m + 1 \in 1..k /\ m + (i - m + 1) - 1 = i
  OBVIOUS
<1> HIDE DEF x, k
<1>3. Contains(x, z) <=> \E i \in 1..k : x[i] = z BY <1>1 DEF Contains
<1>4. ASSUME NEW i \in m..n, t[i] = z PROVE Contains(x, z)
  <2> DEFINE j == i - m + 1
  <2>1. j \in 1..k /\ m + j - 1 = i BY <1>2
  <2> HIDE DEF j
  <2>2. x[j] = z BY <1>1, <1>4, <2>1
  <2> QED BY <1>3, <2>1, <2>2
<1>5. ASSUME Contains(x, z) PROVE \E i \in m..n : t[i] = z
  <2>1. PICK i \in 1..k : x[i] = z BY <1>3, <1>5
  <2>2. m + i - 1 \in m..n /\ t[m + i - 1] = z BY <1>1, <1>2, <2>1
  <2> QED BY <2>2
<1> QED BY <1>4, <1>5 DEF x

\* Cutting at the first separator.
LEMMA CutFirst ==
  ASSUME NEW x, IsSequence(x), NEW z, NEW q \in 1..Len(x), x[q] = z, \A i \in 1..(q - 1) : x[i] # z
  PROVE  Before(x, z) = SubSeq(x, 1, q - 1) /\ After(x, z) = SubSeq(x, q + 1, Len(x))
<1> DEFINE parts == Split(x, z)
<1>1. PICK N, c : Cutting(x, z, parts, N, c) BY SplitCuts
<1> HIDE DEF parts
<1>n. Len(x) \in Nat BY DEF IsSequence
<1>2. N \in Nat /\ N >= 1 /\ c[0] = 0 /\ parts = [n \in 1..N |-> SubSeq(x, c[n - 1] + 1, c[n] - 1)]
  BY <1>1 DEF Cutting
<1>3. 0 \in 0..N /\ 1 \in 1..N /\ 1 - 1 = 0 /\ 0 + 1 = 1 BY <1>2
<1>4. c[1] = q
  <2>1. q \in 1..(Len(x) + 1) /\ c[0] < q /\ \A i \in (c[0] + 1)..(q - 1) : i \in 1..(q - 1) BY <1>2, <1>n
  <2>2. \A i \in (c[0] + 1)..(q - 1) : x[i] # z BY <2>1
  <2>3. c[0 + 1] = q BY <1>1, <1>3, <2>1, <2>2, NextCut
  <2> QED BY <1>3, <2>3
<1>5. parts[1] = SubSeq(x, c[1 - 1] + 1, c[1] - 1) BY <1>2, <1>3
<1>6. parts[1] = SubSeq(x, 1, q - 1) BY <1>2, <1>3, <1>4, <1>5
<1>7. Before(x, z) = SubSeq(x, 1, q - 1) BY <1>6 DEF Before, parts
<1>8. Len(Before(x, z)) + 2 = q + 1
  <2>1. 1 <= (q - 1) + 1 /\ q - 1 \in Nat /\ q - 1 <= Len(x) BY <1>n
  <2>2. Len(SubSeq(x, 1, q - 1)) = (q - 1) - 1 + 1 BY <2>1, SliceOf
  <2>3. Len(Before(x, z)) = (q - 1) - 1 + 1 BY <1>7, <2>2
  <2> QED BY <2>1, <2>3
<1>9. After(x, z) = SubSeq(x, q + 1, Len(x)) BY <1>8 DEF After
<1> QED BY <1>7, <1>9

\* The first z of a slice is at q.
First(t, lo, hi, z, q) == q \in lo..hi /\ t[q] = z /\ \A i \in lo..(q - 1) : t[i] # z

\* What lies before and behind the z at q.
Divided(t, lo, hi, z, q) ==
  /\ Contains(SubSeq(t, lo, hi), z)
  /\ Before(SubSeq(t, lo, hi), z) = SubSeq(t, lo, q - 1)
  /\ After(SubSeq(t, lo, hi), z) = SubSeq(t, q + 1, hi)

\* Before and After cut a slice at its first separator.
LEMMA CutSlice ==
  ASSUME NEW t, IsSequence(t), NEW lo \in Nat, NEW hi \in Nat, lo >= 1, hi <= Len(t), NEW z, NEW q,
         First(t, lo, hi, z, q)
  PROVE  Divided(t, lo, hi, z, q)
<1> DEFINE x == SubSeq(t, lo, hi)
           k == hi - lo + 1
           p == q - lo + 1
<1>t. Len(t) \in Nat BY DEF IsSequence
<1>f. q \in lo..hi /\ t[q] = z /\ \A i \in lo..(q - 1) : t[i] # z BY DEF First
<1>o. q \in lo..hi /\ lo <= hi + 1 /\ lo <= hi BY <1>f
<1>1. IsSequence(x) /\ Len(x) = k /\ \A i \in 1..k : x[i] = t[lo + i - 1] BY <1>o, SliceOf
<1>2. Contains(x, z)
  <2>1. \E i \in lo..hi : t[i] = z BY <1>f
  <2> QED BY <1>o, <2>1, InSlice
<1>3. /\ p \in 1..k /\ lo + p - 1 = q /\ p - 1 = (q - 1) - lo + 1 /\ 1 = lo - lo + 1
      /\ p + 1 = (q + 1) - lo + 1 /\ k = hi - lo + 1 /\ q \in Nat /\ q + 1 \in Nat /\ q - 1 \in Nat
      /\ \A i \in 1..(p - 1) : i \in 1..k /\ lo + i - 1 \in lo..(q - 1)
  BY <1>o
<1>4. lo <= (q - 1) + 1 /\ q - 1 <= hi /\ lo <= q + 1 /\ q + 1 <= hi + 1 BY <1>o
<1>a. SubSeq(x, 1, p - 1) = SubSeq(t, lo, q - 1)
  <2>1. SubSeq(SubSeq(t, lo, hi), lo - lo + 1, (q - 1) - lo + 1) = SubSeq(t, lo, q - 1)
    BY <1>3, <1>4, <1>o, SliceOfSlice
  <2> QED BY <1>3, <2>1
<1>b. SubSeq(x, p + 1, k) = SubSeq(t, q + 1, hi)
  <2>1. SubSeq(SubSeq(t, lo, hi), (q + 1) - lo + 1, hi - lo + 1) = SubSeq(t, q + 1, hi)
    BY <1>3, <1>4, <1>o, SliceOfSlice
  <2> QED BY <1>3, <2>1
<1> HIDE DEF x, k, p
<1>5. x[p] = z BY <1>1, <1>3, <1>f
<1>6. \A i \in 1..(p - 1) : x[i] # z BY <1>1, <1>3, <1>f
<1>7. Before(x, z) = SubSeq(x, 1, p - 1) /\ After(x, z) = SubSeq(x, p + 1, Len(x))
  BY <1>1, <1>3, <1>5, <1>6, CutFirst
<1> QED BY <1>1, <1>2, <1>7, <1>a, <1>b DEF x, Divided

\* The greatest of some indices is one of them (Max is FiniteSetsExt's).
LEMMA MaxOfBounded ==
  ASSUME NEW L \in Nat, NEW S, S \subseteq 0..L, S # {}
  PROVE  Max(S) \in S /\ \A y \in S : y <= Max(S)
<1> DEFINE R == {L - y : y \in S}
<1>0. \A y \in S : y \in Nat /\ L - y \in Nat OBVIOUS
<1>e. PICK w \in S : TRUE OBVIOUS
<1>1. R \subseteq Nat /\ L - w \in R BY <1>0
<1>2. Min(R) \in R /\ \A r \in R : Min(R) <= r
  <2> HIDE DEF R
  <2> QED BY <1>1, MinOfNaturals
<1>3. PICK x \in S : Min(R) = L - x BY <1>2
<1>4. ASSUME NEW y \in S PROVE x >= y
  <2>1. L - y \in R OBVIOUS
  <2>2. L - x <= L - y BY <1>2, <1>3, <2>1
  <2>3. x \in Nat /\ y \in Nat OBVIOUS
  <2> QED BY <2>2, <2>3
<1>5. Max(S) = CHOOSE z \in S : \A y \in S : z >= y BY DEF Max
<1>6. Max(S) \in S /\ \A y \in S : Max(S) >= y BY <1>4, <1>5
<1>7. \A y \in S : y \in Nat OBVIOUS
<1>8. \A y \in S : y <= Max(S) BY <1>6, <1>7
<1> QED BY <1>6, <1>8

\* What occurs in a stretch has a first occurrence.
LEMMA FirstIn ==
  ASSUME NEW t, NEW lo \in Nat, NEW hi \in Nat, NEW z, \E p \in lo..hi : t[p] = z
  PROVE  \E q : First(t, lo, hi, z, q)
<1>p. PICK p \in lo..hi : t[p] = z OBVIOUS
<1> DEFINE S == {i \in lo..hi : t[i] = z}
           q == Min(S)
<1>1. S \subseteq Nat /\ p \in S BY <1>p
<1>2. q \in S /\ \A y \in S : q <= y
  <2> HIDE DEF S
  <2> QED BY <1>1, MinOfNaturals
<1>3. q \in lo..hi /\ t[q] = z BY <1>2
<1>4. \A i \in lo..hi : t[i] = z => q <= i BY <1>2
<1> HIDE DEF q, S
<1>5. \A i \in lo..(q - 1) : i \in lo..hi /\ ~(q <= i) BY <1>3
<1>6. \A i \in lo..(q - 1) : t[i] # z BY <1>4, <1>5
<1> QED BY <1>3, <1>6 DEF First

\* What is left between the blanks of a slice.
Trimmed(t, m, n, lo, hi) ==
  /\ lo \in m..n /\ hi \in lo..n /\ t[lo] \notin Blanks /\ t[hi] \notin Blanks
  /\ \A i \in m..(lo - 1) : t[i] \in Blanks
  /\ \A i \in (hi + 1)..n : t[i] \in Blanks

\* What is not blank throughout has a first and a last character that is no blank.
LEMMA BlankEnds ==
  ASSUME NEW t, NEW m \in Nat, NEW n \in Nat, ~\A i \in m..n : t[i] \in Blanks
  PROVE  \E lo, hi \in Nat : Trimmed(t, m, n, lo, hi)
<1> DEFINE S == {i \in m..n : t[i] \notin Blanks}
           lo == Min(S)
           hi == Max(S)
<1>1. S \subseteq Nat /\ S \subseteq 0..n /\ S # {} OBVIOUS
<1>2. (lo \in S /\ \A y \in S : lo <= y) /\ (hi \in S /\ \A y \in S : y <= hi)
  <2> HIDE DEF S
  <2> QED BY <1>1, MinOfNaturals, MaxOfBounded
<1>3. lo \in m..n /\ t[lo] \notin Blanks /\ hi \in m..n /\ t[hi] \notin Blanks BY <1>2
<1>4. \A i \in m..n : t[i] \in Blanks \/ (lo <= i /\ i <= hi) BY <1>2
<1>5. lo <= hi BY <1>2
<1> HIDE DEF S, lo, hi
<1>6. /\ hi \in lo..n /\ lo \in Nat /\ hi \in Nat
      /\ \A i \in m..(lo - 1) : i \in m..n /\ ~(lo <= i)
      /\ \A i \in (hi + 1)..n : i \in m..n /\ ~(i <= hi)
  BY <1>3, <1>5
<1>7. (\A i \in m..(lo - 1) : t[i] \in Blanks) /\ (\A i \in (hi + 1)..n : t[i] \in Blanks)
  BY <1>4, <1>6
<1>8. Trimmed(t, m, n, lo, hi) BY <1>3, <1>6, <1>7 DEF Trimmed
<1> QED BY <1>6, <1>8

\* Nothing is left of blanks.
LEMMA TrimBlank ==
  ASSUME NEW t, IsSequence(t), NEW m \in Nat, NEW n \in Nat, m >= 1, m <= n + 1, n <= Len(t),
         \A i \in m..n : t[i] \in Blanks
  PROVE  Trim(SubSeq(t, m, n)) = <<>>
<1> DEFINE x == SubSeq(t, m, n)
           k == n - m + 1
<1>1. DOMAIN x = 1..k /\ \A i \in 1..k : x[i] = t[m + i - 1] BY SliceOf
<1>2. \A i \in 1..k : m + i - 1 \in m..n OBVIOUS
<1> HIDE DEF x, k
<1>3. {i \in DOMAIN x : x[i] \notin Blanks} = {} BY <1>1, <1>2
<1>4. Trim(x) = <<>> BY <1>3 DEF Trim
<1> QED BY <1>4 DEF x

\* Trim keeps what lies between the blanks.
LEMMA TrimSlice ==
  ASSUME NEW t, IsSequence(t), NEW m \in Nat, NEW n \in Nat, m >= 1, m <= n + 1, n <= Len(t),
         NEW lo, NEW hi, Trimmed(t, m, n, lo, hi)
  PROVE  Trim(SubSeq(t, m, n)) = SubSeq(t, lo, hi)
<1> DEFINE x == SubSeq(t, m, n)
           k == n - m + 1
           u == lo - m + 1
           v == hi - m + 1
           S == {i \in DOMAIN x : x[i] \notin Blanks}
<1>0. /\ lo \in m..n /\ hi \in lo..n /\ t[lo] \notin Blanks /\ t[hi] \notin Blanks
      /\ \A i \in m..(lo - 1) : t[i] \in Blanks
      /\ \A i \in (hi + 1)..n : t[i] \in Blanks
  BY DEF Trimmed
<1>o. lo \in m..n /\ hi \in lo..n BY <1>0
<1>1. DOMAIN x = 1..k /\ \A i \in 1..k : x[i] = t[m + i - 1] BY SliceOf
<1>2. /\ u \in 1..k /\ v \in 1..k /\ m + u - 1 = lo /\ m + v - 1 = hi /\ k \in Nat
      /\ lo \in Nat /\ hi \in Nat /\ m <= lo /\ lo <= hi + 1 /\ hi <= n
      /\ \A i \in 1..k : m + i - 1 \in m..(lo - 1) \/ m + i - 1 \in (hi + 1)..n \/ (u <= i /\ i <= v)
  BY <1>o
<1>s. SubSeq(x, u, v) = SubSeq(t, lo, hi) BY <1>2, SliceOfSlice
<1> HIDE DEF x, k, u, v
<1>3. u \in S /\ v \in S BY <1>0, <1>1, <1>2
<1>4. \A i \in S : u <= i /\ i <= v BY <1>0, <1>1, <1>2
<1>5. S \subseteq 0..k /\ S \subseteq Nat BY <1>1, <1>2
<1>6. Trim(x) = SubSeq(x, Min(S), Max(S)) BY <1>3 DEF Trim
<1> HIDE DEF S
<1>7. Min(S) \in S /\ (\A y \in S : Min(S) <= y) /\ Max(S) \in S /\ \A y \in S : y <= Max(S)
  BY <1>2, <1>3, <1>5, MinOfNaturals, MaxOfBounded
<1>8. Min(S) <= u /\ u <= Min(S) /\ Max(S) <= v /\ v <= Max(S) BY <1>3, <1>4, <1>7
<1>9. Min(S) \in Nat /\ Max(S) \in Nat /\ u \in Nat /\ v \in Nat BY <1>3, <1>5, <1>7
<1>10. Min(S) = u /\ Max(S) = v BY <1>8, <1>9
<1> QED BY <1>6, <1>10, <1>s DEF x

-----------------------------------------------------------------------------
(* The members of a tracestate.                                             *)

\* validTraceStateValue, said of the text the value is cut from.
LEMMA ValueByPositions ==
  ASSUME NEW t, IsSequence(t), NEW q \in Nat, NEW e \in Nat, q <= e, e <= Len(t)
  PROVE  validTraceStateValue(SubSeq(t, q + 1, e)) <=>
           /\ q < e /\ e - q <= MaxValueBytes /\ t[e] # Space
           /\ \A i \in (q + 1)..e : t[i] \in ValueCharacters
<1> DEFINE x == SubSeq(t, q + 1, e)
<1>t. Len(t) \in Nat BY DEF IsSequence
<1>1. q + 1 \in Nat /\ q + 1 >= 1 /\ q + 1 <= e + 1 /\ e - (q + 1) + 1 = e - q OBVIOUS
<1>2. Len(x) = e - (q + 1) + 1 /\ \A i \in 1..(e - (q + 1) + 1) : x[i] = t[(q + 1) + i - 1]
  BY <1>1, SliceOf
<1>3. x = <<>> <=> q + 1 = e + 1 BY <1>1, EmptySlice
<1>4. ToSet(x) \subseteq ValueCharacters <=> \A i \in (q + 1)..e : t[i] \in ValueCharacters
  BY <1>1, SetOfSlice
<1> HIDE DEF x
<1>5. Len(x) = e - q BY <1>1, <1>2
<1>6. ASSUME q < e PROVE Last(x) = t[e]
  <2>1. e - q \in 1..(e - (q + 1) + 1) /\ (q + 1) + (e - q) - 1 = e BY <1>6
  <2> DEFINE l == e - q
  <2>2. l \in 1..(e - (q + 1) + 1) /\ (q + 1) + l - 1 = e /\ Len(x) = l BY <1>5, <2>1
  <2> HIDE DEF l
  <2>3. x[l] = t[(q + 1) + l - 1] BY <1>2, <2>2
  <2> QED BY <2>2, <2>3 DEF Last
<1>7. x # <<>> <=> q < e BY <1>3
<1>8. validTraceStateValue(x) <=>
        x # <<>> /\ Len(x) <= MaxValueBytes /\ Last(x) # Space /\ ToSet(x) \subseteq ValueCharacters
  BY DEF validTraceStateValue, Space
<1>9. validTraceStateValue(x) <=> /\ q < e /\ e - q <= MaxValueBytes /\ t[e] # Space
                                  /\ \A i \in (q + 1)..e : t[i] \in ValueCharacters
  BY <1>4, <1>5, <1>6, <1>7, <1>8
<1> QED BY <1>9 DEF x

\* validTraceStateKey, said of the text the key is cut from.
LEMMA KeyByPositions ==
  ASSUME NEW t, IsSequence(t), NEW s \in Nat, NEW q \in Nat, s >= 1, s <= q, q <= Len(t) + 1
  PROVE  validTraceStateKey(SubSeq(t, s, q - 1)) <=> KeyFrom(t, s, q)
<1> DEFINE x == SubSeq(t, s, q - 1)
           tenant == Before(x, At)
           system == After(x, At)
<1>t. Len(t) \in Nat BY DEF IsSequence
<1>1. q - 1 \in Nat /\ s <= (q - 1) + 1 /\ q - 1 <= Len(t) /\ (q - 1) - s + 1 = q - s BY <1>t
<1>2. Len(x) = (q - 1) - s + 1 /\ \A i \in 1..((q - 1) - s + 1) : x[i] = t[s + i - 1]
  BY <1>1, SliceOf
<1>3. x = <<>> <=> s = (q - 1) + 1 BY <1>1, EmptySlice
<1>4. validTraceStateKeyPart(x) <=> \A i \in s..(q - 1) : t[i] \in KeyCharacters
  BY <1>1, SetOfSlice DEF validTraceStateKeyPart
<1>5. Contains(x, At) <=> \E i \in s..(q - 1) : t[i] = At BY <1>1, InSlice
<1>6. validTraceStateKey(x) <=>
        /\ x # <<>> /\ Len(x) <= MaxKeyBytes
        /\ IF ~Contains(x, At) THEN x[1] \in LowerCase /\ validTraceStateKeyPart(x)
           ELSE /\ tenant # <<>> /\ Len(tenant) <= MaxTenantBytes
                /\ system # <<>> /\ Len(system) <= MaxSystemBytes
                /\ tenant[1] \in LowerCase \cup Digits /\ system[1] \in LowerCase
                /\ validTraceStateKeyPart(tenant) /\ validTraceStateKeyPart(system)
  BY DEF validTraceStateKey, At
<1>c. At \notin KeyCharacters BY Characters
<1>7. CASE ~(s < q)
  <2>1. ~KeyFrom(t, s, q) BY <1>7 DEF KeyFrom
  <2>2. x = <<>> BY <1>3, <1>7
  <2> HIDE DEF x
  <2> QED BY <1>6, <2>1, <2>2 DEF x
<1>8. CASE s < q
  <2>1. x # <<>> /\ (Len(x) <= MaxKeyBytes <=> q - s <= MaxKeyBytes) BY <1>1, <1>2, <1>3, <1>8
  <2>2. x[1] = t[s]
    <3>1. 1 \in 1..((q - 1) - s + 1) /\ s + 1 - 1 = s BY <1>8
    <3> HIDE DEF x
    <3>2. x[1] = t[s + 1 - 1] BY <1>2, <3>1
    <3> QED BY <3>1, <3>2
  <2>3. CASE ~Contains(x, At)
    <3>1. \A i \in s..(q - 1) : t[i] # At BY <1>5, <2>3
    <3>2. \A p \in (s + 1)..(q - 2) : p \in s..(q - 1) OBVIOUS
    <3>3. KeyFrom(t, s, q) <=> /\ q - s <= MaxKeyBytes /\ t[s] \in LowerCase
                               /\ \A i \in s..(q - 1) : t[i] \in KeyCharacters
      BY <1>8, <3>1, <3>2 DEF KeyFrom
    <3> HIDE DEF x, tenant, system
    <3>4. validTraceStateKey(x) <=> KeyFrom(t, s, q) BY <1>4, <1>6, <2>1, <2>2, <2>3, <3>3
    <3> QED BY <3>4 DEF x
  <2>4. CASE Contains(x, At)
    <3>2. PICK p \in s..(q - 1) : t[p] = At /\ \A i \in s..(p - 1) : t[i] # At
      <4> DEFINE h == q - 1
      <4>1. h \in Nat /\ \E i \in s..h : t[i] = At BY <1>1, <1>5, <2>4
      <4> HIDE DEF h
      <4>2. \E p : First(t, s, h, At, p) BY <4>1, FirstIn
      <4> QED BY <4>2 DEF h, First
    <3>3. tenant = SubSeq(t, s, p - 1) /\ system = SubSeq(t, p + 1, q - 1)
      <4> DEFINE h == q - 1
      <4>1. h \in Nat /\ h <= Len(t) BY <1>1
      <4>2. First(t, s, h, At, p) BY <3>2 DEF First
      <4> HIDE DEF h
      <4>3. Divided(t, s, h, At, p) BY <4>1, <4>2, CutSlice
      <4> QED BY <4>3 DEF h, Divided
    <3>4. /\ p \in Nat /\ p - 1 \in Nat /\ s <= (p - 1) + 1 /\ p - 1 <= Len(t) /\ (p - 1) - s + 1 = p - s
          /\ p + 1 \in Nat /\ p + 1 >= 1 /\ p + 1 <= (q - 1) + 1 /\ (q - 1) - (p + 1) + 1 = q - 1 - p
      BY <1>1, <1>t, <3>2
    <3>5. /\ Len(tenant) = p - s /\ \A i \in 1..((p - 1) - s + 1) : tenant[i] = t[s + i - 1]
          /\ tenant = <<>> <=> s = (p - 1) + 1
          /\ validTraceStateKeyPart(tenant) <=> \A i \in s..(p - 1) : t[i] \in KeyCharacters
      <4>1. /\ Len(SubSeq(t, s, p - 1)) = (p - 1) - s + 1
            /\ \A i \in 1..((p - 1) - s + 1) : SubSeq(t, s, p - 1)[i] = t[s + i - 1]
        BY <3>4, SliceOf
      <4>2. SubSeq(t, s, p - 1) = <<>> <=> s = (p - 1) + 1 BY <3>4, EmptySlice
      <4>3. ToSet(SubSeq(t, s, p - 1)) \subseteq KeyCharacters <=> \A i \in s..(p - 1) : t[i] \in KeyCharacters
        BY <3>4, SetOfSlice
      <4> HIDE DEF tenant
      <4> QED BY <3>3, <3>4, <4>1, <4>2, <4>3 DEF validTraceStateKeyPart
    <3>6. /\ Len(system) = q - 1 - p /\ \A i \in 1..((q - 1) - (p + 1) + 1) : system[i] = t[(p + 1) + i - 1]
          /\ system = <<>> <=> p + 1 = (q - 1) + 1
          /\ validTraceStateKeyPart(system) <=> \A i \in (p + 1)..(q - 1) : t[i] \in KeyCharacters
      <4>1. /\ Len(SubSeq(t, p + 1, q - 1)) = (q - 1) - (p + 1) + 1
            /\ \A i \in 1..((q - 1) - (p + 1) + 1) : SubSeq(t, p + 1, q - 1)[i] = t[(p + 1) + i - 1]
        <5> DEFINE h == q - 1
                   g == p + 1
        <5>1. h \in Nat /\ h <= Len(t) /\ g \in Nat /\ g >= 1 /\ g <= h + 1 BY <1>1, <3>4
        <5> HIDE DEF h, g
        <5>2. Len(SubSeq(t, g, h)) = h - g + 1 /\ \A i \in 1..(h - g + 1) : SubSeq(t, g, h)[i] = t[g + i - 1]
          BY <5>1, SliceOf
        <5> QED BY <5>2 DEF h, g
      <4>2. SubSeq(t, p + 1, q - 1) = <<>> <=> p + 1 = (q - 1) + 1 BY <1>1, <3>4, EmptySlice
      <4>3. ToSet(SubSeq(t, p + 1, q - 1)) \subseteq KeyCharacters
            <=> \A i \in (p + 1)..(q - 1) : t[i] \in KeyCharacters
        BY <1>1, <3>4, SetOfSlice
      <4> HIDE DEF system
      <4> QED BY <3>3, <3>4, <4>1, <4>2, <4>3 DEF validTraceStateKeyPart
    <3> DEFINE split == /\ p \in (s + 1)..(q - 2)
                        /\ p - s <= MaxTenantBytes /\ q - 1 - p <= MaxSystemBytes
                        /\ t[s] \in LowerCase \cup Digits /\ t[p + 1] \in LowerCase
                        /\ \A i \in s..(p - 1) : t[i] \in KeyCharacters
                        /\ \A i \in (p + 1)..(q - 1) : t[i] \in KeyCharacters
    <3> HIDE DEF x, tenant, system
    <3>7. tenant # <<>> /\ system # <<>> <=> p \in (s + 1)..(q - 2)
      BY <1>8, <3>2, <3>4, <3>5, <3>6
    <3>8. ASSUME p \in (s + 1)..(q - 2) PROVE tenant[1] = t[s] /\ system[1] = t[p + 1]
      <4>1. /\ 1 \in 1..((p - 1) - s + 1) /\ s + 1 - 1 = s
            /\ 1 \in 1..((q - 1) - (p + 1) + 1) /\ (p + 1) + 1 - 1 = p + 1
        BY <3>8
      <4>2. tenant[1] = t[s + 1 - 1] /\ system[1] = t[(p + 1) + 1 - 1] BY <3>5, <3>6, <4>1
      <4> QED BY <4>1, <4>2
    <3>9. validTraceStateKey(x) <=> q - s <= MaxKeyBytes /\ split
      BY <1>6, <2>1, <2>4, <3>5, <3>6, <3>7, <3>8
    <3>10. KeyFrom(t, s, q) <=> q - s <= MaxKeyBytes /\ split
      <4>1. ASSUME KeyFrom(t, s, q) PROVE q - s <= MaxKeyBytes /\ split
        <5>1. q - s <= MaxKeyBytes BY <4>1 DEF KeyFrom
        <5>2. ~(\A i \in s..(q - 1) : t[i] \in KeyCharacters) BY <1>c, <3>2
        <5>3. PICK o \in (s + 1)..(q - 2) :
                /\ t[o] = At /\ o - s <= MaxTenantBytes /\ q - 1 - o <= MaxSystemBytes
                /\ t[s] \in LowerCase \cup Digits /\ t[o + 1] \in LowerCase
                /\ \A i \in s..(o - 1) : t[i] \in KeyCharacters
                /\ \A i \in (o + 1)..(q - 1) : t[i] \in KeyCharacters
          BY <4>1, <5>2 DEF KeyFrom
        <5>4. ~(p \in s..(o - 1)) BY <1>c, <3>2, <5>3
        <5>5. ~(o \in s..(p - 1)) BY <3>2, <5>3
        <5>6. o = p BY <3>4, <5>4, <5>5
        <5> QED BY <5>1, <5>3, <5>6
      <4>2. ASSUME q - s <= MaxKeyBytes, split PROVE KeyFrom(t, s, q)
        BY <1>8, <3>2, <4>2 DEF KeyFrom
      <4> QED BY <4>1, <4>2
    <3> HIDE DEF split
    <3> QED BY <3>9, <3>10 DEF x
  <2> QED BY <2>3, <2>4
<1> QED BY <1>7, <1>8
\* What the code asks of a trimmed member.
Accepts(x) ==
  /\ Contains(x, Equals)
  /\ validTraceStateKey(Before(x, Equals)) /\ validTraceStateValue(After(x, Equals))

ValueFrom(t, q, e) ==
  /\ q < e /\ e - q <= MaxValueBytes /\ t[e] # Space
  /\ \A i \in (q + 1)..e : t[i] \in ValueCharacters

\* The checks of key and value, said of the member they are cut from.
LEMMA PartsByPositions ==
  ASSUME NEW t, IsSequence(t), NEW s \in Nat, NEW q \in Nat, NEW e \in Nat,
         s >= 1, s <= q, q <= e, e <= Len(t), Divided(t, s, e, Equals, q)
  PROVE  Accepts(SubSeq(t, s, e)) <=> KeyFrom(t, s, q) /\ ValueFrom(t, q, e)
<1>1. q <= Len(t) + 1
  <2>1. Len(t) \in Nat BY DEF IsSequence
  <2> QED BY <2>1
<1>2. validTraceStateKey(SubSeq(t, s, q - 1)) <=> KeyFrom(t, s, q) BY <1>1, KeyByPositions
<1>3. validTraceStateValue(SubSeq(t, q + 1, e)) <=> ValueFrom(t, q, e)
  BY ValueByPositions DEF ValueFrom
<1> DEFINE key == SubSeq(t, s, q - 1)
           value == SubSeq(t, q + 1, e)
           x == SubSeq(t, s, e)
<1>4. Contains(x, Equals) /\ Before(x, Equals) = key /\ After(x, Equals) = value BY DEF Divided
<1> SUFFICES Accepts(x) <=> KeyFrom(t, s, q) /\ ValueFrom(t, q, e) OBVIOUS
<1>5. (validTraceStateKey(key) <=> KeyFrom(t, s, q)) /\ (validTraceStateValue(value) <=> ValueFrom(t, q, e))
  BY <1>2, <1>3
<1> HIDE DEF key, value, x
<1> QED BY <1>4, <1>5 DEF Accepts

\* What the code accepts between two commas has a key and a value in the right places.
LEMMA AcceptedMember ==
  ASSUME NEW t, IsSequence(t), NEW a \in Nat, NEW b \in Nat, a < b, b <= Len(t) + 1,
         NEW lo \in Nat, NEW hi \in Nat, Trimmed(t, a + 1, b - 1, lo, hi), Accepts(SubSeq(t, lo, hi))
  PROVE  \E q \in 1..Len(t) : /\ Named(t, a, lo, q) /\ Valued(t, q, hi, b)
                              /\ Before(SubSeq(t, lo, hi), Equals) = SubSeq(t, lo, q - 1)
<1>t. Len(t) \in Nat BY DEF IsSequence
<1>0. /\ lo \in (a + 1)..(b - 1) /\ hi \in lo..(b - 1)
      /\ \A i \in (a + 1)..(lo - 1) : t[i] \in Blanks
      /\ \A i \in (hi + 1)..(b - 1) : t[i] \in Blanks
  BY DEF Trimmed
<1>o. lo \in (a + 1)..(b - 1) /\ hi \in lo..(b - 1) BY <1>0
<1>1. lo >= 1 /\ lo <= hi + 1 /\ lo <= hi /\ hi <= Len(t) /\ a < lo /\ hi < b /\ lo \in 1..Len(t) /\ hi \in 1..Len(t)
  BY <1>o, <1>t
<1>2. \E i \in lo..hi : t[i] = Equals
  <2>1. Contains(SubSeq(t, lo, hi), Equals) BY DEF Accepts
  <2> QED BY <1>1, <2>1, InSlice
<1>3. PICK q : First(t, lo, hi, Equals, q) BY <1>2, FirstIn
<1>4. q \in lo..hi /\ t[q] = Equals BY <1>3 DEF First
<1>5. q \in Nat /\ lo <= q /\ q <= hi /\ q \in 1..Len(t) BY <1>1, <1>4, <1>t
<1>6. Divided(t, lo, hi, Equals, q) BY <1>1, <1>3, CutSlice
<1>7. KeyFrom(t, lo, q) /\ ValueFrom(t, q, hi) BY <1>1, <1>5, <1>6, PartsByPositions
<1>8. Named(t, a, lo, q) BY <1>0, <1>1, <1>4, <1>5, <1>7 DEF Named
<1>9. Valued(t, q, hi, b) BY <1>0, <1>1, <1>7 DEF Valued, ValueFrom
<1> QED BY <1>5, <1>6, <1>8, <1>9 DEF Divided

\* The trimmed member reaches from s to e, and its key ends before q.
TrimmedTo(t, a, b, s, q, e) ==
  /\ Trimmed(t, a + 1, b - 1, s, e) /\ Accepts(SubSeq(t, s, e))
  /\ Before(SubSeq(t, s, e), Equals) = SubSeq(t, s, q - 1)

\* A member with key and value in the right places is accepted.
LEMMA MemberAccepted ==
  ASSUME NEW t, IsSequence(t), NEW a \in Nat, NEW b \in Nat, a < b, b <= Len(t) + 1,
         NEW s, NEW q, NEW e, Named(t, a, s, q), Valued(t, q, e, b)
  PROVE  TrimmedTo(t, a, b, s, q, e)
<1>t. Len(t) \in Nat BY DEF IsSequence
<1>1. /\ s \in Nat /\ q \in Nat /\ a < s /\ s < q /\ q <= Len(t)
      /\ t[q] = Equals /\ t[s] \notin Blanks
      /\ \A i \in s..(q - 1) : t[i] \in KeyCharacters \cup {At}
      /\ \A i \in (a + 1)..(s - 1) : t[i] \in Blanks
  BY <1>t, NamedParts
<1>2. /\ e \in 1..Len(t) /\ q < e /\ e < b /\ e - q <= MaxValueBytes /\ t[e] # Space
      /\ \A i \in (q + 1)..e : t[i] \in ValueCharacters
      /\ \A i \in (e + 1)..(b - 1) : t[i] \in Blanks
  BY DEF Valued
<1>3. /\ e \in Nat /\ e <= Len(t) /\ s >= 1 /\ s <= e + 1 /\ s <= q /\ q <= e
      /\ s \in (a + 1)..(b - 1) /\ e \in s..(b - 1) /\ e \in (q + 1)..e /\ q \in s..e
  BY <1>1, <1>2, <1>t
<1>4. t[e] \notin Blanks
  <2>1. t[e] \in ValueCharacters /\ t[e] # Space BY <1>2, <1>3
  <2> QED BY <2>1, Characters
<1>5. Trimmed(t, a + 1, b - 1, s, e) BY <1>1, <1>2, <1>3, <1>4 DEF Trimmed
<1>6. Equals \notin KeyCharacters \cup {At} BY Characters
<1>7. First(t, s, e, Equals, q) BY <1>1, <1>3, <1>6 DEF First
<1>8. Divided(t, s, e, Equals, q) BY <1>3, <1>7, CutSlice
<1>9. KeyFrom(t, s, q) BY DEF Named
<1>10. ValueFrom(t, q, e) BY <1>2 DEF ValueFrom
<1>11. Accepts(SubSeq(t, s, e)) BY <1>1, <1>3, <1>8, <1>9, <1>10, PartsByPositions
<1> QED BY <1>5, <1>8, <1>11 DEF Divided, TrimmedTo

\* The code accepts the text between two commas exactly if it is a well-formed
\* member, and then its key is the one the code compares.
LEMMA MemberAgrees ==
  ASSUME NEW t, IsSequence(t), NEW a \in Nat, NEW b \in Nat, a < b, b <= Len(t) + 1
  PROVE  /\ Accepts(Trim(SubSeq(t, a + 1, b - 1))) <=> WellFormed(t, a, b)
         /\ WellFormed(t, a, b) => HasKey(t, a, Before(Trim(SubSeq(t, a + 1, b - 1)), Equals))
<1> DEFINE m == a + 1
           n == b - 1
           x == Trim(SubSeq(t, m, n))
<1>t. Len(t) \in Nat BY DEF IsSequence
<1>0. m \in Nat /\ n \in Nat /\ m >= 1 /\ m <= n + 1 /\ n <= Len(t) BY <1>t
<1>s. ASSUME NEW lo, NEW hi, Trimmed(t, m, n, lo, hi) PROVE x = SubSeq(t, lo, hi)
  <2> HIDE DEF m, n
  <2> QED BY <1>0, <1>s, TrimSlice
<1>1. ASSUME Accepts(x) PROVE WellFormed(t, a, b)
  <2>1. ~\A i \in m..n : t[i] \in Blanks
    <3> SUFFICES ASSUME \A i \in m..n : t[i] \in Blanks PROVE FALSE OBVIOUS
    <3> HIDE DEF m, n
    <3>1. x = <<>> BY <1>0, TrimBlank
    <3> HIDE DEF x
    <3>2. Contains(x, Equals) BY <1>1 DEF Accepts
    <3> QED BY <3>1, <3>2 DEF Contains
  <2>2. PICK lo, hi \in Nat : Trimmed(t, m, n, lo, hi)
    <3> HIDE DEF m, n
    <3> QED BY <1>0, <2>1, BlankEnds
  <2>3. x = SubSeq(t, lo, hi) BY <1>s, <2>2
  <2>4. Accepts(SubSeq(t, lo, hi))
    <3> HIDE DEF x
    <3> QED BY <1>1, <2>3
  <2>5. PICK q \in 1..Len(t) : Named(t, a, lo, q) /\ Valued(t, q, hi, b)
    BY <2>2, <2>4, AcceptedMember
  <2>6. lo \in 1..Len(t) /\ hi \in 1..Len(t) BY <2>5 DEF Named, Valued
  <2> QED BY <2>5, <2>6 DEF WellFormed
<1>2. ASSUME WellFormed(t, a, b) PROVE Accepts(x) /\ HasKey(t, a, Before(x, Equals))
  <2>1. PICK s, q, e \in 1..Len(t) : Named(t, a, s, q) /\ Valued(t, q, e, b) BY <1>2 DEF WellFormed
  <2>a. TrimmedTo(t, a, b, s, q, e) BY <2>1, MemberAccepted
  <2>b. Trimmed(t, m, n, s, e) BY <2>a DEF TrimmedTo
  <2>2. Accepts(SubSeq(t, s, e)) /\ Before(SubSeq(t, s, e), Equals) = SubSeq(t, s, q - 1)
    BY <2>a DEF TrimmedTo
  <2>3. x = SubSeq(t, s, e) BY <1>s, <2>b
  <2> HIDE DEF x
  <2>4. Before(x, Equals) = SubSeq(t, s, q - 1) /\ Accepts(x) BY <2>2, <2>3
  <2> QED BY <2>1, <2>4 DEF HasKey
<1> QED BY <1>1, <1>2

\* The code counts one member more than there are commas.
LEMMA MemberCount ==
  ASSUME NEW t, IsSequence(t)
  PROVE  Len(Split(t, Comma)) = Cardinality(commas(t)) + 1
<1> DEFINE L == Len(t)
           C == {0, L + 1} \cup {i \in DOMAIN t : t[i] = Comma}
           K == Cardinality(C) - 1
           D == commas(t) \cup {0}
<1>1. L \in Nat /\ DOMAIN t = 1..L BY DEF IsSequence
<1>2. IsFiniteSet(commas(t)) /\ Cardinality(commas(t)) \in Nat /\ L + 1 \notin commas(t) BY CommasFinite
<1>3. 0 \notin commas(t) /\ L + 1 # 0 BY <1>1 DEF commas
<1>4. C = D \cup {L + 1} BY DEF commas
<1>5. IsFiniteSet(D) /\ Cardinality(D) = Cardinality(commas(t)) + 1 BY <1>2, <1>3, FS_AddElement
<1>6. L + 1 \notin D BY <1>2, <1>3
<1> HIDE DEF D
<1>7. Cardinality(D \cup {L + 1}) = Cardinality(D) + 1 BY <1>5, <1>6, FS_AddElement
<1>8. K = Cardinality(commas(t)) + 1
  <2> HIDE DEF C
  <2>1. Cardinality(C) = Cardinality(D) + 1 BY <1>4, <1>7
  <2> QED BY <1>2, <1>5, <2>1
<1>9. \E f : Split(t, Comma) = [n \in 1..K |-> f[n]]
  <2> DEFINE cut(n) == CHOOSE i \in C : Cardinality({j \in C : j < i}) = n
             f == [n \in 1..K |-> SubSeq(t, cut(n - 1) + 1, cut(n) - 1)]
  <2>1. Split(t, Comma) = f BY DEF Split
  <2>2. f = [n \in 1..K |-> f[n]]
    <3> HIDE DEF K, cut
    <3> QED OBVIOUS
  <2> QED BY <2>1, <2>2
<1>10. K \in Nat BY <1>2, <1>8
<1> HIDE DEF K
<1>11. Len(Split(t, Comma)) = K BY <1>9, <1>10
<1> QED BY <1>8, <1>11

\* The parts the code splits a tracestate into are its members.
LEMMA PartIsMember ==
  ASSUME NEW t, IsSequence(t), NEW members, NEW N, NEW c, Cutting(t, Comma, members, N, c), NEW n \in 1..N
  PROVE  Member(t, c[n - 1], c[n]) /\ c[n - 1] \in starts(t)
<1>1. Len(t) \in Nat /\ DOMAIN t = 1..Len(t) BY DEF IsSequence
<1> DEFINE m == n - 1
           a == c[m]
           b == c[n]
<1>2. N \in Nat /\ N >= 1 BY DEF Cutting
<1>3. m \in 0..N /\ n \in 0..N /\ m < n /\ (m # 0 => m \in 1..(N - 1)) /\ (n # N => n \in 1..(N - 1)) BY <1>2
<1>4. a \in 0..(Len(t) + 1) /\ b \in 0..(Len(t) + 1) /\ a < b
  <2> HIDE DEF m
  <2> QED BY <1>3 DEF Cutting
<1>5. a = 0 \/ (a \in DOMAIN t /\ t[a] = Comma)
  <2> HIDE DEF m
  <2> QED BY <1>3 DEF Cutting
<1>6. b = Len(t) + 1 \/ t[b] = Comma BY <1>3 DEF Cutting
<1>7. \A i \in DOMAIN t : a < i /\ i < b => t[i] # Comma BY DEF Cutting
<1> SUFFICES Member(t, a, b) /\ a \in starts(t) OBVIOUS
<1> HIDE DEF m, a, b
<1>8. /\ a \in 0..Len(t) /\ b \in 1..(Len(t) + 1)
      /\ \A i \in (a + 1)..(b - 1) : i \in DOMAIN t /\ a < i /\ i < b
  BY <1>1, <1>4
<1>9. Member(t, a, b) BY <1>4, <1>5, <1>6, <1>7, <1>8 DEF Member
<1> QED BY <1>5, <1>9 DEF starts, commas

\* Every start of a member is a cut.
LEMMA StartIsCut ==
  ASSUME NEW t, IsSequence(t), NEW members, NEW N, NEW c, Cutting(t, Comma, members, N, c), NEW a \in starts(t)
  PROVE  \E n \in 1..N : c[n - 1] = a
<1>1. N \in Nat /\ N >= 1 /\ c[0] = 0 BY DEF Cutting
<1>2. CASE a = 0
  <2>1. 1 \in 1..N /\ 1 - 1 = 0 BY <1>1
  <2> QED BY <1>1, <1>2, <2>1
<1>3. CASE a \in DOMAIN t /\ t[a] = Comma
  <2>1. PICK n \in 1..N : \/ c[n - 1] < a /\ a < c[n]
                          \/ n - 1 \in 1..(N - 1) /\ c[n - 1] = a
    BY <1>3, CutsCover
  <2>2. ~(c[n - 1] < a /\ a < c[n]) BY <1>3 DEF Cutting
  <2> QED BY <2>1, <2>2
<1> QED BY <1>2, <1>3 DEF starts, commas

\* Every member is a part.
LEMMA MemberIsPart ==
  ASSUME NEW t, IsSequence(t), NEW members, NEW N, NEW c, Cutting(t, Comma, members, N, c),
         NEW a, NEW b, Member(t, a, b)
  PROVE  \E n \in 1..N : c[n - 1] = a /\ c[n] = b
<1>1. /\ a \in 0..Len(t) /\ b \in 1..(Len(t) + 1) /\ a < b
      /\ a = 0 \/ t[a] = Comma
      /\ b = Len(t) + 1 \/ t[b] = Comma
      /\ \A i \in (a + 1)..(b - 1) : t[i] # Comma
  BY DEF Member
<1>2. Len(t) \in Nat /\ DOMAIN t = 1..Len(t) BY DEF IsSequence
<1>3. a = 0 \/ a \in DOMAIN t BY <1>1, <1>2
<1>4. a \in starts(t) BY <1>1, <1>3 DEF starts, commas
<1>5. PICK n \in 1..N : c[n - 1] = a BY <1>4, StartIsCut
<1>6. N \in Nat BY DEF Cutting
<1> DEFINE m == n - 1
<1>7. m \in 0..N /\ m + 1 = n BY <1>6
<1>8. c[m] = a BY <1>5
<1> HIDE DEF m
<1>9. \A i \in (c[m] + 1)..(b - 1) : t[i] # Comma BY <1>1, <1>8
<1>10. c[m] < b BY <1>1, <1>8
<1>11. c[m + 1] = b BY <1>1, <1>7, <1>9, <1>10, NextCut
<1> QED BY <1>5, <1>7, <1>11

\* The key the code compares.
keyOf(members, n) == Before(Trim(members[n]), Equals)

\* The code accepts a part exactly if it is a well-formed member, and compares its key.
LEMMA PartAgrees ==
  ASSUME NEW t, IsSequence(t), NEW members, NEW N, NEW c, Cutting(t, Comma, members, N, c), NEW n \in 1..N
  PROVE  /\ Accepts(Trim(members[n])) <=> WellFormed(t, c[n - 1], c[n])
         /\ WellFormed(t, c[n - 1], c[n]) => HasKey(t, c[n - 1], keyOf(members, n))
<1> DEFINE a == c[n - 1]
           b == c[n]
<1>1. Len(t) \in Nat BY DEF IsSequence
<1>2. members[n] = SubSeq(t, a + 1, b - 1) BY DEF Cutting
<1>3. Member(t, a, b) BY PartIsMember
<1> SUFFICES /\ Accepts(Trim(members[n])) <=> WellFormed(t, a, b)
             /\ WellFormed(t, a, b) => HasKey(t, a, keyOf(members, n))
  OBVIOUS
<1> HIDE DEF a, b
<1>4. a \in 0..Len(t) /\ b \in 1..(Len(t) + 1) /\ a < b BY <1>3 DEF Member
<1>5. a \in Nat /\ b \in Nat /\ b <= Len(t) + 1 BY <1>1, <1>4
<1>6. /\ Accepts(Trim(SubSeq(t, a + 1, b - 1))) <=> WellFormed(t, a, b)
      /\ WellFormed(t, a, b) => HasKey(t, a, Before(Trim(SubSeq(t, a + 1, b - 1)), Equals))
  BY <1>4, <1>5, MemberAgrees
<1> DEFINE part == SubSeq(t, a + 1, b - 1)
<1>7. /\ members[n] = part /\ (Accepts(Trim(part)) <=> WellFormed(t, a, b))
      /\ WellFormed(t, a, b) => HasKey(t, a, Before(Trim(part), Equals))
  BY <1>2, <1>6
<1> HIDE DEF part
<1> QED BY <1>7 DEF keyOf

\* A member has one key, said of the text of the key.
LEMMA OneKeyText ==
  ASSUME NEW t, IsSequence(t), NEW a \in Nat, NEW j, NEW k, HasKey(t, a, j), HasKey(t, a, k)
  PROVE  j = k
<1>1. Len(t) \in Nat BY DEF IsSequence
<1>2. PICK s, q \in 1..Len(t) : Named(t, a, s, q) /\ j = SubSeq(t, s, q - 1) BY DEF HasKey
<1>3. PICK x, y \in 1..Len(t) : Named(t, a, x, y) /\ k = SubSeq(t, x, y - 1) BY DEF HasKey
<1>4. s = x /\ q = y BY <1>1, <1>2, <1>3, OneKey
<1> QED BY <1>2, <1>3, <1>4

AllWellFormed(t) == \A a, b : Member(t, a, b) => WellFormed(t, a, b)

\* All parts are accepted exactly if all members are well formed.
LEMMA MembersAgree ==
  ASSUME NEW t, IsSequence(t), NEW members, NEW N, NEW c, Cutting(t, Comma, members, N, c)
  PROVE  (\A n \in 1..N : Accepts(Trim(members[n]))) <=> AllWellFormed(t)
<1>1. ASSUME \A n \in 1..N : Accepts(Trim(members[n])), NEW a, NEW b, Member(t, a, b)
      PROVE  WellFormed(t, a, b)
  <2>1. PICK n \in 1..N : c[n - 1] = a /\ c[n] = b BY <1>1, MemberIsPart
  <2>2. WellFormed(t, c[n - 1], c[n]) BY <1>1, PartAgrees
  <2> QED BY <2>1, <2>2
<1>2. ASSUME AllWellFormed(t), NEW n \in 1..N PROVE Accepts(Trim(members[n]))
  <2>1. Member(t, c[n - 1], c[n]) BY PartIsMember
  <2>2. WellFormed(t, c[n - 1], c[n]) BY <1>2, <2>1 DEF AllWellFormed
  <2> QED BY <2>2, PartAgrees
<1> QED BY <1>1, <1>2 DEF AllWellFormed

\* Once every member is well formed, the code finds a duplicate exactly if two
\* members have the same key.
LEMMA KeysAgree ==
  ASSUME NEW t, IsSequence(t), NEW members, NEW N, NEW c, Cutting(t, Comma, members, N, c), AllWellFormed(t)
  PROVE  duplicateKeys(members) <=> ~Distinct(t)
<1>1. N \in Nat /\ N >= 1 /\ DOMAIN members = 1..N BY DEF Cutting
<1>n. Len(t) \in Nat BY DEF IsSequence
<1>2. ASSUME NEW n \in 1..N
      PROVE  c[n - 1] \in Nat /\ c[n - 1] \in starts(t) /\ HasKey(t, c[n - 1], keyOf(members, n))
  <2>1. Member(t, c[n - 1], c[n]) /\ c[n - 1] \in starts(t) BY PartIsMember
  <2>2. WellFormed(t, c[n - 1], c[n]) BY <2>1 DEF AllWellFormed
  <2>3. c[n - 1] \in 0..Len(t) BY <2>1 DEF Member
  <2>4. c[n - 1] \in Nat BY <1>n, <2>3
  <2> QED BY <2>1, <2>2, <2>4, PartAgrees
<1>3. duplicateKeys(members) <=> \E i, j \in 1..N : i < j /\ keyOf(members, i) = keyOf(members, j)
  BY <1>1 DEF duplicateKeys, keyOf, Equals
<1>4. ASSUME NEW i \in 1..N, NEW j \in 1..N, i < j, keyOf(members, i) = keyOf(members, j) PROVE ~Distinct(t)
  <2>1. i - 1 \in 0..N /\ j - 1 \in 0..N /\ i - 1 < j - 1 BY <1>1, <1>4
  <2>2. c[i - 1] < c[j - 1] BY <2>1 DEF Cutting
  <2>3. /\ c[i - 1] \in Nat /\ c[i - 1] \in starts(t) /\ HasKey(t, c[i - 1], keyOf(members, i))
        /\ c[j - 1] \in Nat /\ c[j - 1] \in starts(t) /\ HasKey(t, c[j - 1], keyOf(members, j))
    BY <1>2
  <2>4. c[i - 1] # c[j - 1] BY <2>2, <2>3
  <2> QED BY <1>4, <2>3, <2>4 DEF Distinct
<1>5. ASSUME ~Distinct(t) PROVE \E i, j \in 1..N : i < j /\ keyOf(members, i) = keyOf(members, j)
  <2>1. PICK x, y \in starts(t) : x # y /\ \E k : HasKey(t, x, k) /\ HasKey(t, y, k)
    BY <1>5 DEF Distinct
  <2>k. PICK k : HasKey(t, x, k) /\ HasKey(t, y, k) BY <2>1
  <2>2. PICK i \in 1..N : c[i - 1] = x BY StartIsCut
  <2>3. PICK j \in 1..N : c[j - 1] = y BY StartIsCut
  <2>4. x \in Nat /\ HasKey(t, x, keyOf(members, i)) BY <1>2, <2>2
  <2>5. y \in Nat /\ HasKey(t, y, keyOf(members, j)) BY <1>2, <2>3
  <2>6. keyOf(members, i) = k BY <2>k, <2>4, OneKeyText
  <2>7. keyOf(members, j) = k BY <2>k, <2>5, OneKeyText
  <2>8. i # j BY <2>1, <2>2, <2>3
  <2>9. i < j \/ j < i BY <1>1, <2>8
  <2> QED BY <2>6, <2>7, <2>9
<1> QED BY <1>3, <1>4, <1>5

\* What the code accepts, by positions.
LEMMA StateByPositions ==
  ASSUME NEW t, IsSequence(t)
  PROVE  validTraceState(t) <=> StateAt(t)
<1> DEFINE members == Split(t, Comma)
<1>1. PICK N, c : Cutting(t, Comma, members, N, c) BY SplitCuts
<1>2. Len(members) = Cardinality(commas(t)) + 1 BY MemberCount
<1>3. validTraceState(t) <=>
        /\ t # <<>> /\ Len(t) <= MaxStateBytes
        /\ t[1] \notin Blanks /\ Last(t) \notin Blanks
        /\ ~tooManyMembers(members)
        /\ \A n \in DOMAIN members : Accepts(Trim(members[n]))
        /\ ~duplicateKeys(members)
  BY DEF validTraceState, Accepts, Comma, Equals
<1> HIDE DEF members
<1>4. DOMAIN members = 1..N BY <1>1 DEF Cutting
<1>5. (\A n \in DOMAIN members : Accepts(Trim(members[n]))) <=> AllWellFormed(t)
  BY <1>1, <1>4, MembersAgree
<1>6. AllWellFormed(t) => (duplicateKeys(members) <=> ~Distinct(t)) BY <1>1, KeysAgree
<1>7. ~tooManyMembers(members) <=> Cardinality(commas(t)) < MaxMembers
  <2>1. Cardinality(commas(t)) \in Nat BY CommasFinite
  <2>2. MaxMembers \in Nat BY StateLengthAssumption
  <2> QED BY <1>2, <2>1, <2>2 DEF tooManyMembers
<1>8. (t # <<>> /\ Len(t) <= MaxStateBytes) <=> Len(t) \in 1..MaxStateBytes
  <2>1. Len(t) \in Nat /\ t \in Seq({t[i] : i \in DOMAIN t}) BY DEF IsSequence
  <2>2. t # <<>> <=> Len(t) > 0 BY <2>1
  <2>3. MaxStateBytes \in Nat BY StateLengthAssumption
  <2> QED BY <2>1, <2>2, <2>3
<1>9. Last(t) = t[Len(t)] BY DEF Last
<1> QED BY <1>3, <1>5, <1>6, <1>7, <1>8, <1>9 DEF StateAt, AllWellFormed

\* Checking a tracestate by splitting it at its commas, trimming each member
\* and cutting it at its equals sign (validTraceState) accepts exactly what one
\* pass over the text accepts: every text, every character set and every length
\* of the grammar.
THEOREM TraceStateGrammar == TraceSpec => []StateAgrees
<1>1. TraceInit => Scanned(text, scan) BY ScanStart DEF TraceInit
<1>2. Scanned(text, scan) /\ [TraceNext]_traceVars => Scanned(text, scan)'
  <2> SUFFICES ASSUME Scanned(text, scan), [TraceNext]_traceVars PROVE Scanned(text', scan') OBVIOUS
  <2>1. CASE TraceNext
    <3>1. PICK d \in alphabet.characters : Read(d) BY <2>1 DEF TraceNext
    <3> QED BY <3>1, ScanStep
  <2>2. CASE UNCHANGED traceVars BY <2>2 DEF traceVars
  <2> QED BY <2>1, <2>2
<1>3. Scanned(text, scan) => StateAgrees
  <2> SUFFICES ASSUME Scanned(text, scan) PROVE StateAgrees OBVIOUS
  <2>1. IsSequence(text) BY DEF Scanned
  <2>2. StateAt(text) <=> TraceState BY AutomatonAgrees
  <2>3. validTraceState(text) <=> StateAt(text) BY <2>1, StateByPositions
  <2> QED BY <2>2, <2>3 DEF StateAgrees
<1> QED BY <1>1, <1>2, <1>3, PTL DEF TraceSpec
=============================================================================
