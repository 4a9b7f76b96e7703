----------------------------- MODULE Ownership ------------------------------
(***************************************************************************)
(* Who may write which memory.  Data, Attribute and Event are immutable    *)
(* values that refer to byte slices and maps on the heap, and every        *)
(* constructor, accessor, encoder and decoder copies what crosses between  *)
(* a value and its caller.  Several goroutines run these operations and    *)
(* write to the buffers they hold at the same time.                        *)
(*                                                                         *)
(* A block is the backing store of one slice or map.  A call first reads   *)
(* its inputs (json.Valid), then copies them one by one into fresh blocks, *)
(* then returns; other goroutines run between these steps.                 *)
(*                                                                         *)
(* Assumption on callers, from NewEvent's comment ("Input containers must  *)
(* stay stable while copied"): nobody writes to a buffer that a call in    *)
(* progress still has to copy.                                             *)
(***************************************************************************)

CONSTANTS
  Goroutines,  \* who calls the package
  Blocks,      \* backing stores
  Contents,    \* what a block may hold
  JSON         \* the contents that are valid JSON

ASSUME ContentsAssumption == JSON \subseteq Contents

Kinds == {"json", "bytes", "map"}

\* A reference an immutable value holds.
Ref == [kind : Kinds, block : Blocks]

\* One copy a call makes: what it is, from or in which block, whether the
\* result goes to a value or to the caller, and whether its syntax has been
\* checked or need not be.
Item == [kind : Kinds, block : Blocks, to : {"value", "caller"}, checked : BOOLEAN]

\* The same item once its syntax is checked.
Accepted(i) == [kind |-> i.kind, block |-> i.block, to |-> i.to, checked |-> TRUE]

\* Mutant: the slice or map is handed over instead of copied.
AliasOf(i, b) == i

\* The same item once it is copied to block b.
CopyOf(i, b) == [kind |-> i.kind, block |-> b, to |-> i.to, checked |-> i.checked]

VARIABLES
  heap,     \* the contents of every block
  mutable,  \* the blocks callers can write
  values,   \* the references immutable values hold
  todo,     \* by goroutine, the copies its call still has to make
  made      \* by goroutine, the copies its call has made

vars == <<heap, mutable, values, todo, made>>

Init ==
  /\ heap \in [Blocks -> Contents]
  /\ mutable = {}
  /\ values = {}
  /\ todo = [g \in Goroutines |-> {}]
  /\ made = [g \in Goroutines |-> {}]

ValueBlocks == {v.block : v \in values}
TodoBlocks  == {b \in Blocks : \E g \in Goroutines : \E i \in todo[g] : i.block = b}
MadeBlocks  == {b \in Blocks : \E g \in Goroutines : \E i \in made[g] : i.block = b}

\* What an allocation may return: a block nothing refers to.
Fresh(b) == b \notin mutable \cup ValueBlocks \cup TodoBlocks \cup MadeBlocks

Idle(g) == todo[g] = {} /\ made[g] = {}

-----------------------------------------------------------------------------
(* Callers.                                                                 *)

CallerAllocates(b, x) ==
  /\ Fresh(b)
  /\ mutable' = mutable \cup {b}
  /\ heap' = [heap EXCEPT ![b] = x]
  /\ UNCHANGED <<values, todo, made>>

CallerWrites(b, x) ==
  /\ b \in mutable
  /\ b \notin TodoBlocks
  /\ heap' = [heap EXCEPT ![b] = x]
  /\ UNCHANGED <<mutable, values, todo, made>>

CallerDrops(b) ==
  /\ b \in mutable
  /\ mutable' = mutable \ {b}
  /\ UNCHANGED <<heap, values, todo, made>>

ValueDropped(v) ==
  /\ v \in values
  /\ values' = values \ {v}
  /\ UNCHANGED <<heap, mutable, todo, made>>

-----------------------------------------------------------------------------
(* Operations: which copies a call has to make.                             *)

Begin(g, items) ==
  /\ Idle(g)
  /\ todo' = [todo EXCEPT ![g] = items]
  /\ UNCHANGED <<heap, mutable, values, made>>

\* From a caller's buffer into a value, from a value into another one, from a
\* value or a caller's buffer to the caller.
Unchecked(b)  == [kind |-> "json", block |-> b, to |-> "value", checked |-> FALSE]
Take(kind, b) == [kind |-> kind, block |-> b, to |-> "value", checked |-> TRUE]
Give(kind, b) == [kind |-> kind, block |-> b, to |-> "caller", checked |-> TRUE]

NewJSONData(g, b)        == b \in mutable /\ Begin(g, {Unchecked(b)})
NewBinaryData(g, b)      == b \in mutable /\ Begin(g, {Take("bytes", b)})
NewBinaryAttribute(g, b) == b \in mutable /\ Begin(g, {Take("bytes", b)})

\* The extension map of the caller and the bytes of the Data value.
NewEvent(g, m, v) ==
  /\ m \in mutable
  /\ v \in values /\ v.kind # "map"
  /\ Begin(g, {Take("map", m), Take(v.kind, v.block)})

EventData(g, v)       == v \in values /\ v.kind # "map" /\ Begin(g, {Take(v.kind, v.block)})
ValueBytes(g, v)      == v \in values /\ v.kind # "map" /\ Begin(g, {Give(v.kind, v.block)})
EventExtensions(g, v) == v \in values /\ v.kind = "map" /\ Begin(g, {Give("map", v.block)})

\* The record key is the caller's, the value the event's; both are copied.
EncodeKafka(g, k, v) ==
  /\ k \in mutable
  /\ v \in values /\ v.kind # "map"
  /\ Begin(g, {Give("bytes", k), Give(v.kind, v.block)})

\* The record is the caller's: its key (as every transport header) goes back as
\* a copy, its value into the event as JSON or as bytes.  The second copy that
\* NewEvent makes of data nobody else has seen is left out.
DecodeKafka(g, k, b) ==
  /\ k \in mutable /\ b \in mutable
  /\ \/ Begin(g, {Give("bytes", k), Unchecked(b)})
     \/ Begin(g, {Give("bytes", k), Take("bytes", b)})

\* The adapters' ToCloudEvent: the payload goes into the event, and the caller
\* gets retained state with its own copies of the payload and of the metadata.
ToCloudEvent(g, p, m) ==
  /\ p \in mutable /\ m \in mutable
  /\ \/ Begin(g, {Give("bytes", p), Give("map", m), Unchecked(p)})
     \/ Begin(g, {Give("bytes", p), Give("map", m), Take("bytes", p)})

\* FromCloudEvent: the envelope gets copies of the data of the event and of the
\* retained metadata.
FromCloudEvent(g, m, v) ==
  /\ m \in mutable
  /\ v \in values /\ v.kind # "map"
  /\ Begin(g, {Give("map", m), Give(v.kind, v.block)})

\* The validator keeps a clone of the caller's map of schema lookups.
NewJSONSchemaValidator(g, m) == m \in mutable /\ Begin(g, {Take("map", m)})

-----------------------------------------------------------------------------
(* The steps of a call.                                                     *)

\* Mutant: json.Valid is not called.
CheckSkipped(g, i) ==
  /\ i \in todo[g] /\ ~i.checked
  /\ todo' = [todo EXCEPT ![g] = (@ \ {i}) \cup {Accepted(i)}]
  /\ UNCHANGED <<heap, mutable, values, made>>

\* json.Valid on the input: go on, or return an error and no value.
Check(g, i) ==
  /\ i \in todo[g] /\ ~i.checked
  /\ IF heap[i.block] \in JSON
     THEN /\ todo' = [todo EXCEPT ![g] = (@ \ {i}) \cup {Accepted(i)}]
          /\ UNCHANGED made
     ELSE /\ todo' = [todo EXCEPT ![g] = {}]
          /\ made' = [made EXCEPT ![g] = {}]
  /\ UNCHANGED <<heap, mutable, values>>

\* append([]byte(nil), v...), cloneBytes..., maps.Clone, make and range.
Copy(g, i, b) ==
  /\ i \in todo[g] /\ i.checked
  /\ Fresh(b)
  /\ heap' = [heap EXCEPT ![b] = heap[i.block]]
  /\ todo' = [todo EXCEPT ![g] = @ \ {i}]
  /\ made' = [made EXCEPT ![g] = @ \cup {CopyOf(i, b)}]
  /\ UNCHANGED <<mutable, values>>

Return(g) ==
  /\ todo[g] = {} /\ made[g] # {}
  /\ values' = values \cup {[kind |-> i.kind, block |-> i.block]
                            : i \in {j \in made[g] : j.to = "value"}}
  /\ mutable' = mutable \cup {i.block : i \in {j \in made[g] : j.to = "caller"}}
  /\ made' = [made EXCEPT ![g] = {}]
  /\ UNCHANGED <<heap, todo>>

Operation(g) ==
  \/ \E b \in Blocks : \/ NewJSONData(g, b) \/ NewBinaryData(g, b) \/ NewBinaryAttribute(g, b)
                        \/ NewJSONSchemaValidator(g, b)
  \/ \E v \in values : EventData(g, v) \/ ValueBytes(g, v) \/ EventExtensions(g, v)
  \/ \E b \in Blocks, v \in values : NewEvent(g, b, v) \/ EncodeKafka(g, b, v)
                                    \/ FromCloudEvent(g, b, v)
  \/ \E k, b \in Blocks : DecodeKafka(g, k, b) \/ ToCloudEvent(g, k, b)

Step(g) ==
  \/ \E i \in todo[g] : Check(g, i) \/ \E b \in Blocks : Copy(g, i, b)
  \/ Return(g)

Caller ==
  \/ \E b \in Blocks, x \in Contents : CallerAllocates(b, x) \/ CallerWrites(b, x)
  \/ \E b \in Blocks : CallerDrops(b)
  \/ \E v \in values : ValueDropped(v)

Next == Caller \/ \E g \in Goroutines : Operation(g) \/ Step(g)

Spec == Init /\ [][Next]_vars

-----------------------------------------------------------------------------
TypeOK ==
  /\ heap \in [Blocks -> Contents]
  /\ mutable \subseteq Blocks
  /\ values \subseteq Ref
  /\ todo \in [Goroutines -> SUBSET Item]
  /\ made \in [Goroutines -> SUBSET Item]

\* No block of an immutable value is writable by a caller, whatever buffers
\* were handed in or out and in whatever order calls overlap (event.go,
\* attribute.go, kafka.go: every boundary copies).
ValuesAreIsolated == ValueBlocks \cap mutable = {}

\* A JSON data value holds valid JSON as long as it lives, although its syntax
\* was checked on the caller's buffer and the copy was made later.
JSONStaysValid ==
  \A v \in values : v.kind = "json" => heap[v.block] \in JSON

\* No step of anyone changes what a live value holds.
ContentsStay == \A v \in values : heap'[v.block] = heap[v.block]
ValuesNeverChange == [][ContentsStay]_vars

\* What no caller or value can see yet (a copy of append, cloneBytesPreservingNil
\* or maps.Clone not yet returned): a copy in progress shares its block
\* with nothing, and no two copies share a block.
CopiesAreUnshared ==
  /\ \A g \in Goroutines : \A i \in made[g] :
       i.block \notin mutable \cup ValueBlocks \cup TodoBlocks
  /\ \A g, h \in Goroutines : \A i \in made[g], j \in made[h] :
       i.block = j.block => g = h /\ i = j

\* JSON that json.Valid accepted is still valid when it is copied, and so is the
\* copy (NewJSONData).
PendingJSONIsValid ==
  /\ \A g \in Goroutines : \A i \in todo[g] :
       i.kind = "json" /\ i.checked => heap[i.block] \in JSON
  /\ \A g \in Goroutines : \A i \in made[g] : i.kind = "json" => heap[i.block] \in JSON

\* The inductive strengthening of the properties above.
IInv ==
  /\ TypeOK
  /\ ValuesAreIsolated
  /\ CopiesAreUnshared
  /\ JSONStaysValid
  /\ PendingJSONIsValid

\* The values callers see, buffers and copies forgotten.
Values == INSTANCE ImmutableValues WITH live <- [v \in values |-> heap[v.block]]

\* To its callers the package is a store of immutable values: every interleaving
\* of checks, copies, returns and callers' writes looks like values that are
\* made, with valid JSON, and dropped (event.go: "immutable").
ImplementsValues == Values!Spec
=============================================================================
