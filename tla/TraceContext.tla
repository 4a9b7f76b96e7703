---------------------------- MODULE TraceContext ----------------------------
(***************************************************************************)
(* The grammar of the tracing extensions (extensions.go).  A string is the *)
(* sequence of its characters, one character for each class the code tells *)
(* apart; the lengths of the W3C grammar are parameters.                   *)
(*                                                                         *)
(* The code splits a whole value at its separators and then checks each    *)
(* part.  The reference reads a value from left to right: a traceparent by *)
(* position, a tracestate with an automaton whose step is the action Read. *)
(***************************************************************************)
EXTENDS Naturals, Sequences, FiniteSets, SequencesExt

CONSTANTS
  Alphabets,                                         \* the texts to read: [characters, MaxText, MaxDead]
  VersionBytes, TraceBytes, ParentBytes, FlagsBytes, \* 2, 32, 16, 2
  MaxStateBytes, MaxMembers,                         \* 512, 32
  MaxKeyBytes, MaxTenantBytes, MaxSystemBytes,       \* 256, 241, 14
  MaxValueBytes                                      \* 256

ASSUME TraceLengthAssumption ==
  {VersionBytes, TraceBytes, ParentBytes, FlagsBytes} \subseteq Nat \ {0}

ASSUME StateLengthAssumption ==
  /\ {MaxStateBytes, MaxKeyBytes, MaxTenantBytes, MaxSystemBytes, MaxValueBytes} \subseteq Nat
  /\ MaxMembers \in Nat \ {0}

LowerHexCharacters == {"0", "1", "f"}
LowerCase          == {"a", "f"}
Digits             == {"0", "1"}
KeyCharacters      == LowerCase \cup Digits \cup {"-"}
Blanks             == {" ", "tab"}
\* 0x20 to 0x7e without comma and equals sign; "ctl" is any other byte.
ValueCharacters    == KeyCharacters \cup {" ", "@", "X"}

Repeat(c, n) == [i \in 1..n |-> c]

-----------------------------------------------------------------------------
(* package strings, as the code uses it.                                    *)

Split(text, separator) ==
  LET cuts   == {0, Len(text) + 1} \cup {i \in DOMAIN text : text[i] = separator}
      cut(n) == CHOOSE i \in cuts : Cardinality({j \in cuts : j < i}) = n
  IN  [n \in 1..Cardinality(cuts) - 1 |-> SubSeq(text, cut(n - 1) + 1, cut(n) - 1)]

Trim(text) ==
  LET kept == {i \in DOMAIN text : text[i] \notin Blanks} IN
  IF kept = {} THEN <<>> ELSE SubSeq(text, Min(kept), Max(kept))

\* What is before and after the first separator.
Before(text, separator) == Split(text, separator)[1]
After(text, separator)  == SubSeq(text, Len(Before(text, separator)) + 2, Len(text))

-----------------------------------------------------------------------------
(* extensions.go.                                                           *)

lowerHex(text) == ToSet(text) \subseteq LowerHexCharacters
allZero(text)  == ToSet(text) \subseteq {"0"}

\* Mutant: a version 00 value may have more than four parts.
validTraceParentLonger(text) ==
  LET parts == Split(text, "-") IN
  /\ Len(parts) >= 4
  /\ [i \in 1..4 |-> Len(parts[i])] = <<VersionBytes, TraceBytes, ParentBytes, FlagsBytes>>
  /\ \A i \in DOMAIN parts : parts[i] # <<>> /\ lowerHex(parts[i])
  /\ parts[1] # Repeat("f", VersionBytes)
  /\ ~allZero(parts[2]) /\ ~allZero(parts[3])

validTraceParent(text) ==
  LET parts == Split(text, "-") IN
  /\ Len(parts) >= 4
  /\ [i \in 1..4 |-> Len(parts[i])] = <<VersionBytes, TraceBytes, ParentBytes, FlagsBytes>>
  /\ \A i \in DOMAIN parts : parts[i] # <<>> /\ lowerHex(parts[i])
  /\ parts[1] # Repeat("f", VersionBytes)
  /\ ~allZero(parts[2]) /\ ~allZero(parts[3])
  /\ parts[1] = Repeat("0", VersionBytes) => Len(parts) = 4

validTraceStateKeyPart(text) == ToSet(text) \subseteq KeyCharacters

validTraceStateKey(text) ==
  LET tenant == Before(text, "@")
      system == After(text, "@")
  IN  /\ text # <<>> /\ Len(text) <= MaxKeyBytes
      /\ IF ~Contains(text, "@") THEN text[1] \in LowerCase /\ validTraceStateKeyPart(text)
         ELSE /\ tenant # <<>> /\ Len(tenant) <= MaxTenantBytes
              /\ system # <<>> /\ Len(system) <= MaxSystemBytes
              /\ tenant[1] \in LowerCase \cup Digits /\ system[1] \in LowerCase
              /\ validTraceStateKeyPart(tenant) /\ validTraceStateKeyPart(system)

validTraceStateValue(text) ==
  /\ text # <<>> /\ Len(text) <= MaxValueBytes
  /\ Last(text) # " "
  /\ ToSet(text) \subseteq ValueCharacters

tooManyMembers(members) == Len(members) > MaxMembers

\* Mutant: keys are compared before they are trimmed.
duplicateKeysUntrimmed(members) ==
  \E i, j \in DOMAIN members : i < j /\ Before(members[i], "=") = Before(members[j], "=")

duplicateKeys(members) ==
  \E i, j \in DOMAIN members : i < j /\ Before(Trim(members[i]), "=") = Before(Trim(members[j]), "=")

validTraceState(text) ==
  LET members == Split(text, ",") IN
  /\ text # <<>> /\ Len(text) <= MaxStateBytes
  /\ text[1] \notin Blanks /\ Last(text) \notin Blanks
  /\ ~tooManyMembers(members)
  /\ \A i \in DOMAIN members :
       LET member == Trim(members[i]) IN
       /\ Contains(member, "=")
       /\ validTraceStateKey(Before(member, "="))
       /\ validTraceStateValue(After(member, "="))
  /\ ~duplicateKeys(members)

-----------------------------------------------------------------------------
(* The reference.                                                           *)

\* Where the dashes of a traceparent are, and where its mandatory part ends.
dashes == {VersionBytes + 1, VersionBytes + TraceBytes + 2,
           VersionBytes + TraceBytes + ParentBytes + 3}
base   == VersionBytes + TraceBytes + ParentBytes + FlagsBytes + 3

TraceParent(text) ==
  LET all(from, to, c) == \A i \in from..to : text[i] = c
      trace  == VersionBytes + 2
      parent == trace + TraceBytes + 1
  IN  /\ Len(text) >= base
      /\ \A i \in 1..base : text[i] \in IF i \in dashes THEN {"-"} ELSE LowerHexCharacters
      /\ ~all(1, VersionBytes, "f")
      /\ ~all(trace, trace + TraceBytes - 1, "0") /\ ~all(parent, parent + ParentBytes - 1, "0")
      /\ Len(text) > base =>
           /\ ~all(1, VersionBytes, "0")
           /\ text[base + 1] = "-" /\ Last(text) # "-"
           /\ \A i \in base + 1..Len(text) : text[i] \in LowerHexCharacters \cup {"-"}
           /\ \A i \in base + 1..Len(text) - 1 : text[i] = "-" => text[i + 1] # "-"

VARIABLES
  alphabet,  \* the characters of the text, and the bounds on its length
             \* and on what follows a prefix no tracestate has
  text,      \* what has been read
  scan       \* the automaton: [phase, key, system, value, blanks, keys, dead]

traceVars == <<alphabet, text, scan>>

Start == [phase |-> "start", key |-> <<>>, system |-> 0, value |-> 0, blanks |-> 0,
          keys |-> {}, dead |-> 0]

TraceInit == alphabet \in Alphabets /\ text = <<>> /\ scan = Start

Dead == [scan EXCEPT !.phase = "dead", !.dead = @ + 1]

\* Before a member: blanks, though not at the very start, or the key begins.
InStart(c) ==
  IF c \in Blanks /\ text # <<>> THEN scan
  ELSE IF c \in LowerCase \cup Digits /\ MaxKeyBytes > 0
  THEN [scan EXCEPT !.phase = "key", !.key = <<c>>]
  ELSE Dead

longer(c, phase) ==
  IF Len(scan.key) < MaxKeyBytes
  THEN [scan EXCEPT !.phase = phase, !.key = Append(@, c)] ELSE Dead

beginValue ==
  IF scan.key \in scan.keys THEN Dead
  ELSE [scan EXCEPT !.phase = "value", !.keys = @ \cup {scan.key}, !.value = 0, !.blanks = 0]

InKey(c) ==
  CASE c \in KeyCharacters -> longer(c, "key")
    [] c = "@" /\ Len(scan.key) <= MaxTenantBytes -> [longer(c, "system") EXCEPT !.system = 0]
    [] c = "=" /\ scan.key[1] \in LowerCase -> beginValue
    [] OTHER -> Dead

InSystem(c) ==
  CASE c \in (IF scan.system = 0 THEN LowerCase ELSE KeyCharacters) /\ scan.system < MaxSystemBytes ->
         [longer(c, "system") EXCEPT !.system = @ + 1]
    [] c = "=" /\ scan.system > 0 -> beginValue
    [] OTHER -> Dead

\* Blanks belong to the value only if more of it follows; a tab never does.
InValue(c) ==
  CASE c = "," /\ scan.value > 0 /\ Cardinality(scan.keys) < MaxMembers -> [scan EXCEPT !.phase = "start"]
    [] c = " " -> [scan EXCEPT !.blanks = @ + 1]
    [] c = "tab" /\ scan.value > 0 -> [scan EXCEPT !.phase = "tail"]
    [] c \in ValueCharacters \ {" "} /\ scan.value + scan.blanks < MaxValueBytes ->
         [scan EXCEPT !.value = @ + scan.blanks + 1, !.blanks = 0]
    [] OTHER -> Dead

InTail(c) ==
  CASE c \in Blanks -> scan
    [] c = "," /\ Cardinality(scan.keys) < MaxMembers -> [scan EXCEPT !.phase = "start"]
    [] OTHER -> Dead

Read(c) ==
  /\ Len(text) < alphabet.MaxText /\ scan.dead < alphabet.MaxDead
  /\ UNCHANGED alphabet
  /\ text' = Append(text, c)
  /\ scan' = CASE scan.phase = "start"  -> InStart(c)
               [] scan.phase = "key"    -> InKey(c)
               [] scan.phase = "system" -> InSystem(c)
               [] scan.phase = "value"  -> InValue(c)
               [] scan.phase = "tail"   -> InTail(c)
               [] OTHER                 -> Dead

TraceNext == \E c \in alphabet.characters : Read(c)

TraceSpec == TraceInit /\ [][TraceNext]_traceVars

TraceState ==
  /\ scan.phase = "value" /\ scan.value > 0 /\ scan.blanks = 0
  /\ Len(text) <= MaxStateBytes

-----------------------------------------------------------------------------
(* Properties.                                                              *)

\* Splitting at dashes and checking the parts accepts exactly the values that
\* have the right character at every position (validTraceParent).
ParentAgrees == validTraceParent(text) <=> TraceParent(text)

\* Splitting, trimming and cutting accepts exactly what one pass over the value
\* accepts, duplicates, blanks and every length included (validTraceState).
StateAgrees == validTraceState(text) <=> TraceState
=============================================================================
