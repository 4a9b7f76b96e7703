------------------------------- MODULE MCTrace -------------------------------
(* Texts for TraceContext: one alphabet for each part of the grammar.         *)
EXTENDS TraceContext

Texts(characters, length, dead) ==
  [characters |-> characters, MaxText |-> length, MaxDead |-> dead]

\* Every traceparent a little longer than its mandatory part; tracestates with
\* blanks, tenants and bytes outside the grammar; and tracestates with one
\* member too many.
MCAlphabets ==
  {Texts({"0", "f", "-", "X"}, 10, 10),
   Texts({"a", "0", "@", "=", ",", " ", "tab", "ctl"}, 10, 3),
   Texts({"a", "f", "=", ","}, 13, 4)}
=============================================================================
