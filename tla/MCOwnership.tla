---------------------------- MODULE MCOwnership -----------------------------
(* Ownership on a heap of a few blocks.                                     *)
EXTENDS Ownership, TLC

\* Allocation never waits in Go.  On this small heap it can, when every block
\* is in use by a call; such a state stutters.
HeapExhausted ==
  /\ \A b \in Blocks : ~Fresh(b)
  /\ UNCHANGED vars

MCNext == Next \/ HeapExhausted

MCSpec == Init /\ [][MCNext]_vars

\* Goroutines and blocks are interchangeable, and every property is a safety
\* property.
Symmetry == Permutations(Goroutines) \cup Permutations(Blocks)
=============================================================================
