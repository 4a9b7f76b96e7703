-------------------------- MODULE ImmutableValues ---------------------------
(***************************************************************************)
(* What the package promises of Data, Attribute and Event: values come     *)
(* into being with some contents, keep exactly these contents for as long  *)
(* as they live, and go away.  JSON data is valid JSON from the start.     *)
(* There are no buffers, copies or goroutines here.                        *)
(***************************************************************************)
CONSTANT JSON   \* the contents that are valid JSON

VARIABLE live   \* by live value, its contents

Init == live = [v \in {} |-> {}]

\* One call may bring several values into being.
Make ==
  /\ DOMAIN live \subseteq DOMAIN live'
  /\ \A v \in DOMAIN live : live'[v] = live[v]
  /\ \A v \in DOMAIN live' \ DOMAIN live : v.kind = "json" => live'[v] \in JSON

Drop(v) == live' = [w \in DOMAIN live \ {v} |-> live[w]]

Next == Make \/ \E v \in DOMAIN live : Drop(v)

Spec == Init /\ [][Next]_live
=============================================================================
