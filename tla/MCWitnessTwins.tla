--------------------------- MODULE MCWitnessTwins ---------------------------
(* Two nodes that assign bodies alike; the second is left by its clock.    *)
EXTENDS WitnessTwins, TLC

Edge(to, kind, operand) == [to |-> to, trigger |-> [kind |-> kind, operand |-> operand]]

Hatch ==
  (0 :> [edges |-> <<Edge(0, "Always", 0)>>, coachGate |-> 0]) @@
  (1 :> [edges |-> <<Edge(0, "Elapsed", 2), Edge(1, "Always", 0)>>, coachGate |-> 0])

Untouched == {"untouched"}
SilentCoach == {[team \in {"zero", "one"} |-> [port \in 1 .. PortCount |-> 0]]}
Still == {0}

=============================================================================
