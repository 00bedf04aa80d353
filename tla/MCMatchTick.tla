---------------------------- MODULE MCMatchTick ----------------------------
(* Small playbooks and inputs with which TLC checks MatchTick.             *)
EXTENDS MatchTick, TLC

Edge(to, kind, operand) == [to |-> to, trigger |-> [kind |-> kind, operand |-> operand]]
NodeOf(edges, gate) == [edges |-> edges, coachGate |-> gate]

(* assets/default-playbook.ron in small (press, recover; a lead is also    *)
(* sat out), and a third node with an escape hatch that no edge leads to:  *)
(* only the player reaches it.                                             *)
PressRecover ==
  (0 :> NodeOf(<<Edge(1, "BallBehind", -1), Edge(1, "Lead", 1), Edge(0, "Always", 0)>>, 0)) @@
  (1 :> NodeOf(<<Edge(0, "BallPast", 1), Edge(0, "Elapsed", 3), Edge(1, "Always", 0)>>, 0)) @@
  (2 :> NodeOf(<<Edge(0, "BallAloft", 1), Edge(1, "Elapsed", 0), Edge(2, "Always", 0)>>, 0))

(* Coach edges chained, so that one pulse could drive a team through all   *)
(* three nodes, and ports with distinct logits.                            *)
CoachChain ==
  (0 :> NodeOf(<<Edge(1, "CoachEdge", 0), Edge(0, "Always", 0)>>, 0)) @@
  (1 :> NodeOf(<<Edge(0, "Elapsed", 3), Edge(2, "CoachEdge", 0), Edge(1, "Always", 0)>>, 0)) @@
  (2 :> NodeOf(<<Edge(0, "CoachEdge", 0), Edge(2, "Always", 0)>>, 1))

(* Every trigger the clock decides, a coach edge beside them, and a window *)
(* whose end is noticed on that very tick.                                 *)
Fortunes ==
  (0 :> NodeOf(<<Edge(1, "Possession", Teammate), Edge(2, "CoachEdge", 0), Edge(0, "Always", 0)>>, 0)) @@
  (1 :> NodeOf(<<Edge(0, "Possession", Opposing), Edge(2, "Possession", Neutral),
                 Edge(1, "Always", 0)>>, 0)) @@
  (2 :> NodeOf(<<Edge(1, "Elapsed", 2), Edge(0, "Possession", Teammate), Edge(2, "Always", 0)>>, 0))

(* Nowhere to go. *)
Lone == 0 :> NodeOf(<<Edge(0, "Always", 0)>>, 0)

Motion    == {-1, 0, 1}
Strides   == {-1, 1}
Still     == {0}
Ground    == {0}
Raised    == {0, 1}
Untouched == {NoTouch}
AnyTouch  == Team \cup {NoTouch, Contested}

Lanes(first, second) == [port \in Port |-> IF port = 1 THEN first ELSE second]
SilentCoach == {[team \in Team |-> Lanes(0, 0)]}
EchoingCoach == {[team \in Team |-> Lanes(0, answer)] : answer \in {0, 1}}
AnyCoach ==
  {[team \in Team |-> IF team = "zero" THEN Lanes(a, b) ELSE Lanes(c, d)] :
     a, c \in {0, 1, 2}, b, d \in {0, 1}}

=============================================================================
