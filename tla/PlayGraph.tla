----------------------------- MODULE PlayGraph -----------------------------
(***************************************************************************)
(* The cyclic play graph: what a validated playbook is, when one of a      *)
(* node's ports fires, and which node a team's cursor holds after a scan   *)
(* (zoomieball-core/src/playbook/mod.rs and scan.rs).  The module has no   *)
(* variables: every operator takes the graph state and the world it reads  *)
(* as arguments, in the code's own parameter order.                        *)
(*                                                                         *)
(* A port is numbered from 1 here and from 0 in the code.  Q16.16 operands *)
(* (ball coordinates, coach logits, gates) are integers on a coarser grid: *)
(* a scan only ever compares them.                                         *)
(***************************************************************************)
EXTENDS Integers, Sequences

CONSTANTS
  Playbook,         \* node index -> [edges: sequence of [to, trigger], coachGate]
  PortCount,        \* ports a scan visits, and the most a node declares (8)
  PossessionTicks,  \* ticks a touch counts as possession (30)
  CoachInterval     \* body ticks between two coach pulses (4)

Team == {"zero", "one"}
NoTeam == "none"

Opponent(team) == IF team = "zero" THEN "one" ELSE "zero"

(* Sign carrying a team-zero coordinate into the team's attacking frame.   *)
Mirror(team) == IF team = "zero" THEN 1 ELSE -1

Node == DOMAIN Playbook
Port == 1 .. PortCount

TriggerKind == {"Always", "Elapsed", "BallPast", "BallBehind", "BallAloft",
                "Possession", "Lead", "CoachEdge"}

PlayEdge == [to : Node, trigger : [kind : TriggerKind, operand : Int]]

(* Relation of the latest toucher to the resolving team; the enum's own    *)
(* discriminants, so that every trigger operand is an integer.             *)
Teammate == 0
Opposing == 1
Neutral  == 2

(***************************************************************************)
(* What compile_ron accepts, as far as traversal depends on it: nodes are  *)
(* numbered from zero, each declares one to eight ports, the last port is  *)
(* Always, no edge dangles, and an Elapsed operand is unsigned.            *)
(***************************************************************************)
ValidNode(node) ==
  LET edges == Playbook[node].edges
  IN  /\ edges \in Seq(PlayEdge)
      /\ Len(edges) \in 1 .. PortCount
      /\ edges[Len(edges)].trigger.kind = "Always"
      /\ \A port \in 1 .. Len(edges) :
           edges[port].trigger.kind = "Elapsed" => edges[port].trigger.operand \in Nat
      /\ Playbook[node].coachGate \in Int

ValidPlaybook ==
  /\ 0 \in Node
  /\ Node \subseteq Nat
  /\ \A node \in Node : ValidNode(node)

ASSUME PlaybookAssumption == ValidPlaybook
ASSUME ScheduleAssumption ==
  /\ PortCount \in Nat \ {0}
  /\ PossessionTicks \in Nat \ {0}
  /\ CoachInterval \in Nat \ {0, 1}

-----------------------------------------------------------------------------

(* u64::saturating_sub *)
SaturatingSub(a, b) == IF a >= b THEN a - b ELSE 0

(* Relation of the game ball's most recent toucher to the team: neutral    *)
(* when there is none or the touch is out of the window.                   *)
Possession(team, graph, tick) ==
  IF \/ graph.toucher = NoTeam
     \/ SaturatingSub(tick, graph.touched) >= PossessionTicks
  THEN Neutral
  ELSE IF graph.toucher = team THEN Teammate ELSE Opposing

(* A coach edge reads the standing logits only on the tick after a pulse,  *)
(* so that one pulse cannot drive several transitions.                     *)
PulseNeverSpent(tick) == TRUE
PulseSpendable(tick) == tick % CoachInterval = 1

(* A port past the declared count is false. *)
PortFires(node, port, team, graph, world, logits) ==
  LET edges     == Playbook[node].edges
      trigger   == edges[port].trigger
      attacking == world.ball.x * Mirror(team)
      lead      == world.scores[team] - world.scores[Opponent(team)]
  IN  /\ port \in 1 .. Len(edges)
      /\ \/ trigger.kind = "Always"
         \/ /\ trigger.kind = "Elapsed"
            /\ SaturatingSub(world.tick, graph.entered[team]) >= trigger.operand
         \/ trigger.kind = "BallPast"   /\ attacking >= trigger.operand
         \/ trigger.kind = "BallBehind" /\ attacking <= trigger.operand
         \/ trigger.kind = "BallAloft"  /\ world.ball.z >= trigger.operand
         \/ /\ trigger.kind = "Possession"
            /\ Possession(team, graph, world.tick) = trigger.operand
         \/ trigger.kind = "Lead" /\ lead >= trigger.operand
         \/ /\ trigger.kind = "CoachEdge"
            /\ PulseSpendable(world.tick)
            /\ logits[port] > Playbook[node].coachGate

FiringPorts(node, team, graph, world, logits) ==
  {port \in Port : PortFires(node, port, team, graph, world, logits)}

First(ports) == CHOOSE port \in ports : \A other \in ports : port <= other

(* First true port wins; the cursor stays where no port fires.             *)
NextCursor(node, team, graph, world, logits) ==
  LET fired == FiringPorts(node, team, graph, world, logits)
  IN  IF fired = {} THEN node ELSE Playbook[node].edges[First(fired)].to

(* Ports a caller may follow by hand: Playbook::traverse answers Some.     *)
TraversablePort(node) == DOMAIN Playbook[node].edges

TraverseOffByOne(node, port) == Playbook[node].edges[port].to + 1

Traverse(node, port) == Playbook[node].edges[port].to

-----------------------------------------------------------------------------

(* Notions the properties of a match are stated with. *)

(* An Elapsed port that no earlier port shadows with a way back to its own *)
(* node is an escape hatch.                                                *)
EscapePort(node, port) ==
  LET edges == Playbook[node].edges
  IN  /\ port \in DOMAIN edges
      /\ edges[port].trigger.kind = "Elapsed"
      /\ \A earlier \in 1 .. port : edges[earlier].to # node

EscapeTicks(node, port) ==
  LET ticks == Playbook[node].edges[port].trigger.operand
  IN  IF ticks > 0 THEN ticks ELSE 1

(* A set of nodes no edge leaves. *)
EdgeClosed(nodes) ==
  \A node \in nodes : \A port \in DOMAIN Playbook[node].edges :
    Playbook[node].edges[port].to \in nodes

=============================================================================
