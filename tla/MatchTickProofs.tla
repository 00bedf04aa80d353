-------------------------- MODULE MatchTickProofs --------------------------
(***************************************************************************)
(* What holds of a match for every playbook, schedule and input.  Each     *)
(* invariant is shown to hold initially and to be preserved by every       *)
(* action; TypeOK is available in every step.                              *)
(***************************************************************************)
EXTENDS AskedPath, NaturalLemmas, SequenceTheorems

(* The port a scan takes fires, and no earlier port does. *)
LEMMA FirstIsLeast ==
  ASSUME NEW ports \in SUBSET Port, ports # {}
  PROVE  /\ First(ports) \in ports
         /\ \A port \in ports : First(ports) <= port
<1>1. ports \in SUBSET Nat
  BY DEF Port
<1>2. \E m \in ports : \A k \in ports : m <= k
  BY <1>1, LeastElement
<1> QED
  BY <1>2 DEF First

(* The shape of a validated node's ports. *)
LEMMA NodeShape ==
  ASSUME NEW node \in Node
  PROVE  /\ Len(Playbook[node].edges) \in 1 .. PortCount
         /\ DOMAIN Playbook[node].edges = 1 .. Len(Playbook[node].edges)
         /\ \A port \in 1 .. Len(Playbook[node].edges) : Playbook[node].edges[port].to \in Node
         /\ Playbook[node].edges[Len(Playbook[node].edges)].trigger.kind = "Always"
<1> DEFINE edges == Playbook[node].edges
<1>1. ValidNode(node)
  BY PlaybookAssumption DEF ValidPlaybook
<1>2. edges \in Seq(PlayEdge)
  BY <1>1 DEF ValidNode
<1>3. Len(edges) \in 1 .. PortCount /\ edges[Len(edges)].trigger.kind = "Always"
  BY <1>1 DEF ValidNode
<1>4. DOMAIN edges = 1 .. Len(edges)
  BY <1>2
<1>5. \A port \in 1 .. Len(edges) : edges[port].to \in Node
  <2>1. \A port \in 1 .. Len(edges) : edges[port] \in PlayEdge
    BY <1>2
  <2> QED
    BY <2>1 DEF PlayEdge
<1> QED
  BY <1>3, <1>4, <1>5

(* Some port of a validated node always fires: the fallback that keeps the *)
(* cursor without a firing port (scan.rs, next_cursor) is never taken.     *)
LEMMA SomePortFires ==
  ASSUME NEW node \in Node, NEW team, NEW graph, NEW w, NEW logits
  PROVE  /\ FiringPorts(node, team, graph, w, logits) \in SUBSET Port
         /\ FiringPorts(node, team, graph, w, logits) # {}
<1> DEFINE last == Len(Playbook[node].edges)
<1>1. last \in Port /\ last \in 1 .. last
  BY NodeShape, ScheduleAssumption DEF Port
<1>2. PortFires(node, last, team, graph, w, logits)
  BY <1>1, NodeShape DEF PortFires
<1> QED
  BY <1>1, <1>2 DEF FiringPorts

(* A scan follows one declared edge, and no port before it fires. *)
LEMMA ScanFollowsEdge ==
  ASSUME NEW node \in Node, NEW team, NEW graph, NEW w, NEW logits
  PROVE  \E port \in 1 .. Len(Playbook[node].edges) :
           /\ PortFires(node, port, team, graph, w, logits)
           /\ NextCursor(node, team, graph, w, logits) = Playbook[node].edges[port].to
           /\ \A other \in Port :
                PortFires(node, other, team, graph, w, logits) => port <= other
<1> DEFINE fired == FiringPorts(node, team, graph, w, logits)
<1>1. fired \in SUBSET Port /\ fired # {}
  BY SomePortFires
<1>2. First(fired) \in fired /\ \A port \in fired : First(fired) <= port
  BY <1>1, FirstIsLeast
<1>3. PortFires(node, First(fired), team, graph, w, logits)
  BY <1>2 DEF FiringPorts
<1>4. First(fired) \in 1 .. Len(Playbook[node].edges)
  BY <1>3 DEF PortFires
<1>5. NextCursor(node, team, graph, w, logits) = Playbook[node].edges[First(fired)].to
  BY <1>1 DEF NextCursor
<1>6. \A other \in Port : PortFires(node, other, team, graph, w, logits) => other \in fired
  BY DEF FiringPorts
<1> QED
  BY <1>2, <1>3, <1>4, <1>5, <1>6

(* A cursor scanned off a node of the playbook lands on a node of the      *)
(* playbook: indexing nodes()[cursor] cannot go out of range.              *)
THEOREM ScanStaysInPlaybook ==
  ASSUME NEW node \in Node, NEW team, NEW graph, NEW w, NEW logits
  PROVE  NextCursor(node, team, graph, w, logits) \in Node
BY ScanFollowsEdge, NodeShape

(* A due escape hatch is taken: its port, or an earlier one that leads     *)
(* elsewhere too, moves the cursor off the node.                           *)
LEMMA EscapeIsTaken ==
  ASSUME NEW node \in Node, NEW port \in Port, NEW team, NEW graph, NEW w, NEW logits,
         EscapePort(node, port),
         PortFires(node, port, team, graph, w, logits)
  PROVE  NextCursor(node, team, graph, w, logits) # node
<1>1. PICK taken \in 1 .. Len(Playbook[node].edges) :
        /\ NextCursor(node, team, graph, w, logits) = Playbook[node].edges[taken].to
        /\ taken <= port
  BY ScanFollowsEdge
<1>2. taken \in 1 .. port
  BY <1>1, NodeShape DEF Port
<1> QED
  BY <1>1, <1>2 DEF EscapePort

-----------------------------------------------------------------------------

(* Where a tick sends each cursor. *)
LEMMA NextNodeInPlaybook ==
  ASSUME TypeOK, NEW team \in Team
  PROVE  NextNode(team) \in Node
<1>1. cursors[team] \in Node
  BY DEF TypeOK
<1>2. NextCursor(cursors[team], team, graphState, world, edgeLogits[team]) \in Node
  BY <1>1, ScanStaysInPlaybook
<1> QED
  BY <1>2 DEF NextNode, TypeOK

(* One substep keeps the ball off the goal lines; it moves it by the push, *)
(* or to the centre when the push ends on a goal line.                     *)
LEMMA SubstepMoves ==
  ASSUME NEW x \in Int, x > -GoalLine, x < GoalLine, NEW push \in Pushes
  PROVE  LET step == Substep(x, push)
         IN  /\ step.x \in Int /\ step.x > -GoalLine /\ step.x < GoalLine
             /\ step.progress = push /\ push \in {-1, 0, 1}
             /\ \/ step.scorer = NoTeam /\ step.x = x + push
                \/ step.scorer = "zero" /\ step.x = 0 /\ x + push = GoalLine
                \/ step.scorer = "one" /\ step.x = 0 /\ x + push = -GoalLine
<1>1. push \in {-1, 0, 1} /\ GoalLine \in Nat \ {0, 1}
  BY MatchAssumption
<1>2. \/ Scorer(x + push) = NoTeam /\ x + push > -GoalLine /\ x + push < GoalLine
      \/ Scorer(x + push) = "zero" /\ x + push = GoalLine
      \/ Scorer(x + push) = "one" /\ x + push = -GoalLine
  BY <1>1 DEF Scorer, NoTeam
<1> QED
  BY <1>1, <1>2 DEF Substep, NoTeam

LEMMA ScoredType ==
  ASSUME NEW scores \in [Team -> 0 .. ScoreLimit], NEW scorer
  PROVE  Scored(scores, scorer) \in [Team -> 0 .. ScoreLimit]
BY MatchAssumption DEF Scored, SaturatingInc

(* What one tick's physics can do to the ball and the score. *)
LEMMA PhysicsStepType ==
  ASSUME TypeOK, NEW pushes \in [Substeps -> Pushes], NEW height \in Heights
  PROVE  LET events == PhysicsStep(pushes, height)
         IN  /\ events.ball \in [x : Int, z : Int]
             /\ events.ball.x > -GoalLine /\ events.ball.x < GoalLine
             /\ events.scores \in [Team -> 0 .. ScoreLimit]
             /\ events.progress = pushes[1] + pushes[2]
             /\ events.progress \in Int
<1> DEFINE events == PhysicsStep(pushes, height)
           first == Substep(world.ball.x, pushes[1])
           second == Substep(first.x, pushes[2])
<1>1. /\ world.ball.x \in Int /\ world.ball.x > -GoalLine /\ world.ball.x < GoalLine
      /\ world.scores \in [Team -> 0 .. ScoreLimit] /\ height \in Int
  BY MatchAssumption DEF TypeOK
<1>2. pushes[1] \in Pushes /\ pushes[2] \in Pushes
  BY DEF Substeps
<1>3. first.x \in Int /\ first.x > -GoalLine /\ first.x < GoalLine /\ first.progress = pushes[1]
  BY <1>1, <1>2, SubstepMoves
<1> HIDE DEF first
<1>4. second.x \in Int /\ second.x > -GoalLine /\ second.x < GoalLine /\ second.progress = pushes[2]
  BY <1>2, <1>3, SubstepMoves
<1>5. pushes[1] + pushes[2] \in Int
  <2>1. pushes[1] \in {-1, 0, 1} /\ pushes[2] \in {-1, 0, 1}
    BY <1>2, MatchAssumption
  <2> QED
    BY <2>1
<1>6. Scored(Scored(world.scores, first.scorer), second.scorer) \in [Team -> 0 .. ScoreLimit]
  BY <1>1, ScoredType
<1> HIDE DEF second
<1>7. events = [ball     |-> [x |-> second.x, z |-> IF second.scorer = NoTeam THEN height ELSE 0],
                scores   |-> Scored(Scored(world.scores, first.scorer), second.scorer),
                progress |-> first.progress + second.progress,
                scorer   |-> IF first.scorer # NoTeam THEN first.scorer ELSE second.scorer]
  BY DEF PhysicsStep, first, second
<1> HIDE DEF events
<1>8. /\ events.ball = [x |-> second.x, z |-> IF second.scorer = NoTeam THEN height ELSE 0]
      /\ events.scores = Scored(Scored(world.scores, first.scorer), second.scorer)
      /\ events.progress = first.progress + second.progress
  BY <1>7
<1>9. events.ball \in [x : Int, z : Int] /\ events.ball.x = second.x
  BY <1>1, <1>4, <1>8
<1>10. events.progress = pushes[1] + pushes[2]
  BY <1>3, <1>4, <1>8
<1> QED
  BY <1>4, <1>5, <1>6, <1>8, <1>9, <1>10 DEF events

LEMMA AccumulateType ==
  ASSUME NEW reward \in Reward, NEW team \in Team, NEW events, events.progress \in Int
  PROVE  Accumulate(reward, team, events) \in Reward
BY DEF Accumulate, Reward, Mirror

(* Every reachable state is well formed; in particular no cursor and no    *)
(* latched override ever leaves the playbook, so that nodes()[cursor] and  *)
(* the port scan never index out of range (pipeline.rs, tick).             *)
THEOREM TypeCorrect == Spec => []TypeOK
<1>1. Init => TypeOK
  <2> SUFFICES ASSUME Init PROVE TypeOK
    OBVIOUS
  <2>1. 0 \in Node
    BY PlaybookAssumption DEF ValidPlaybook
  <2> QED
    BY <2>1, MatchAssumption DEF Init, TypeOK, NoReward, Reward
<1>2. TypeOK /\ [Next]_vars => TypeOK'
  <2> SUFFICES ASSUME TypeOK, [Next]_vars PROVE TypeOK'
    OBVIOUS
  <2>1. ASSUME NEW node \in Node, SelectPlayNode(node) PROVE TypeOK'
    BY <2>1 DEF SelectPlayNode, TypeOK
  <2>2. ASSUME NEW port \in Port, TraversePlay(port) PROVE TypeOK'
    <3>1. TraverseSource \in Node
      BY DEF TypeOK, TraverseSource, Team
    <3>2. pendingPlayNode' \in Node
      BY <2>2, <3>1, NodeShape DEF TraversePlay, Traverse, TraversablePort
    <3> QED
      BY <2>2, <3>2 DEF TraversePlay, TypeOK
  <2>3. ASSUME NEW pushes \in [Substeps -> Pushes], NEW height \in Heights, NEW touch \in Touches,
               Tick(pushes, height, touch)
        PROVE  TypeOK'
    <3> DEFINE events == PhysicsStep(pushes, height)
               accumulated == [team \in Team |-> Accumulate(rewards[team], team, events)]
    <3>1. /\ events.ball \in [x : Int, z : Int]
          /\ events.ball.x > -GoalLine /\ events.ball.x < GoalLine
          /\ events.scores \in [Team -> 0 .. ScoreLimit]
          /\ events.progress \in Int
      BY PhysicsStepType, MatchAssumption
    <3>2. /\ world' \in [tick : Nat, ball : [x : Int, z : Int], scores : [Team -> 0 .. ScoreLimit]]
          /\ world'.ball.x > -GoalLine /\ world'.ball.x < GoalLine
          /\ world'.tick = world.tick + 1 /\ world.tick \in Nat
      BY <2>3, <3>1 DEF Tick, TypeOK
    <3>3. cursors' \in [Team -> Node]
      BY <2>3, NextNodeInPlaybook DEF Tick, Enter
    <3>4. /\ graphState' \in [entered : [Team -> Nat], touched : Nat, toucher : Team \cup {NoTeam}]
          /\ \A team \in Team : graphState'.entered[team] <= world'.tick
      BY <2>3, <3>2 DEF Tick, Enter, TypeOK, NextEntered, NextTouch
    <3>5. pendingPlayNode' \in Node \cup {NoNode}
      BY <2>3 DEF Tick, Enter
    <3>6. /\ edgeLogits' \in [Team -> [Port -> Int]]
          /\ pulse' \in [tick : Nat \cup {NoTick}, nodes : [Team -> Node]]
      BY <2>3, <3>2, <3>3, MatchAssumption DEF Tick, Act, TypeOK
    <3>7. accumulated \in [Team -> Reward]
      BY <3>1, AccumulateType DEF TypeOK
    <3>8. rewards' \in [Team -> Reward] /\ paid' \in [Team -> Reward]
      <4> HIDE DEF accumulated
      <4>1. Learn(accumulated)
        BY <2>3 DEF Tick, accumulated
      <4> QED
        BY <3>7, <4>1 DEF Learn, NoReward, Reward, TypeOK
    <3>9. touchedAt' \in [Team -> Nat \cup {NoTick}]
      BY <2>3, <3>2 DEF Tick, Enter, TypeOK
    <3>10. movedAt' \in [Team -> Nat]
      BY <2>3, <3>2 DEF Tick, Enter, TypeOK
    <3> QED
      BY <3>2, <3>3, <3>4, <3>5, <3>6, <3>8, <3>9, <3>10 DEF TypeOK
  <2>4. CASE UNCHANGED vars
    BY <2>4 DEF vars, TypeOK
  <2> QED
    BY <2>1, <2>2, <2>3, <2>4 DEF Next
<1> QED
  BY <1>1, <1>2, PTL DEF Spec

-----------------------------------------------------------------------------

(* A tick always scans the opponent's cursor. *)
LEMMA OpponentIsScanned ==
  ASSUME NEW pushes, NEW height, NEW touch, Tick(pushes, height, touch)
  PROVE  cursors'["one"] =
           NextCursor(cursors["one"], "one", graphState, world, edgeLogits["one"])
BY DEF Tick, Enter, NextNode, Team

(* Between ticks only the override latch changes. *)
LEMMA LatchingLeavesMatch ==
  ASSUME \/ \E node \in Node : SelectPlayNode(node)
         \/ \E port \in Port : TraversePlay(port)
         \/ UNCHANGED vars
  PROVE  UNCHANGED <<world, cursors, graphState, edgeLogits, rewards, pulse, paid,
                   touchedAt, movedAt>>
BY DEF SelectPlayNode, TraversePlay, vars

(* An entry clock names its cursor's last move, for every playbook and     *)
(* every sequence of overrides.                                            *)
THEOREM EntryClockFollowsCursor == Spec => []EntryClock
<1>1. Init => EntryClock
  BY DEF Init, EntryClock
<1>2. TypeOK /\ EntryClock /\ [Next]_vars => EntryClock'
  <2> SUFFICES ASSUME TypeOK, EntryClock, [Next]_vars PROVE EntryClock'
    OBVIOUS
  <2>1. CASE \/ \E n \in Node : SelectPlayNode(n)
             \/ \E p \in Port : TraversePlay(p)
             \/ UNCHANGED vars
    BY <2>1, LatchingLeavesMatch DEF EntryClock
  <2>2. ASSUME NEW pushes \in [Substeps -> Pushes], NEW height \in Heights, NEW touch \in Touches,
               Tick(pushes, height, touch)
        PROVE  EntryClock'
    <3>1. graphState'.entered = [team \in Team |-> NextEntered(team)]
      BY <2>2 DEF Tick, Enter
    <3>2. ASSUME NEW team \in Team PROVE movedAt'[team] = NextEntered(team)
      BY <2>2 DEF Tick, Enter, NextEntered, EntryClock
    <3>3. movedAt' = [team \in Team |-> movedAt'[team]]
      BY <2>2 DEF Tick, Enter
    <3> QED
      BY <3>1, <3>2, <3>3 DEF EntryClock
  <2> QED
    BY <2>1, <2>2 DEF Next
<1> QED
  BY <1>1, <1>2, TypeCorrect, PTL DEF Spec

(* The operand of an escape hatch is a tick count. *)
LEMMA EscapeOperand ==
  ASSUME NEW node \in Node, NEW port \in Port, EscapePort(node, port)
  PROVE  /\ port \in 1 .. Len(Playbook[node].edges)
         /\ Playbook[node].edges[port].trigger.operand \in Nat
         /\ EscapeTicks(node, port) >= 1
         /\ EscapeTicks(node, port) >= Playbook[node].edges[port].trigger.operand
         /\ EscapeTicks(node, port) \in Nat
<1>1. port \in 1 .. Len(Playbook[node].edges)
  BY NodeShape DEF EscapePort
<1>2. Playbook[node].edges[port].trigger.operand \in Nat
  BY <1>1, PlaybookAssumption DEF EscapePort, ValidPlaybook, ValidNode
<1> QED
  BY <1>1, <1>2 DEF EscapeTicks

(* A match started on any validated playbook never keeps the opponent on a *)
(* node longer than the node's escape hatch allows: holding a node through *)
(* its own Always port does not restart the Elapsed clock.                 *)
THEOREM DwellIsBounded == Spec => []DwellBounded
<1>1. Init => DwellBounded
  <2> SUFFICES ASSUME Init, NEW node \in Node, NEW port \in Port, EscapePort(node, port)
               PROVE  world.tick - movedAt["one"] <= EscapeTicks(node, port)
    BY DEF DwellBounded, Port
  <2> QED
    BY EscapeOperand DEF Init, Team
<1>2. TypeOK /\ EntryClock /\ DwellBounded /\ [Next]_vars => DwellBounded'
  <2> SUFFICES ASSUME TypeOK, EntryClock, DwellBounded, [Next]_vars,
                      NEW node \in Node, NEW port \in Port,
                      EscapePort(node, port), cursors'["one"] = node
               PROVE  world'.tick - movedAt'["one"] <= EscapeTicks(node, port)
    BY DEF DwellBounded, Port
  <2>1. CASE \/ \E n \in Node : SelectPlayNode(n)
             \/ \E p \in Port : TraversePlay(p)
             \/ UNCHANGED vars
    <3>1. UNCHANGED <<world, cursors, movedAt>>
      BY <2>1, LatchingLeavesMatch
    <3> QED
      BY <3>1 DEF DwellBounded, Port
  <2>2. ASSUME NEW pushes \in [Substeps -> Pushes], NEW height \in Heights, NEW touch \in Touches,
               Tick(pushes, height, touch)
        PROVE  world'.tick - movedAt'["one"] <= EscapeTicks(node, port)
    <3> DEFINE entered == graphState.entered["one"]
               operand == Playbook[node].edges[port].trigger.operand
    <3>1. world'.tick = world.tick + 1
      BY <2>2 DEF Tick
    <3>2. /\ world.tick \in Nat /\ entered \in Nat /\ entered <= world.tick
          /\ cursors["one"] \in Node
      BY DEF TypeOK, Team
    <3>3. movedAt["one"] = entered
      BY DEF EntryClock
    <3>4. movedAt'["one"] = IF cursors'["one"] # cursors["one"] THEN world.tick ELSE entered
      BY <2>2, <3>3 DEF Tick, Enter, Team
    <3>5. CASE cursors["one"] # node
      <4>1. movedAt'["one"] = world.tick
        BY <3>4, <3>5
      <4> QED
        BY <3>1, <3>2, <4>1, EscapeOperand
    <3>6. CASE cursors["one"] = node
      <4>1. movedAt'["one"] = entered
        BY <3>4, <3>6
      <4>2. ~ PortFires(node, port, "one", graphState, world, edgeLogits["one"])
        BY <2>2, <3>6, OpponentIsScanned, EscapeIsTaken
      <4>3. world.tick - entered < operand
        BY <3>2, <4>2, EscapeOperand DEF PortFires, EscapePort, SaturatingSub
      <4> QED
        BY <3>1, <3>2, <4>1, <4>3, EscapeOperand
    <3> QED
      BY <3>5, <3>6
  <2> QED
    BY <2>1, <2>2 DEF Next
<1> QED
  BY <1>1, <1>2, TypeCorrect, EntryClockFollowsCursor, PTL DEF Spec

(* No sequence of player overrides moves the opponent: team one only ever  *)
(* stands on nodes the edges reach from the opening node.                  *)
THEOREM OpponentStaysReachable == Spec => []OpponentReachable
<1>1. Init => OpponentReachable
  BY DEF Init, OpponentReachable, Team
<1>2. TypeOK /\ OpponentReachable /\ [Next]_vars => OpponentReachable'
  <2> SUFFICES ASSUME TypeOK, OpponentReachable, [Next]_vars,
                      NEW nodes \in SUBSET Node, 0 \in nodes, EdgeClosed(nodes)
               PROVE  cursors'["one"] \in nodes
    BY DEF OpponentReachable
  <2>0. cursors["one"] \in nodes
    BY DEF OpponentReachable
  <2>1. CASE \/ \E n \in Node : SelectPlayNode(n)
             \/ \E p \in Port : TraversePlay(p)
             \/ UNCHANGED vars
    BY <2>0, <2>1, LatchingLeavesMatch
  <2>2. ASSUME NEW pushes \in [Substeps -> Pushes], NEW height \in Heights, NEW touch \in Touches,
               Tick(pushes, height, touch)
        PROVE  cursors'["one"] \in nodes
    <3>1. cursors["one"] \in Node
      BY DEF TypeOK, Team
    <3>2. \E port \in 1 .. Len(Playbook[cursors["one"]].edges) :
            cursors'["one"] = Playbook[cursors["one"]].edges[port].to
      BY <2>2, <3>1, OpponentIsScanned, ScanFollowsEdge
    <3> QED
      BY <2>0, <3>1, <3>2, NodeShape DEF EdgeClosed
  <2> QED
    BY <2>1, <2>2 DEF Next
<1> QED
  BY <1>1, <1>2, TypeCorrect, PTL DEF Spec

-----------------------------------------------------------------------------

(* The latched touch pair tracks the two touch clocks. *)
LEMMA TouchClocksHold == Spec => []TouchClocks
<1>1. Init => TouchClocks
  BY DEF Init, TouchClocks, NoTick, NoTeam, Team
<1>2. TypeOK /\ TouchClocks /\ [Next]_vars => TouchClocks'
  <2> SUFFICES ASSUME TypeOK, TouchClocks, [Next]_vars PROVE TouchClocks'
    OBVIOUS
  <2>1. CASE \/ \E n \in Node : SelectPlayNode(n)
             \/ \E p \in Port : TraversePlay(p)
             \/ UNCHANGED vars
    BY <2>1, LatchingLeavesMatch DEF TouchClocks
  <2>2. ASSUME NEW pushes \in [Substeps -> Pushes], NEW height \in Heights, NEW touch \in Touches,
               Tick(pushes, height, touch)
        PROVE  TouchClocks'
    <3>1. world'.tick = world.tick + 1 /\ world.tick \in Nat
      BY <2>2 DEF Tick, TypeOK
    <3>2. /\ graphState'.touched = NextTouch(touch).touched
          /\ graphState'.toucher = NextTouch(touch).toucher
          /\ touchedAt' = [team \in Team |-> IF touch \in {team, Contested}
                                              THEN world.tick ELSE touchedAt[team]]
      BY <2>2 DEF Tick, Enter
    <3>3. touchedAt["zero"] \in Int /\ touchedAt["one"] \in Int
      BY DEF TypeOK, NoTick, Team
    <3>4. touch \in {"zero", "one", NoTouch, Contested}
      BY MatchAssumption DEF Team
    <3>5. CASE touch = NoTouch
      BY <3>1, <3>2, <3>3, <3>5
      DEF TouchClocks, NextTouch, NoTouch, Contested, Team, Opponent
    <3>6. CASE touch = Contested
      BY <3>1, <3>2, <3>3, <3>6
      DEF TouchClocks, NextTouch, NoTouch, Contested, NoTeam, Team, Opponent
    <3>7. CASE touch \in Team
      BY <3>1, <3>2, <3>3, <3>7
      DEF TouchClocks, NextTouch, NoTouch, Contested, NoTeam, Team, Opponent
    <3> QED
      BY <3>4, <3>5, <3>6, <3>7 DEF Team
  <2> QED
    BY <2>1, <2>2 DEF Next
<1> QED
  BY <1>1, <1>2, TypeCorrect, PTL DEF Spec

(* Both teams read the possession the touches of both teams define, for    *)
(* every window length: one latched (tick, team) pair is enough state.     *)
THEOREM PossessionIsFaithful == Spec => []PossessionAgrees
<1>1. TypeOK /\ TouchClocks => PossessionAgrees
  <2> SUFFICES ASSUME TypeOK, TouchClocks, NEW team \in Team
               PROVE  Possession(team, graphState, world.tick) =
                        IF HoldsBall(team) THEN Teammate
                        ELSE IF HoldsBall(Opponent(team)) THEN Opposing ELSE Neutral
    BY DEF PossessionAgrees
  <2> DEFINE toucher == graphState.toucher
             touched == graphState.touched
  <2>1. /\ world.tick \in Nat /\ touched \in Nat /\ toucher \in Team \cup {NoTeam}
        /\ touchedAt["zero"] \in Int /\ touchedAt["one"] \in Int
    BY DEF TypeOK, NoTick, Team
  <2>2. PossessionTicks \in Nat
    BY ScheduleAssumption
  <2>3. CASE toucher = NoTeam
    <3>1. ~ HoldsBall("zero") /\ ~ HoldsBall("one")
      BY <2>1, <2>3 DEF TouchClocks, HoldsBall, Opponent
    <3> QED
      BY <2>3, <3>1 DEF Possession, Team, Opponent
  <2>4. CASE toucher \in Team
    <3>1. touched < world.tick
      BY <2>4 DEF TouchClocks
    <3>2. ~ HoldsBall(Opponent(toucher))
      BY <2>1, <2>4 DEF TouchClocks, HoldsBall, Opponent, Team
    <3>3. HoldsBall(toucher) <=> world.tick - touched < PossessionTicks
      BY <2>1, <2>4 DEF TouchClocks, HoldsBall, Opponent, Team
    <3>4. SaturatingSub(world.tick, touched) = world.tick - touched
      BY <2>1, <3>1 DEF SaturatingSub
    <3>5. Possession(team, graphState, world.tick) =
            IF world.tick - touched >= PossessionTicks THEN Neutral
            ELSE IF toucher = team THEN Teammate ELSE Opposing
      BY <2>4, <3>4 DEF Possession, Team, NoTeam
    <3>6. toucher = team \/ (toucher = Opponent(team) /\ Opponent(toucher) = team)
      BY <2>4 DEF Team, Opponent
    <3> QED
      BY <2>1, <2>2, <3>2, <3>3, <3>5, <3>6
  <2> QED
    BY <2>1, <2>3, <2>4
<1> QED
  BY <1>1, TypeCorrect, TouchClocksHold, PTL

-----------------------------------------------------------------------------

LEMMA SuccessorPhase ==
  ASSUME NEW d \in Nat \ {0, 1}, NEW n \in Nat, (n + 1) % d = 1
  PROVE  n % d = 0
OBVIOUS

(* A tick whose successor may spend a pulse is a pulse tick. *)
LEMMA PulsePhase ==
  ASSUME NEW tick \in Nat, PulseSpendable(tick + 1)
  PROVE  tick % CoachInterval = 0
<1>1. CoachInterval \in Nat \ {0, 1} /\ (tick + 1) % CoachInterval = 1
  BY ScheduleAssumption DEF PulseSpendable
<1> QED
  BY <1>1, SuccessorPhase

(* When a coach edge may fire, the pulse it reads is one tick old and was  *)
(* published for the nodes the cursors still hold.                         *)
LEMMA PulseIsFresh == Spec => []PulseFresh
<1>1. Init => PulseFresh
  <2>1. 0 % CoachInterval = 0
    BY ScheduleAssumption
  <2> QED
    BY <2>1 DEF Init, PulseFresh, PulseSpendable
<1>2. TypeOK /\ PulseFresh /\ [Next]_vars => PulseFresh'
  <2> SUFFICES ASSUME TypeOK, PulseFresh, [Next]_vars, PulseSpendable(world'.tick)
               PROVE  pulse'.tick = world'.tick - 1 /\ pulse'.nodes = cursors'
    BY DEF PulseFresh, PulseSpendable
  <2>1. CASE \/ \E n \in Node : SelectPlayNode(n)
             \/ \E p \in Port : TraversePlay(p)
             \/ UNCHANGED vars
    BY <2>1, LatchingLeavesMatch DEF PulseFresh
  <2>2. ASSUME NEW pushes \in [Substeps -> Pushes], NEW height \in Heights, NEW touch \in Touches,
               Tick(pushes, height, touch)
        PROVE  pulse'.tick = world'.tick - 1 /\ pulse'.nodes = cursors'
    <3>1. world.tick \in Nat /\ world'.tick = world.tick + 1
      BY <2>2 DEF Tick, TypeOK
    <3>2. CoachDue
      BY <3>1, PulsePhase DEF CoachDue
    <3> QED
      BY <2>2, <3>1, <3>2 DEF Tick, Act
  <2> QED
    BY <2>1, <2>2 DEF Next
<1> QED
  BY <1>1, <1>2, TypeCorrect, PTL DEF Spec

(* No team is ever moved along a coach edge by a stale pulse, by a pulse   *)
(* published for another node, or by the other team's coach.               *)
THEOREM CoachMovesAreEarned == Spec => CoachMoveIsEarned
<1> DEFINE Earned(team) ==
      LET ports == PortsTo(cursors[team], cursors'[team])
      IN  (/\ Scanned(team)
           /\ cursors'[team] # cursors[team]
           /\ \A port \in ports :
                Playbook[cursors[team]].edges[port].trigger.kind = "CoachEdge")
          => /\ pulse.tick = world.tick - 1
             /\ pulse.nodes[team] = cursors[team]
             /\ \E port \in ports :
                  edgeLogits[team][port] > Playbook[cursors[team]].coachGate
<1>1. TypeOK /\ PulseFresh /\ [Next]_vars => [\A team \in Team : Earned(team)]_vars
  <2> SUFFICES ASSUME TypeOK, PulseFresh, [Next]_vars, NEW team \in Team,
                      Scanned(team), cursors'[team] # cursors[team],
                      \A port \in PortsTo(cursors[team], cursors'[team]) :
                        Playbook[cursors[team]].edges[port].trigger.kind = "CoachEdge"
               PROVE  /\ pulse.tick = world.tick - 1
                      /\ pulse.nodes[team] = cursors[team]
                      /\ \E port \in PortsTo(cursors[team], cursors'[team]) :
                           edgeLogits[team][port] > Playbook[cursors[team]].coachGate
    OBVIOUS
  <2>1. PICK pushes \in [Substeps -> Pushes], height \in Heights, touch \in Touches :
               Tick(pushes, height, touch)
    BY LatchingLeavesMatch DEF Next
  <2>2. cursors'[team] = NextCursor(cursors[team], team, graphState, world, edgeLogits[team])
    BY <2>1 DEF Tick, Enter, NextNode, Scanned, Team
  <2>3. cursors[team] \in Node
    BY DEF TypeOK
  <2>4. PICK port \in 1 .. Len(Playbook[cursors[team]].edges) :
          /\ PortFires(cursors[team], port, team, graphState, world, edgeLogits[team])
          /\ cursors'[team] = Playbook[cursors[team]].edges[port].to
    BY <2>2, <2>3, ScanFollowsEdge
  <2>5. port \in PortsTo(cursors[team], cursors'[team])
    BY <2>3, <2>4, NodeShape DEF PortsTo
  <2>6. Playbook[cursors[team]].edges[port].trigger.kind = "CoachEdge"
    BY <2>5
  <2>7. /\ PulseSpendable(world.tick)
        /\ edgeLogits[team][port] > Playbook[cursors[team]].coachGate
    BY <2>4, <2>6 DEF PortFires
  <2> QED
    BY <2>5, <2>7 DEF PulseFresh
<1> QED
  BY <1>1, TypeCorrect, PulseIsFresh, PTL DEF Spec, CoachMoveIsEarned

-----------------------------------------------------------------------------

-----------------------------------------------------------------------------

(* What a tick does to the running total of a team: this tick's events are *)
(* added once, whether the pass that consumes them is due or not.          *)
LEMMA TickAddsEvents ==
  ASSUME TypeOK, NEW pushes \in [Substeps -> Pushes], NEW height \in Heights, NEW touch \in Touches,
         Tick(pushes, height, touch), NEW team \in Team
  PROVE  LET events == PhysicsStep(pushes, height)
         IN  /\ paid'[team].progress + rewards'[team].progress =
                   paid[team].progress + rewards[team].progress + Mirror(team) * events.progress
             /\ paid'[team].event + rewards'[team].event =
                   paid[team].event + rewards[team].event
                   + (IF events.scorer = NoTeam THEN 0
                      ELSE IF events.scorer = team THEN 1 ELSE -1)
<1> DEFINE events == PhysicsStep(pushes, height)
           accumulated == [t \in Team |-> Accumulate(rewards[t], t, events)]
<1>1. /\ paid[team].progress \in Int /\ paid[team].event \in Int
      /\ rewards[team].progress \in Int /\ rewards[team].event \in Int
  BY DEF TypeOK, Reward
<1>2. Learn(accumulated)
  BY DEF Tick
<1>3. events.progress \in Int
  BY PhysicsStepType, MatchAssumption
<1>4. /\ accumulated[team].progress = rewards[team].progress + Mirror(team) * events.progress
      /\ accumulated[team].event = rewards[team].event
                                   + (IF events.scorer = NoTeam THEN 0
                                      ELSE IF events.scorer = team THEN 1 ELSE -1)
  BY DEF Accumulate
<1>5. Mirror(team) * events.progress \in Int
  BY <1>3 DEF Mirror
<1> HIDE DEF accumulated, events
<1>6. /\ paid'[team].progress + rewards'[team].progress =
            paid[team].progress + accumulated[team].progress
      /\ paid'[team].event + rewards'[team].event =
            paid[team].event + accumulated[team].event
  <2>1. accumulated[team].progress \in Int /\ accumulated[team].event \in Int
    BY <1>1, <1>4, <1>5
  <2>2. CASE LearnDue
    BY <1>1, <1>2, <2>1, <2>2 DEF Learn, NoReward
  <2>3. CASE ~ LearnDue
    BY <1>1, <1>2, <2>1, <2>3 DEF Learn
  <2> QED
    BY <2>2, <2>3
<1>7. /\ paid'[team].progress + rewards'[team].progress =
            paid[team].progress + rewards[team].progress + Mirror(team) * events.progress
      /\ paid'[team].event + rewards'[team].event =
            paid[team].event + rewards[team].event
            + (IF events.scorer = NoTeam THEN 0 ELSE IF events.scorer = team THEN 1 ELSE -1)
  BY <1>1, <1>4, <1>5, <1>6
<1> QED
  BY <1>7 DEF events

(* Both substeps of a tick together: at most one of them scores, because   *)
(* after a goal the ball is more than a substep away from either line.     *)
LEMMA OneGoalPerTick ==
  ASSUME TypeOK, NEW pushes \in [Substeps -> Pushes], NEW height \in Heights
  PROVE  LET events == PhysicsStep(pushes, height)
         IN  \/ /\ events.scorer = NoTeam
                /\ events.ball.x = world.ball.x + events.progress
                /\ events.scores = world.scores
             \/ /\ events.scorer = "zero"
                /\ events.ball.x = world.ball.x + events.progress - GoalLine
                /\ events.scores = Scored(world.scores, "zero")
             \/ /\ events.scorer = "one"
                /\ events.ball.x = world.ball.x + events.progress + GoalLine
                /\ events.scores = Scored(world.scores, "one")
<1> DEFINE first == Substep(world.ball.x, pushes[1])
           second == Substep(first.x, pushes[2])
           events == PhysicsStep(pushes, height)
<1>1. /\ world.ball.x \in Int /\ world.ball.x > -GoalLine /\ world.ball.x < GoalLine
      /\ pushes[1] \in Pushes /\ pushes[2] \in Pushes
      /\ GoalLine \in Nat \ {0, 1}
  BY MatchAssumption DEF TypeOK, Substeps
<1>2. /\ first.x \in Int /\ first.x > -GoalLine /\ first.x < GoalLine
      /\ pushes[1] \in Int
      /\ \/ first.scorer = NoTeam /\ first.x = world.ball.x + pushes[1]
         \/ first.scorer = "zero" /\ first.x = 0 /\ world.ball.x + pushes[1] = GoalLine
         \/ first.scorer = "one" /\ first.x = 0 /\ world.ball.x + pushes[1] = -GoalLine
  BY <1>1, SubstepMoves
<1> HIDE DEF first
<1>3. /\ pushes[2] \in {-1, 0, 1}
      /\ \/ second.scorer = NoTeam /\ second.x = first.x + pushes[2]
         \/ second.scorer = "zero" /\ second.x = 0 /\ first.x + pushes[2] = GoalLine
         \/ second.scorer = "one" /\ second.x = 0 /\ first.x + pushes[2] = -GoalLine
  BY <1>1, <1>2, SubstepMoves
<1> HIDE DEF second
<1>4. first.scorer = NoTeam \/ second.scorer = NoTeam
  BY <1>1, <1>2, <1>3 DEF NoTeam
<1>5. /\ events.ball.x = second.x
      /\ events.scores = Scored(Scored(world.scores, first.scorer), second.scorer)
      /\ events.scorer = IF first.scorer # NoTeam THEN first.scorer ELSE second.scorer
  BY DEF PhysicsStep, first, second
<1>6. events.progress = pushes[1] + pushes[2]
  BY PhysicsStepType
<1>7. \A scores \in [Team -> 0 .. ScoreLimit] : Scored(scores, NoTeam) = scores
  BY DEF Scored, Team, NoTeam
<1>8. /\ world.scores \in [Team -> 0 .. ScoreLimit]
      /\ Scored(world.scores, first.scorer) \in [Team -> 0 .. ScoreLimit]
  BY ScoredType DEF TypeOK
<1> HIDE DEF events
<1>9. events.scores = Scored(world.scores, events.scorer)
  BY <1>4, <1>5, <1>7, <1>8
<1>10. \/ /\ events.scorer = NoTeam
          /\ events.ball.x = world.ball.x + events.progress
       \/ /\ events.scorer = "zero"
          /\ events.ball.x = world.ball.x + events.progress - GoalLine
       \/ /\ events.scorer = "one"
          /\ events.ball.x = world.ball.x + events.progress + GoalLine
  <2>1. CASE first.scorer = NoTeam
    BY <1>1, <1>2, <1>3, <1>5, <1>6, <2>1 DEF NoTeam
  <2>2. CASE first.scorer # NoTeam
    <3>1. second.scorer = NoTeam /\ second.x = first.x + pushes[2]
      BY <1>3, <1>4, <2>2 DEF NoTeam
    <3>2. events.scorer = first.scorer /\ events.ball.x = first.x + pushes[2]
      BY <1>5, <2>2, <3>1
    <3>3. pushes[2] \in Int
      BY <1>3
    <3>4. CASE first.scorer = "zero"
      <4>1. first.x = 0 /\ world.ball.x + pushes[1] = GoalLine
        BY <1>2, <3>4 DEF NoTeam
      <4> QED
        BY <1>1, <1>2, <1>6, <3>2, <3>3, <3>4, <4>1
    <3>5. CASE first.scorer = "one"
      <4>1. first.x = 0 /\ world.ball.x + pushes[1] = -GoalLine
        BY <1>2, <3>5 DEF NoTeam
      <4> QED
        BY <1>1, <1>2, <1>6, <3>2, <3>3, <3>5, <4>1
    <3> QED
      BY <1>2, <2>2, <3>4, <3>5
  <2> QED
    BY <2>1, <2>2
<1> QED
  BY <1>7, <1>8, <1>9, <1>10 DEF events

(* How a tick that leaves the score unsaturated moves ball and score.      *)
LEMMA TickMovesScore ==
  ASSUME TypeOK, NEW pushes \in [Substeps -> Pushes], NEW height \in Heights,
         NEW touch \in Touches, Tick(pushes, height, touch), Unsaturated'
  PROVE  LET events == PhysicsStep(pushes, height)
         IN  /\ Unsaturated
             /\ \/ /\ events.scorer = NoTeam
                   /\ world'.ball.x = world.ball.x + events.progress
                   /\ world'.scores = world.scores
                \/ /\ events.scorer = "zero"
                   /\ world'.ball.x = world.ball.x + events.progress - GoalLine
                   /\ world'.scores["zero"] = world.scores["zero"] + 1
                   /\ world'.scores["one"] = world.scores["one"]
                \/ /\ events.scorer = "one"
                   /\ world'.ball.x = world.ball.x + events.progress + GoalLine
                   /\ world'.scores["one"] = world.scores["one"] + 1
                   /\ world'.scores["zero"] = world.scores["zero"]
<1> DEFINE events == PhysicsStep(pushes, height)
<1>1. ScoreLimit \in Nat /\ world.scores \in [Team -> 0 .. ScoreLimit]
  BY MatchAssumption DEF TypeOK
<1>2. world'.ball = events.ball /\ world'.scores = events.scores
  BY DEF Tick
<1>3. \A team \in Team : world'.scores[team] < ScoreLimit
  BY DEF Unsaturated
<1> HIDE DEF events
<1>4. CASE events.scorer = NoTeam
  <2>1. world'.scores = world.scores /\ world'.ball.x = world.ball.x + events.progress
    BY <1>2, <1>4, OneGoalPerTick DEF events, NoTeam
  <2> QED
    BY <1>3, <1>4, <2>1 DEF Unsaturated, events
<1>5. ASSUME NEW scorer \in Team, events.scorer = scorer, world'.scores = Scored(world.scores, scorer)
      PROVE  /\ Unsaturated
             /\ world'.scores[scorer] = world.scores[scorer] + 1
             /\ \A team \in Team \ {scorer} : world'.scores[team] = world.scores[team]
  <2>1. \A team \in Team : world'.scores[team] = IF team = scorer
                                                THEN SaturatingInc(world.scores[team])
                                                ELSE world.scores[team]
    BY <1>5 DEF Scored
  <2> QED
    BY <1>1, <1>3, <2>1 DEF SaturatingInc, Unsaturated
<1>6. CASE events.scorer = "zero"
  <2>1. /\ world'.scores = Scored(world.scores, "zero")
        /\ world'.ball.x = world.ball.x + events.progress - GoalLine
    BY <1>2, <1>6, OneGoalPerTick DEF events, NoTeam
  <2> QED
    BY <1>5, <1>6, <2>1 DEF Team, events
<1>7. CASE events.scorer = "one"
  <2>1. /\ world'.scores = Scored(world.scores, "one")
        /\ world'.ball.x = world.ball.x + events.progress + GoalLine
    BY <1>2, <1>7, OneGoalPerTick DEF events, NoTeam
  <2> QED
    BY <1>5, <1>7, <2>1 DEF Team, events
<1> QED
  BY <1>4, <1>6, <1>7, OneGoalPerTick DEF events

(* Event rewards never drift from the score: over a match of any length    *)
(* and any learning interval, what a team was paid plus what stands is its *)
(* goal difference, as long as no score has saturated.                     *)
THEOREM EventLedgerBalances == Spec => []EventLedger
<1>1. Init => EventLedger
  BY DEF Init, EventLedger, NoReward, Team, Opponent
<1>2. TypeOK /\ EventLedger /\ [Next]_vars => EventLedger'
  <2> SUFFICES ASSUME TypeOK, EventLedger, [Next]_vars, Unsaturated', NEW team \in Team
               PROVE  paid'[team].event + rewards'[team].event =
                        world'.scores[team] - world'.scores[Opponent(team)]
    BY DEF EventLedger
  <2>1. CASE \/ \E n \in Node : SelectPlayNode(n)
             \/ \E p \in Port : TraversePlay(p)
             \/ UNCHANGED vars
    BY <2>1, LatchingLeavesMatch DEF EventLedger, Unsaturated
  <2>2. ASSUME NEW pushes \in [Substeps -> Pushes], NEW height \in Heights, NEW touch \in Touches,
               Tick(pushes, height, touch)
        PROVE  paid'[team].event + rewards'[team].event =
                 world'.scores[team] - world'.scores[Opponent(team)]
    <3> DEFINE scorer == PhysicsStep(pushes, height).scorer
    <3>1. Unsaturated
      BY <2>2, TickMovesScore
    <3>2. paid[team].event + rewards[team].event =
            world.scores[team] - world.scores[Opponent(team)]
      BY <3>1 DEF EventLedger
    <3>3. paid'[team].event + rewards'[team].event =
            paid[team].event + rewards[team].event
            + (IF scorer = NoTeam THEN 0 ELSE IF scorer = team THEN 1 ELSE -1)
      BY <2>2, TickAddsEvents
    <3>4. \/ scorer = NoTeam /\ world'.scores = world.scores
          \/ /\ scorer = "zero"
             /\ world'.scores["zero"] = world.scores["zero"] + 1
             /\ world'.scores["one"] = world.scores["one"]
          \/ /\ scorer = "one"
             /\ world'.scores["one"] = world.scores["one"] + 1
             /\ world'.scores["zero"] = world.scores["zero"]
      BY <2>2, TickMovesScore
    <3>5. world.scores["zero"] \in Int /\ world.scores["one"] \in Int
      BY MatchAssumption DEF TypeOK, Team
    <3> HIDE DEF scorer
    <3> QED
      BY <3>2, <3>3, <3>4, <3>5 DEF Team, Opponent, NoTeam
  <2> QED
    BY <2>1, <2>2 DEF Next
<1> QED
  BY <1>1, <1>2, TypeCorrect, PTL DEF Spec

LEMMA Halves ==
  ASSUME NEW length \in Int, NEW goals \in Int
  PROVE  /\ length * (goals + 1) = length * goals + length
         /\ length * (goals - 1) = length * goals - length
         /\ length * goals \in Int
OBVIOUS

(* Progress rewards telescope: what a team was paid plus what stands is    *)
(* where the ball is, plus one half of the pitch per goal of the score, in *)
(* the team's own direction.                                               *)
THEOREM ProgressLedgerBalances == Spec => []ProgressLedger
<1>1. Init => ProgressLedger
  BY MatchAssumption DEF Init, ProgressLedger, NoReward, Team, Mirror
<1>2. TypeOK /\ ProgressLedger /\ [Next]_vars => ProgressLedger'
  <2> SUFFICES ASSUME TypeOK, ProgressLedger, [Next]_vars, Unsaturated', NEW team \in Team
               PROVE  paid'[team].progress + rewards'[team].progress =
                        Mirror(team) * (world'.ball.x + GoalLine *
                                          (world'.scores["zero"] - world'.scores["one"]))
    BY DEF ProgressLedger
  <2>1. CASE \/ \E n \in Node : SelectPlayNode(n)
             \/ \E p \in Port : TraversePlay(p)
             \/ UNCHANGED vars
    BY <2>1, LatchingLeavesMatch DEF ProgressLedger, Unsaturated
  <2>2. ASSUME NEW pushes \in [Substeps -> Pushes], NEW height \in Heights, NEW touch \in Touches,
               Tick(pushes, height, touch)
        PROVE  paid'[team].progress + rewards'[team].progress =
                 Mirror(team) * (world'.ball.x + GoalLine *
                                   (world'.scores["zero"] - world'.scores["one"]))
    <3> DEFINE goals == world.scores["zero"] - world.scores["one"]
               goalsNext == world'.scores["zero"] - world'.scores["one"]
               balance == world.ball.x + GoalLine * goals
               balanceNext == world'.ball.x + GoalLine * goalsNext
               progress == PhysicsStep(pushes, height).progress
    <3>1. Unsaturated
      BY <2>2, TickMovesScore
    <3>2. paid[team].progress + rewards[team].progress = Mirror(team) * balance
      BY <3>1 DEF ProgressLedger
    <3>3. paid'[team].progress + rewards'[team].progress =
            paid[team].progress + rewards[team].progress + Mirror(team) * progress
      BY <2>2, TickAddsEvents
    <3>4. /\ goals \in Int /\ world.ball.x \in Int /\ progress \in Int /\ GoalLine \in Int
          /\ GoalLine * goals \in Int
      BY MatchAssumption, PhysicsStepType, Halves DEF TypeOK, Team
    <3>5. \/ world'.ball.x = world.ball.x + progress /\ goalsNext = goals
          \/ world'.ball.x = world.ball.x + progress - GoalLine /\ goalsNext = goals + 1
          \/ world'.ball.x = world.ball.x + progress + GoalLine /\ goalsNext = goals - 1
      <4>1. world.scores["zero"] \in Int /\ world.scores["one"] \in Int
        BY MatchAssumption DEF TypeOK, Team
      <4> HIDE DEF progress
      <4>2. \/ world'.ball.x = world.ball.x + progress /\ world'.scores = world.scores
            \/ /\ world'.ball.x = world.ball.x + progress - GoalLine
               /\ world'.scores["zero"] = world.scores["zero"] + 1
               /\ world'.scores["one"] = world.scores["one"]
            \/ /\ world'.ball.x = world.ball.x + progress + GoalLine
               /\ world'.scores["one"] = world.scores["one"] + 1
               /\ world'.scores["zero"] = world.scores["zero"]
        BY <2>2, TickMovesScore DEF progress
      <4> QED
        BY <4>1, <4>2
    <3> HIDE DEF goals, goalsNext, progress
    <3>6. balanceNext = balance + progress
      <4>1. /\ GoalLine * (goals + 1) = GoalLine * goals + GoalLine
            /\ GoalLine * (goals - 1) = GoalLine * goals - GoalLine
        BY <3>4, Halves
      <4> QED
        BY <3>4, <3>5, <4>1
    <3>7. balance \in Int
      BY <3>4
    <3> HIDE DEF balance, balanceNext
    <3>8. Mirror(team) * balance + Mirror(team) * progress = Mirror(team) * balanceNext
      BY <3>4, <3>6, <3>7 DEF Mirror
    <3>9. paid'[team].progress + rewards'[team].progress = Mirror(team) * balanceNext
      BY <3>2, <3>3, <3>8
    <3> QED
      BY <3>9 DEF balanceNext, goalsNext
  <2> QED
    BY <2>1, <2>2 DEF Next
<1> QED
  BY <1>1, <1>2, TypeCorrect, PTL DEF Spec

-----------------------------------------------------------------------------

(* What one tick can add to an accumulator. *)
LEMMA TickEventsBounded ==
  ASSUME TypeOK, NEW pushes \in [Substeps -> Pushes], NEW height \in Heights, NEW team \in Team
  PROVE  LET events == PhysicsStep(pushes, height)
         IN  /\ Mirror(team) * events.progress \in -2 .. 2
             /\ (IF events.scorer = NoTeam THEN 0 ELSE IF events.scorer = team THEN 1 ELSE -1)
                  \in -1 .. 1
<1>1. PhysicsStep(pushes, height).progress = pushes[1] + pushes[2]
  BY PhysicsStepType
<1>2. pushes[1] \in {-1, 0, 1} /\ pushes[2] \in {-1, 0, 1}
  BY MatchAssumption DEF Substeps
<1> QED
  BY <1>1, <1>2 DEF Mirror

(* The standing accumulator holds the current learning window only (tick,  *)
(* learn): rewards are cleared by the learning pass that closes a window,  *)
(* after that tick's own were added.                                       *)
THEOREM WindowIsCleared == Spec => []AccumulatorWindow
<1>1. Init => AccumulatorWindow
  BY MatchAssumption DEF Init, AccumulatorWindow, NoReward
<1>2. TypeOK /\ AccumulatorWindow /\ [Next]_vars => AccumulatorWindow'
  <2> SUFFICES ASSUME TypeOK, AccumulatorWindow, [Next]_vars PROVE AccumulatorWindow'
    OBVIOUS
  <2>1. CASE \/ \E n \in Node : SelectPlayNode(n)
             \/ \E p \in Port : TraversePlay(p)
             \/ UNCHANGED vars
    BY <2>1, LatchingLeavesMatch DEF AccumulatorWindow
  <2>2. ASSUME NEW pushes \in [Substeps -> Pushes], NEW height \in Heights, NEW touch \in Touches,
               Tick(pushes, height, touch)
        PROVE  AccumulatorWindow'
    <3> DEFINE events == PhysicsStep(pushes, height)
               accumulated == [t \in Team |-> Accumulate(rewards[t], t, events)]
               ticks == world.tick % LearningInterval
    <3>1. /\ world.tick \in Nat /\ world'.tick = world.tick + 1
          /\ LearningInterval \in Nat \ {0}
          /\ rewards \in [Team -> Reward]
      BY <2>2, MatchAssumption DEF Tick, TypeOK
    <3>2. Learn(accumulated)
      BY <2>2 DEF Tick
    <3>3. CASE LearnDue
      <4>1. world'.tick % LearningInterval = 0
        BY <3>1, <3>3 DEF LearnDue
      <4>2. rewards' = NoReward
        BY <3>2, <3>3 DEF Learn
      <4> QED
        BY <4>1, <4>2 DEF AccumulatorWindow, NoReward
    <3>4. CASE ~LearnDue
      <4>1. world'.tick % LearningInterval = ticks + 1 /\ ticks \in Nat
        BY <3>1, <3>4, NextTickOfWindow DEF LearnDue
      <4>2. rewards' = accumulated
        BY <3>2, <3>4 DEF Learn
      <4> SUFFICES ASSUME NEW team \in Team
                   PROVE  /\ rewards'[team].progress \in -2 * (ticks + 1) .. 2 * (ticks + 1)
                          /\ rewards'[team].event \in -(ticks + 1) .. ticks + 1
        BY <4>1 DEF AccumulatorWindow
      <4> DEFINE gained == IF events.scorer = NoTeam THEN 0 ELSE IF events.scorer = team THEN 1 ELSE -1
                 moved == Mirror(team) * events.progress
      <4>3. /\ rewards[team].progress \in -2 * ticks .. 2 * ticks
            /\ rewards[team].event \in -ticks .. ticks
        BY DEF AccumulatorWindow
      <4>4. moved \in -2 .. 2 /\ gained \in -1 .. 1
        BY TickEventsBounded
      <4>5. /\ rewards'[team].progress = rewards[team].progress + moved
            /\ rewards'[team].event = rewards[team].event + gained
        BY SMTT(30), <4>2 DEF Accumulate
      <4> HIDE DEF ticks, moved, gained
      <4> QED
        BY <4>1, <4>3, <4>4, <4>5
    <3> QED
      BY <3>3, <3>4
  <2> QED
    BY <2>1, <2>2 DEF Next
<1> QED
  BY <1>1, <1>2, TypeCorrect, PTL DEF Spec

-----------------------------------------------------------------------------

(* The match plays by the abstract clock (MatchTick.ImplementsPlayClock).  *)

(* A scanned cursor follows an edge that is ready, and every edge before   *)
(* it that the clock decides was not.                                      *)
LEMMA ScanFollowsClock ==
  ASSUME TypeOK, TouchClocks, NEW team \in Team,
         cursors'[team] = NextCursor(cursors[team], team, graphState, world, edgeLogits[team])
  PROVE  Clock!Follow(team)
<1> DEFINE node == cursors[team]
           edges == Playbook[node].edges
           dwell == [t \in Team |-> SinceEntry(t)]
<1>1. node \in Node /\ DOMAIN edges = 1 .. Len(edges) /\ Len(edges) \in 1 .. PortCount
  BY NodeShape DEF TypeOK
<1>2. dwell[team] = SaturatingSub(world.tick, graphState.entered[team])
  BY DEF TypeOK, SinceEntry, SaturatingSub
<1>3. Clock!Relation(team) = Possession(team, graphState, world.tick)
  <2>1. graphState.toucher \in Team => SaturatingSub(world.tick, graphState.touched) = SinceTouch
    BY DEF TypeOK, TouchClocks, SinceTouch, SaturatingSub, Team
  <2>2. graphState.toucher \in Team \cup {NoTeam}
    BY DEF TypeOK
  <2>3. CASE graphState.toucher = NoTeam
    BY <2>3 DEF Clock!Relation, Clock!NoTeam, NoTeam, Holder, Possession, Neutral
  <2>4. CASE graphState.toucher \in Team
    BY <2>1, <2>4
    DEF Clock!Relation, Clock!NoTeam, NoTeam, Team, Holder, Possession, Neutral, Teammate, Opposing
  <2> QED
    BY <2>2, <2>3, <2>4
<1>4. ASSUME NEW port \in 1 .. Len(edges)
      PROVE  /\ PortFires(node, port, team, graphState, world, edgeLogits[team])
                  => Clock!Ready(team, edges[port].trigger)
             /\ edges[port].trigger.kind \in Clock!Decided =>
                  (Clock!Ready(team, edges[port].trigger)
                     => PortFires(node, port, team, graphState, world, edgeLogits[team]))
  <2> DEFINE trigger == edges[port].trigger
             fires == PortFires(node, port, team, graphState, world, edgeLogits[team])
  <2>1. port \in 1 .. Len(Playbook[node].edges)
    OBVIOUS
  <2>2. Clock!Ready(team, trigger) <=>
          /\ trigger.kind = "Elapsed" =>
               SaturatingSub(world.tick, graphState.entered[team]) >= trigger.operand
          /\ trigger.kind = "Possession" => Possession(team, graphState, world.tick) = trigger.operand
          /\ trigger.kind = "CoachEdge" => PulseSpendable(world.tick)
    <3> HIDE DEF trigger
    <3> QED
      BY <1>2, <1>3 DEF Clock!Ready, PulseSpendable
  <2>3. CASE trigger.kind \in Clock!Decided
    <3>1. /\ trigger.kind = "Always" => fires
          /\ trigger.kind = "Elapsed" =>
               (fires <=> SaturatingSub(world.tick, graphState.entered[team]) >= trigger.operand)
          /\ trigger.kind = "Possession" =>
               (fires <=> Possession(team, graphState, world.tick) = trigger.operand)
      BY <2>1 DEF PortFires
    <3> HIDE DEF trigger, fires
    <3>2. fires <=> Clock!Ready(team, trigger)
      BY <2>2, <2>3, <3>1 DEF Clock!Decided
    <3> QED
      BY SMTT(30), <3>2 DEF trigger, fires
  <2>4. CASE trigger.kind = "CoachEdge"
    <3>1. fires => PulseSpendable(world.tick)
      BY <2>4 DEF PortFires
    <3> HIDE DEF trigger, fires
    <3>2. (fires => Clock!Ready(team, trigger)) /\ trigger.kind \notin Clock!Decided
      BY <2>2, <2>4, <3>1 DEF Clock!Decided
    <3> QED
      BY <3>2 DEF trigger, fires
  <2>5. CASE trigger.kind \notin Clock!Decided \cup {"CoachEdge"}
    <3> HIDE DEF trigger, fires
    <3>1. Clock!Ready(team, trigger)
      BY <2>2, <2>5 DEF Clock!Decided
    <3> QED
      BY <2>5, <3>1 DEF trigger
  <2> QED
    BY <2>3, <2>4, <2>5
<1>5. PICK port \in 1 .. Len(edges) :
        /\ PortFires(node, port, team, graphState, world, edgeLogits[team])
        /\ cursors'[team] = edges[port].to
        /\ \A other \in Port :
             PortFires(node, other, team, graphState, world, edgeLogits[team]) => port <= other
  BY <1>1, ScanFollowsEdge
<1>6. ASSUME NEW earlier \in 1 .. Len(edges), earlier < port,
             edges[earlier].trigger.kind \in Clock!Decided
      PROVE  ~Clock!Ready(team, edges[earlier].trigger)
  <2>1. earlier \in Port /\ earlier \in Int /\ port \in Int
    BY <1>1, ScheduleAssumption DEF Port
  <2> QED
    BY <1>4, <1>5, <1>6, <2>1
<1>7. Clock!Ready(team, edges[port].trigger)
  BY <1>4, <1>5
<1> HIDE DEF dwell
<1> QED
  BY <1>1, <1>5, <1>6, <1>7 DEF Clock!Follow

(* One tick moves both teams as the clock allows, and restarts the time a  *)
(* team has dwelt exactly when its cursor moved.                           *)
LEMMA TickMoves ==
  ASSUME TypeOK, TouchClocks, TypeOK',
         NEW pushes, NEW height, NEW touch, Tick(pushes, height, touch)
  PROVE  Clock!Moves
<1>1. /\ world'.tick = world.tick + 1 /\ world.tick \in Nat
      /\ cursors' = [team \in Team |-> NextNode(team)]
      /\ graphState'.entered = [team \in Team |-> NextEntered(team)]
  BY DEF TypeOK, Tick, Enter
<1>2. cursors' \in [Clock!Team -> DOMAIN Playbook]
  BY DEF TypeOK, Node, Team, Clock!Team
<1>3. ASSUME NEW team \in Team
      PROVE  Clock!Follow(team) \/ Clock!Sendable(team)
  <2>1. CASE team = "zero"
    BY <2>1 DEF Clock!Sendable
  <2>2. CASE team # "zero"
    <3>1. cursors'[team] = NextCursor(cursors[team], team, graphState, world, edgeLogits[team])
      BY <1>1, <2>2 DEF NextNode
    <3> QED
      BY <3>1, ScanFollowsClock
  <2> QED
    BY <2>1, <2>2
<1>4. ASSUME NEW team \in Team
      PROVE  SinceEntry(team)' = IF cursors'[team] = cursors[team] THEN SinceEntry(team) + 1 ELSE 1
  <2>1. graphState'.entered[team] =
          IF cursors'[team] = cursors[team] THEN graphState.entered[team] ELSE world.tick
    BY <1>1 DEF NextEntered
  <2>2. graphState.entered[team] \in Nat
    BY DEF TypeOK
  <2> QED
    BY <1>1, <2>1, <2>2 DEF SinceEntry
<1>5. [team \in Team |-> SinceEntry(team)]' =
        [team \in Team |->
           IF cursors'[team] = cursors[team] THEN [t \in Team |-> SinceEntry(t)][team] + 1 ELSE 1]
  BY <1>4
<1> QED
  BY <1>2, <1>3, <1>5 DEF Clock!Moves, Clock!Team, Team

(* One tick wears the possession down, or hands it to whoever touched the  *)
(* ball alone.                                                             *)
LEMMA TickTouches ==
  ASSUME TypeOK, TouchClocks,
         NEW pushes, NEW height, NEW touch \in Touches, Tick(pushes, height, touch)
  PROVE  (\E team \in Clock!Team : Clock!Touched(team)) \/ Clock!ContestedTouch \/ Clock!Untouched
<1>1. /\ world'.tick = world.tick + 1 /\ world.tick \in Nat
      /\ graphState'.touched = NextTouch(touch).touched
      /\ graphState'.toucher = NextTouch(touch).toucher
      /\ graphState.touched \in Nat /\ graphState.toucher \in Team \cup {NoTeam}
      /\ graphState.toucher \in Team => graphState.touched < world.tick
  BY DEF TypeOK, TouchClocks, Tick, Enter, Team
<1>2. PossessionTicks \in Nat \ {0}
  BY ScheduleAssumption
<1>3. touch \in {"zero", "one", NoTouch, Contested}
  BY MatchAssumption DEF Team
<1>4. CASE touch \in Team
  <2>1. SinceTouch' = 1 /\ graphState'.toucher = touch
    BY <1>1, <1>4 DEF SinceTouch, NextTouch, NoTouch, Team
  <2>2. Clock!Touched(touch)
    BY <1>2, <1>4, <2>1 DEF Clock!Touched, Clock!Possess, Clock!NoTeam, Holder, NoTeam, Team
  <2> QED
    BY <1>4, <2>2 DEF Clock!Team, Team
<1>5. CASE touch = Contested
  <2>1. graphState'.toucher = NoTeam
    BY <1>1, <1>5 DEF NextTouch, NoTouch, Contested, Team
  <2>2. Clock!ContestedTouch
    BY <2>1 DEF Clock!ContestedTouch, Clock!Possess, Clock!NoTeam, Holder, NoTeam
  <2> QED
    BY <2>2
<1>6. CASE touch = NoTouch
  <2>1. graphState'.toucher = graphState.toucher /\ SinceTouch' = SinceTouch + 1 /\ SinceTouch \in Int
    BY <1>1, <1>6 DEF SinceTouch, NextTouch
  <2>2. Clock!Untouched
    BY <1>1, <1>2, <2>1 DEF Clock!Untouched, Clock!Possess, Clock!NoTeam, Holder, NoTeam, Team
  <2> QED
    BY <2>2
<1> QED
  BY <1>3, <1>4, <1>5, <1>6 DEF Team

(* The next phase needs no more than this one. *)
LEMMA PhaseSteps ==
  ASSUME NEW d \in Nat \ {0, 1}, NEW n \in Nat
  PROVE  (n + 1) % d = ((n % d) + 1) % d
<1> DEFINE q == n \div d
           r == n % d
<1>1. q \in Int /\ r \in 0 .. d - 1 /\ n = d * q + r
  OBVIOUS
<1> HIDE DEF q, r
<1>2. CASE r + 1 < d
  <2>1. r + 1 \in 0 .. d - 1 /\ n + 1 = d * q + (r + 1) /\ r + 1 = d * 0 + (r + 1)
    BY <1>1, <1>2
  <2>2. (d * q + (r + 1)) % d = r + 1
    BY <1>1, <2>1, QuotientOf
  <2>3. (d * 0 + (r + 1)) % d = r + 1
    BY <2>1, QuotientOf
  <2>4. (n + 1) % d = (r + 1) % d
    BY <2>1, <2>2, <2>3
  <2> QED
    BY <2>4 DEF r
<1>3. CASE ~(r + 1 < d)
  <2>1. r + 1 = d /\ n + 1 = d * (q + 1) + 0 /\ r + 1 = d * 1 + 0 /\ q + 1 \in Int /\ 0 \in 0 .. d - 1
    BY <1>1, <1>3
  <2>2. (d * (q + 1) + 0) % d = 0
    BY <2>1, QuotientOf
  <2>3. (d * 1 + 0) % d = 0
    BY <2>1, QuotientOf
  <2>4. (n + 1) % d = (r + 1) % d
    BY <2>1, <2>2, <2>3
  <2> QED
    BY <2>4 DEF r
<1> QED
  BY <1>2, <1>3

(* For every playbook, window and schedule, a match is a play of the       *)
(* abstract clock: selections are invisible to it, and each tick of the    *)
(* code is one of its steps.  Nothing a team does depends on the absolute  *)
(* time of a match, and an edge the clock has made certain is never passed *)
(* over (Match::tick with enter, touch and NextCursor's scan).             *)
THEOREM MatchImplementsPlayClock == Spec => ImplementsPlayClock
<1>1. Init => Clock!Init
  <2> SUFFICES ASSUME Init PROVE Clock!Init
    OBVIOUS
  <2>1. 0 % CoachInterval = 0
    BY ScheduleAssumption
  <2> QED
    BY <2>1 DEF Init, Clock!Init, Clock!Team, Clock!NoTeam, Team, NoTeam, Holder, SinceEntry
<1>2. TypeOK /\ TouchClocks /\ TypeOK' /\ [Next]_vars => [Clock!Next]_(Clock!vars)
  <2> SUFFICES ASSUME TypeOK, TouchClocks, TypeOK', [Next]_vars PROVE [Clock!Next]_(Clock!vars)
    OBVIOUS
  <2>1. CASE \/ \E n \in Node : SelectPlayNode(n)
             \/ \E p \in Port : TraversePlay(p)
             \/ UNCHANGED vars
    <3>1. UNCHANGED <<world, cursors, graphState>>
      BY <2>1, LatchingLeavesMatch
    <3> QED
      BY <3>1 DEF Clock!vars, Holder, SinceEntry, SinceTouch
  <2>2. ASSUME NEW pushes \in [Substeps -> Pushes], NEW height \in Heights, NEW touch \in Touches,
               Tick(pushes, height, touch)
        PROVE  Clock!Next
    <3>1. world'.tick = world.tick + 1 /\ world.tick \in Nat
      BY <2>2 DEF TypeOK, Tick
    <3>2. (world.tick % CoachInterval)' = ((world.tick % CoachInterval) + 1) % CoachInterval
      BY <3>1, PhaseSteps, ScheduleAssumption
    <3> QED
      BY <2>2, <3>2, TickMoves, TickTouches DEF Clock!Next
  <2> QED
    BY <2>1, <2>2 DEF Next
<1> QED
  BY <1>1, <1>2, TypeCorrect, TouchClocksHold, PTL DEF Spec, ImplementsPlayClock, Clock!Spec

-----------------------------------------------------------------------------

(* The history is a walk: one port fewer than nodes.                       *)
WalkShaped ==
  /\ walked \in Seq(Node) /\ followed \in Seq(Port)
  /\ walked # <<>> => Len(walked) = Len(followed) + 1

AskedInv == TypeOK /\ WalkShaped /\ AskedPathIsTaken

(* A history only watches: what is asked and answered is a match.          *)
LEMMA AskedIsMatch == AskedSpec => Spec
<1>1. AskedInit => Init
  BY DEF AskedInit
<1>2. [AskedNext]_askedVars => [Next]_vars
  BY DEF AskedNext, AskNode, AskFirstPort, AskNextPort, Answer, Next, askedVars, vars
<1> QED
  BY <1>1, <1>2, PTL DEF AskedSpec, Spec

LEMMA NoNodeIsNone == NoNode \notin Node
  BY PlaybookAssumption DEF ValidPlaybook, NoNode

(* One more port, out of the node the walk has come to, is still the walk  *)
(* asked for.                                                              *)
LEMMA WalkGrows ==
  ASSUME AskedInv, TypeOK', NEW port \in Port, AskNextPort(port)
  PROVE  WalkShaped' /\ AskedPathIsTaken'
<1> DEFINE last == Len(walked)
           next == pendingPlayNode'
<1>1. /\ walked \in Seq(Node) /\ followed \in Seq(Port)
      /\ pendingPlayNode # NoNode /\ pendingPlayNode \in Node
  BY DEF AskedInv, WalkShaped, TypeOK, AskNextPort
<1>2. walked # <<>> /\ last = Len(followed) + 1 /\ walked[last] = pendingPlayNode
  BY <1>1 DEF AskedInv, WalkShaped, AskedPathIsTaken, Goal
<1>3. /\ port \in DOMAIN Playbook[pendingPlayNode].edges
      /\ next = Playbook[pendingPlayNode].edges[port].to
      /\ next \in Node
  BY <1>1, NodeShape DEF AskNextPort, TraversePlay, TraverseSource, TraversablePort, Traverse
<1>4. walked' = Append(walked, next) /\ followed' = Append(followed, port)
  BY DEF AskNextPort
<1> HIDE DEF next
<1>5. /\ walked' \in Seq(Node) /\ walked' # <<>> /\ Len(walked') = last + 1
      /\ \A i \in 1 .. last : walked'[i] = walked[i]
      /\ walked'[last + 1] = next
  BY <1>1, <1>3, <1>4, AppendProperties
<1>6. /\ followed' \in Seq(Port) /\ Len(followed') = last
      /\ \A i \in 1 .. Len(followed) : followed'[i] = followed[i]
      /\ followed'[last] = port
      /\ DOMAIN followed = 1 .. Len(followed) /\ DOMAIN followed' = 1 .. last
      /\ Len(followed) \in Nat
  BY <1>1, <1>2, <1>4, AppendProperties, LenProperties
<1>7. ASSUME NEW i \in 1 .. last
      PROVE  LET edges == Playbook[walked'[i]].edges
             IN  followed'[i] \in DOMAIN edges /\ edges[followed'[i]].to = walked'[i + 1]
  <2>1. CASE i = last
    BY <1>2, <1>3, <1>5, <1>6, <2>1
  <2>2. CASE i # last
    <3>1. i \in DOMAIN followed /\ i + 1 \in 1 .. last
      BY <1>2, <1>6, <2>2
    <3>2. /\ followed[i] \in DOMAIN Playbook[walked[i]].edges
          /\ Playbook[walked[i]].edges[followed[i]].to = walked[i + 1]
      BY <1>2, <3>1 DEF AskedInv, AskedPathIsTaken
    <3> QED
      BY <1>5, <1>6, <3>1, <3>2
  <2> QED
    BY <2>1, <2>2
<1>8. next # NoNode /\ next = pendingPlayNode'
  BY <1>3, NoNodeIsNone DEF next
<1>9. WalkShaped'
  BY <1>2, <1>5, <1>6 DEF WalkShaped
<1> QED
  BY <1>5, <1>6, <1>7, <1>8, <1>9 DEF AskedPathIsTaken, Goal

(* The player gets the walk asked for, for every playbook and any number   *)
(* of selections and ports between two ticks: each port leads out of the   *)
(* node the command before it came to, and the next tick puts the player's *)
(* cursor at the end (Match::select_play_node, traverse_play, tick).       *)
THEOREM PlayerWalksAskedPath == AskedSpec => []AskedPathIsTaken
<1>1. AskedInit => WalkShaped /\ AskedPathIsTaken
  BY DEF AskedInit, Init, WalkShaped, AskedPathIsTaken
<1>2. AskedInv /\ TypeOK' /\ [AskedNext]_askedVars => WalkShaped' /\ AskedPathIsTaken'
  <2> SUFFICES ASSUME AskedInv, TypeOK', [AskedNext]_askedVars
               PROVE  WalkShaped' /\ AskedPathIsTaken'
    OBVIOUS
  <2>1. ASSUME NEW node \in Node, AskNode(node) PROVE WalkShaped' /\ AskedPathIsTaken'
    <3>1. walked' = <<node>> /\ followed' = <<>> /\ pendingPlayNode' = node
      BY <2>1 DEF AskNode, SelectPlayNode
    <3>2. node # NoNode
      BY NoNodeIsNone
    <3> QED
      BY <3>1, <3>2 DEF WalkShaped, AskedPathIsTaken, Goal
  <2>2. ASSUME NEW port \in Port, AskFirstPort(port) PROVE WalkShaped' /\ AskedPathIsTaken'
    <3> DEFINE stood == cursors["zero"]
               next == pendingPlayNode'
    <3>1. /\ stood \in Node
          /\ port \in DOMAIN Playbook[stood].edges
          /\ next = Playbook[stood].edges[port].to
      BY <2>2 DEF AskFirstPort, TraversePlay, TraverseSource, TraversablePort, Traverse,
                  AskedInv, TypeOK, Team
    <3>2. next \in Node /\ next # NoNode
      BY <3>1, NodeShape, NoNodeIsNone
    <3>3. walked' = <<stood, next>> /\ followed' = <<port>>
      BY <2>2 DEF AskFirstPort
    <3> HIDE DEF next, stood
    <3>4. /\ walked' \in Seq(Node) /\ Len(walked') = 2 /\ walked'[1] = stood /\ walked'[2] = next
          /\ followed' \in Seq(Port) /\ Len(followed') = 1 /\ followed'[1] = port
          /\ DOMAIN followed' = {1} /\ walked' # <<>>
      BY <3>1, <3>2, <3>3
    <3> QED
      BY <3>1, <3>2, <3>4 DEF WalkShaped, AskedPathIsTaken, Goal, next
  <2>3. ASSUME NEW port \in Port, AskNextPort(port) PROVE WalkShaped' /\ AskedPathIsTaken'
    BY <2>3, WalkGrows
  <2>4. ASSUME NEW pushes \in [Substeps -> Pushes], NEW height \in Heights, NEW touch \in Touches,
               Answer(pushes, height, touch)
        PROVE  WalkShaped' /\ AskedPathIsTaken'
    <3>1. pendingPlayNode' = NoNode /\ cursors'["zero"] = NextNode("zero")
      BY <2>4 DEF Answer, Tick, Enter, Team
    <3>2. CASE pendingPlayNode # NoNode
      <4>1. UNCHANGED <<walked, followed>> /\ cursors'["zero"] = pendingPlayNode
        BY <2>4, <3>1, <3>2 DEF Answer, asked, NextNode
      <4> QED
        BY <3>1, <3>2, <4>1 DEF AskedInv, WalkShaped, AskedPathIsTaken, Goal
    <3>3. CASE pendingPlayNode = NoNode
      <4>1. walked' = <<>> /\ followed' = <<>>
        BY <2>4, <3>3 DEF Answer
      <4> QED
        BY <3>1, <4>1 DEF WalkShaped, AskedPathIsTaken
    <3> QED
      BY <3>2, <3>3
  <2>5. CASE UNCHANGED askedVars
    BY <2>5 DEF askedVars, AskedInv, WalkShaped, AskedPathIsTaken, Goal
  <2> QED
    BY <2>1, <2>2, <2>3, <2>4, <2>5 DEF AskedNext
<1> QED
  BY <1>1, <1>2, AskedIsMatch, TypeCorrect, PTL DEF AskedSpec, AskedInv

=============================================================================
