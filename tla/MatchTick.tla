----------------------------- MODULE MatchTick -----------------------------
(***************************************************************************)
(* One deterministic match: the driver Match<B> of                         *)
(* zoomieball-core/src/pipeline.rs.  Between two ticks the player may      *)
(* latch a play node; a tick runs the whole of Match::tick, in its order:  *)
(* scan both cursors, let the controller act, step physics, accumulate     *)
(* rewards, latch the touch, advance the clock, learn when due.            *)
(*                                                                         *)
(* What the driver does not decide is nondeterministic: how the ball moves *)
(* and who touches it (physics::step), and what a due coach pulse          *)
(* publishes (ControllerBackend::act).  The ball lives on a line of cells  *)
(* from goal to goal, more than the two cells it can cross in a tick;      *)
(* reaching a goal line is a goal.                                         *)
(*                                                                         *)
(* The variables pulse, paid, touchedAt and movedAt are history variables: *)
(* they record what happened, and no other variable depends on them.       *)
(***************************************************************************)
EXTENDS PlayGraph

CONSTANTS
  LearningInterval,  \* ticks between two learning passes
  GoalLine,          \* ball cell at which team zero scores; its negation for team one
  ScoreLimit,        \* largest score a u16 holds
  Pushes,            \* cells the ball may move along x in one substep
  Heights,           \* values of ball z a tick may end with
  Touches,           \* who may touch the ball in one tick
  Publications,      \* logits a coach pulse may publish
  MaxTick            \* bound on the match clock, for model checking

NoNode   == -1
NoTouch  == "untouched"
Contested == "contested"
NoTick   == -1

(* PHYSICS_SUBSTEPS *)
Substeps == {1, 2}

ASSUME MatchAssumption ==
  /\ LearningInterval \in Nat \ {0}
  /\ GoalLine \in Nat \ {0, 1}
  /\ ScoreLimit \in Nat \ {0}
  /\ Pushes \subseteq {-1, 0, 1}
  /\ Heights \subseteq Int
  /\ Touches \subseteq Team \cup {NoTouch, Contested}
  /\ Publications \subseteq [Team -> [Port -> Int]]
  /\ MaxTick \in Nat

VARIABLES
  world,            \* [tick, ball |-> [x, z], scores]
  cursors,          \* the node each team's cursor holds
  graphState,       \* [entered, touched, toucher], as GraphState
  pendingPlayNode,  \* the latched override, or NoNode
  edgeLogits,       \* the controller's standing coach publication
  rewards,          \* per team, accumulated [progress, event] not yet learned from
  pulse,            \* history: tick of the latest coach pulse, and the nodes it saw
  paid,             \* history: per team, all [progress, event] handed to learn
  touchedAt,        \* history: per team, the tick of its latest touch
  movedAt           \* history: per team, the tick its cursor last changed

vars == <<world, cursors, graphState, pendingPlayNode, edgeLogits, rewards,
          pulse, paid, touchedAt, movedAt>>

Reward == [progress : Int, event : Int]
NoReward == [team \in Team |-> [progress |-> 0, event |-> 0]]

-----------------------------------------------------------------------------

(* Match::new *)
Init ==
  /\ world = [tick   |-> 0,
              ball   |-> [x |-> 0, z |-> 0],
              scores |-> [team \in Team |-> 0]]
  /\ cursors = [team \in Team |-> 0]
  /\ graphState = [entered |-> [team \in Team |-> 0], touched |-> 0, toucher |-> NoTeam]
  /\ pendingPlayNode = NoNode
  /\ edgeLogits = [team \in Team |-> [port \in Port |-> 0]]
  /\ rewards = NoReward
  /\ pulse = [tick |-> NoTick, nodes |-> cursors]
  /\ paid = NoReward
  /\ touchedAt = [team \in Team |-> NoTick]
  /\ movedAt = [team \in Team |-> 0]

(* select_play_node: the latest selection wins. *)
SelectPlayNode(node) ==
  /\ node \in Node
  /\ pendingPlayNode' = node
  /\ UNCHANGED <<world, cursors, graphState, edgeLogits, rewards, pulse, paid, touchedAt, movedAt>>

(* Mutant: a port of the active node, whatever is queued. *)
TraverseActive == cursors["zero"]

(* traverse_play: a port of the latest queued node, else of the active one. *)
TraverseSource == IF pendingPlayNode # NoNode THEN pendingPlayNode ELSE cursors["zero"]

TraversePlay(port) ==
  /\ port \in TraversablePort(TraverseSource)
  /\ pendingPlayNode' = Traverse(TraverseSource, port)
  /\ UNCHANGED <<world, cursors, graphState, edgeLogits, rewards, pulse, paid, touchedAt, movedAt>>

-----------------------------------------------------------------------------

OverrideBoth(team) ==
  IF pendingPlayNode # NoNode
  THEN pendingPlayNode
  ELSE NextCursor(cursors[team], team, graphState, world, edgeLogits[team])

(* The node a team lands on: a latched override outranks the player's scan. *)
NextNode(team) ==
  IF team = "zero" /\ pendingPlayNode # NoNode
  THEN pendingPlayNode
  ELSE NextCursor(cursors[team], team, graphState, world, edgeLogits[team])

EnteredEveryTick(team) == world.tick

EnteredByScan(team) ==
  IF NextCursor(cursors[team], team, graphState, world, edgeLogits[team]) = cursors[team]
  THEN graphState.entered[team]
  ELSE world.tick

(* The entry tick a team holds after enter(): restamped only by a move. *)
NextEntered(team) ==
  IF NextNode(team) = cursors[team] THEN graphState.entered[team] ELSE world.tick

ContestedIgnored(touch) ==
  IF touch \in Team
  THEN [touched |-> world.tick, toucher |-> touch]
  ELSE [touched |-> graphState.touched, toucher |-> graphState.toucher]

(* The touch record after a tick: a contested touch is nobody's. *)
NextTouch(touch) ==
  IF touch = NoTouch
  THEN [touched |-> graphState.touched, toucher |-> graphState.toucher]
  ELSE [touched |-> world.tick, toucher |-> IF touch \in Team THEN touch ELSE NoTeam]

Enter(touch) ==
  /\ cursors' = [team \in Team |-> NextNode(team)]
  /\ graphState' = [entered |-> [team \in Team |-> NextEntered(team)],
                    touched |-> NextTouch(touch).touched,
                    toucher |-> NextTouch(touch).toucher]
  /\ pendingPlayNode' = NoNode
  /\ touchedAt' = [team \in Team |->
                     IF touch \in {team, Contested} THEN world.tick ELSE touchedAt[team]]
  /\ movedAt' = [team \in Team |->
                   IF cursors'[team] # cursors[team] THEN world.tick ELSE movedAt[team]]

(* Coaches pulse on ticks divisible by four, over the cursors just entered. *)
CoachDue == world.tick % CoachInterval = 0

Act ==
  IF CoachDue
  THEN /\ edgeLogits' \in Publications
       /\ pulse' = [tick |-> world.tick, nodes |-> cursors']
  ELSE UNCHANGED <<edgeLogits, pulse>>

-----------------------------------------------------------------------------

(* scoring_team *)
Scorer(x) == IF x >= GoalLine THEN "zero" ELSE IF x <= -GoalLine THEN "one" ELSE NoTeam

SaturatingInc(score) == IF score < ScoreLimit THEN score + 1 ELSE ScoreLimit

(* One substep: where the ball comes to rest, what of the way there was    *)
(* motion, and who scored.  A goal returns the ball to the centre.         *)
SubstepPayingReturn(x, push) ==
  LET scorer == Scorer(x + push)
      rest   == IF scorer = NoTeam THEN x + push ELSE 0
  IN  [x |-> rest, progress |-> rest - x, scorer |-> scorer]

Substep(x, push) ==
  LET scorer == Scorer(x + push)
  IN  [x        |-> IF scorer = NoTeam THEN x + push ELSE 0,
       progress |-> push,
       scorer   |-> scorer]

Scored(scores, scorer) ==
  [team \in Team |-> IF team = scorer THEN SaturatingInc(scores[team]) ELSE scores[team]]

(* physics::step: progress sums over both substeps, the first scorer names *)
(* the goal.                                                               *)
PhysicsStep(pushes, height) ==
  LET first  == Substep(world.ball.x, pushes[1])
      second == Substep(first.x, pushes[2])
  IN  [ball     |-> [x |-> second.x, z |-> IF second.scorer = NoTeam THEN height ELSE 0],
       scores   |-> Scored(Scored(world.scores, first.scorer), second.scorer),
       progress |-> first.progress + second.progress,
       scorer   |-> IF first.scorer # NoTeam THEN first.scorer ELSE second.scorer]

(* accumulate_team_rewards: one team's entry stands for all of its bodies. *)
Accumulate(reward, team, events) ==
  [progress |-> reward.progress + Mirror(team) * events.progress,
   event    |-> reward.event + (IF events.scorer = NoTeam THEN 0
                                ELSE IF events.scorer = team THEN 1 ELSE -1)]

LearnDueBeforeAdvance == world.tick % LearningInterval = 0
LearnDue == (world.tick + 1) % LearningInterval = 0

LearnWithoutClear(accumulated) ==
  /\ rewards' = accumulated
  /\ paid' = IF LearnDue
             THEN [team \in Team |->
                     [progress |-> paid[team].progress + accumulated[team].progress,
                      event    |-> paid[team].event + accumulated[team].event]]
             ELSE paid

(* A due pass consumes the whole accumulator, this tick's events included. *)
Learn(accumulated) ==
  IF LearnDue
  THEN /\ paid' = [team \in Team |->
                     [progress |-> paid[team].progress + accumulated[team].progress,
                      event    |-> paid[team].event + accumulated[team].event]]
       /\ rewards' = NoReward
  ELSE /\ rewards' = accumulated
       /\ UNCHANGED paid

(* Match::tick *)
Tick(pushes, height, touch) ==
  LET events == PhysicsStep(pushes, height)
  IN  /\ world.tick < MaxTick
      /\ Enter(touch)
      /\ Act
      /\ world' = [tick |-> world.tick + 1, ball |-> events.ball, scores |-> events.scores]
      /\ Learn([team \in Team |-> Accumulate(rewards[team], team, events)])

Next ==
  \/ \E node \in Node : SelectPlayNode(node)
  \/ \E port \in Port : TraversePlay(port)
  \/ \E pushes \in [Substeps -> Pushes], height \in Heights, touch \in Touches :
       Tick(pushes, height, touch)

Spec == Init /\ [][Next]_vars

-----------------------------------------------------------------------------

(* Shape of the state: every cursor is a node of the playbook, no clock    *)
(* runs ahead of the match clock, and a goal never leaves the ball on a    *)
(* goal line.                                                              *)
TypeOK ==
  /\ world \in [tick : Nat, ball : [x : Int, z : Int], scores : [Team -> 0 .. ScoreLimit]]
  /\ world.ball.x > -GoalLine /\ world.ball.x < GoalLine
  /\ cursors \in [Team -> Node]
  /\ graphState \in [entered : [Team -> Nat], touched : Nat, toucher : Team \cup {NoTeam}]
  /\ \A team \in Team : graphState.entered[team] <= world.tick
  /\ pendingPlayNode \in Node \cup {NoNode}
  /\ edgeLogits \in [Team -> [Port -> Int]]
  /\ rewards \in [Team -> Reward]
  /\ pulse \in [tick : Nat \cup {NoTick}, nodes : [Team -> Node]]
  /\ paid \in [Team -> Reward]
  /\ touchedAt \in [Team -> Nat \cup {NoTick}]
  /\ movedAt \in [Team -> Nat]

-----------------------------------------------------------------------------

(* No team that plays by the graph alone outstays an escape hatch: the     *)
(* self-loop that holds a node must not keep resetting the clock the hatch *)
(* reads (the stall pipeline.rs, enter, is written to avoid).  The player  *)
(* may hold a node on purpose, so this is about team one.                  *)
DwellBounded ==
  \A node \in Node : \A port \in 1 .. PortCount :
    EscapePort(node, port) /\ cursors["one"] = node =>
      world.tick - movedAt["one"] <= EscapeTicks(node, port)

(* The player's overrides never leak into the opponent's cursor: team one  *)
(* only ever stands where edges lead from the opening node.                *)
OpponentReachable ==
  \A nodes \in SUBSET Node : 0 \in nodes /\ EdgeClosed(nodes) => cursors["one"] \in nodes

(* The relation two per-team touch clocks define: the later toucher holds  *)
(* the ball for a window, and a tie, which is a contested touch, holds for *)
(* nobody.                                                                 *)
HoldsBall(team) ==
  /\ touchedAt[team] > touchedAt[Opponent(team)]
  /\ world.tick - touchedAt[team] < PossessionTicks

(* The single latched (tick, team) pair says what the two clocks would, to *)
(* both teams, on every tick (GraphState::possession and the touch latch). *)
PossessionAgrees ==
  \A team \in Team :
    Possession(team, graphState, world.tick) =
      IF HoldsBall(team) THEN Teammate
      ELSE IF HoldsBall(Opponent(team)) THEN Opposing ELSE Neutral

(* A team that moves where only coach edges lead was moved by its own      *)
(* coach, by the pulse of the tick before, and that pulse was published    *)
(* for the node the team still held.                                       *)
Scanned(team) == team = "one" \/ pendingPlayNode = NoNode

PortsTo(node, to) ==
  {port \in DOMAIN Playbook[node].edges : Playbook[node].edges[port].to = to}

CoachMoveIsEarned ==
  [][\A team \in Team :
       LET ports == PortsTo(cursors[team], cursors'[team])
       IN  (/\ Scanned(team)
            /\ cursors'[team] # cursors[team]
            /\ \A port \in ports :
                 Playbook[cursors[team]].edges[port].trigger.kind = "CoachEdge")
           => /\ pulse.tick = world.tick - 1
              /\ pulse.nodes[team] = cursors[team]
              /\ \E port \in ports :
                   edgeLogits[team][port] > Playbook[cursors[team]].coachGate]_vars

Unsaturated == \A team \in Team : world.scores[team] < ScoreLimit

(* Every cell of ball motion is paid once to each team with its own sign,  *)
(* whether already learned from or still standing, and the return to the   *)
(* centre is paid to nobody: what both sides hold adds up to where the     *)
(* ball is plus one pitch half for every goal of the score.                *)
ProgressLedger ==
  Unsaturated =>
    \A team \in Team :
      paid[team].progress + rewards[team].progress =
        Mirror(team) * (world.ball.x + GoalLine * (world.scores["zero"] - world.scores["one"]))

(* Event rewards, learned from or standing, are the goal difference.       *)
EventLedger ==
  Unsaturated =>
    \A team \in Team :
      paid[team].event + rewards[team].event =
        world.scores[team] - world.scores[Opponent(team)]

(* The standing accumulator holds the current learning window only: no     *)
(* more motion, and no more goals, than its ticks can have produced.       *)
AccumulatorWindow ==
  \A team \in Team :
    LET ticks == world.tick % LearningInterval
    IN  /\ rewards[team].progress \in -2 * ticks .. 2 * ticks
        /\ rewards[team].event \in -ticks .. ticks

-----------------------------------------------------------------------------

(* Both graph clocks as ages. *)
SinceEntry(team) == world.tick - graphState.entered[team]
SinceTouch == world.tick - graphState.touched

Holder ==
  IF graphState.toucher = NoTeam \/ SinceTouch >= PossessionTicks THEN NoTeam ELSE graphState.toucher

Clock == INSTANCE PlayClock WITH
  dwell  <- [team \in Team |-> SinceEntry(team)],
  holder <- Holder,
  left   <- IF Holder = NoTeam THEN 0 ELSE PossessionTicks - SinceTouch,
  phase  <- world.tick % CoachInterval

(* The graph plays by spans alone, at every tick of a match: a cursor      *)
(* moves along an edge that is ready, past none that is sure to be taken,  *)
(* or where the player sends it; entry and touch ticks are kept so that    *)
(* what they are ages of is never off by a tick (Match::tick, enter and    *)
(* touch; the triggers of playbook/mod.rs).                                *)
ImplementsPlayClock == Clock!Spec

-----------------------------------------------------------------------------

(* What the proofs add to reach inductive invariants. *)

(* The node-entry clock names the tick of the cursor's last move: neither  *)
(* a self-loop nor an override that re-selects the node the player already *)
(* holds restamps it (pipeline.rs, tick and enter).                        *)
EntryClock == graphState.entered = movedAt

(* The latched pair against the two touch clocks. *)
TouchClocks ==
  /\ \A team \in Team : touchedAt[team] < world.tick
  /\ graphState.toucher = NoTeam => touchedAt["zero"] = touchedAt["one"]
  /\ \A team \in Team :
       graphState.toucher = team => /\ touchedAt[team] = graphState.touched
                                    /\ touchedAt[Opponent(team)] < graphState.touched

(* On the tick a coach edge may fire, the standing pulse is the last       *)
(* tick's, and it saw the cursors as they still are.                       *)
PulseFresh ==
  PulseSpendable(world.tick) => pulse.tick = world.tick - 1 /\ pulse.nodes = cursors

=============================================================================
