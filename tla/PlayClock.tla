----------------------------- MODULE PlayClock ------------------------------
(***************************************************************************)
(* What the play graph promises its teams, whatever happens on the pitch:  *)
(* a team moves along an edge of its node that is ready, past no edge that *)
(* is sure to be taken.  Time enters only as spans: how long ago the team's *)
(* cursor last moved, how much of its window the latest touch has left,    *)
(* and the phase of the coach's schedule.  Where the ball is, the score    *)
(* and what the coach published are left open.                             *)
(***************************************************************************)
EXTENDS Integers, Sequences

CONSTANTS
  Playbook,         \* node -> [edges: sequence of [to, trigger], ...]
  PossessionTicks,  \* how long a touch counts
  CoachInterval     \* ticks between two pulses

VARIABLES
  cursors,   \* team -> node
  dwell,     \* team -> ticks since its cursor last moved
  holder,    \* who possesses the ball, or NoTeam
  left,      \* ticks the possession still lasts; 0 with no holder
  phase      \* ticks since the last pulse tick

vars == <<cursors, dwell, holder, left, phase>>

Team == {"zero", "one"}
NoTeam == "none"

(* The holder as a team sees it: its own, the other's or nobody's. *)
Relation(team) == IF holder = NoTeam THEN 2 ELSE IF holder = team THEN 0 ELSE 1

(* A trigger on what the clock tells is decided; a coach may not answer    *)
(* its pulse, and the others hang on the ball and the score.               *)
Decided == {"Always", "Elapsed", "Possession"}

Ready(team, trigger) ==
  /\ trigger.kind = "Elapsed"    => dwell[team] >= trigger.operand
  /\ trigger.kind = "Possession" => Relation(team) = trigger.operand
  /\ trigger.kind = "CoachEdge"  => phase = 1

-----------------------------------------------------------------------------

Init ==
  /\ cursors = [team \in Team |-> 0]
  /\ dwell = [team \in Team |-> 0]
  /\ holder = NoTeam /\ left = 0
  /\ phase = 0

Follow(team) ==
  LET edges == Playbook[cursors[team]].edges
  IN  \E port \in DOMAIN edges :
        /\ cursors'[team] = edges[port].to
        /\ Ready(team, edges[port].trigger)
        /\ \A earlier \in DOMAIN edges :
             earlier < port /\ edges[earlier].trigger.kind \in Decided
               => ~Ready(team, edges[earlier].trigger)

(* The player may send the first team anywhere. *)
Sendable(team) == team = "zero"

Moves ==
  /\ cursors' \in [Team -> DOMAIN Playbook]
  /\ \A team \in Team : Follow(team) \/ Sendable(team)
  /\ dwell' = [team \in Team |-> IF cursors'[team] = cursors[team] THEN dwell[team] + 1 ELSE 1]

Possess(team, ticks) ==
  /\ holder' = IF ticks > 0 THEN team ELSE NoTeam
  /\ left' = ticks

Touched(team) == Possess(team, PossessionTicks - 1)
ContestedTouch == Possess(NoTeam, 0)
Untouched == Possess(holder, IF left > 0 THEN left - 1 ELSE 0)

Next ==
  /\ Moves
  /\ (\E team \in Team : Touched(team)) \/ ContestedTouch \/ Untouched
  /\ phase' = (phase + 1) % CoachInterval

Spec == Init /\ [][Next]_vars

=============================================================================
