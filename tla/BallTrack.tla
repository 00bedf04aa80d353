----------------------------- MODULE BallTrack ------------------------------
(***************************************************************************)
(* What one physics step promises the match of the game ball: along X it   *)
(* either rolls somewhere between the goal lines, all of which is progress, *)
(* or crosses a line, which is a goal; then it is back at the centre and   *)
(* only the way to the crossing was progress.  A tick is two such substeps *)
(* and reports the sum of the progress and the first scorer.               *)
(***************************************************************************)
EXTENDS Integers

CONSTANTS
  GoalLine,    \* farthest place of the ball that is no goal
  ScoreLimit   \* where scores saturate

VARIABLES
  x,          \* where the ball is
  progress,   \* signed travel reported this tick
  scorer,     \* first team to score this tick
  scores      \* team -> goals

vars == <<x, progress, scorer, scores>>

Team == {"zero", "one"}
NoTeam == "none"

InPlay == -GoalLine .. GoalLine

Init ==
  /\ x \in InPlay
  /\ progress = 0
  /\ scorer = NoTeam
  /\ scores \in [Team -> 0 .. ScoreLimit]

NewTick ==
  /\ progress' = 0
  /\ scorer' = NoTeam
  /\ UNCHANGED <<x, scores>>

Roll ==
  /\ x' \in InPlay
  /\ progress' = progress + (x' - x)
  /\ UNCHANGED <<scorer, scores>>

(* Where the reported travel leads from where the substep began. *)
Crossing == x + (progress' - progress)

Goal(team) ==
  /\ IF team = "zero" THEN Crossing > GoalLine ELSE Crossing < -GoalLine
  /\ x' = 0
  /\ scorer' = IF scorer = NoTeam THEN team ELSE scorer
  /\ scores' = [scores EXCEPT ![team] = IF @ < ScoreLimit THEN @ + 1 ELSE ScoreLimit]

Next == NewTick \/ Roll \/ \E team \in Team : Goal(team)

Spec == Init /\ [][Next]_vars

=============================================================================
