---------------------------- MODULE WitnessTwins ----------------------------
(***************************************************************************)
(* Two matches over one playbook, one and two, and the pipeline witness    *)
(* each publishes after a tick (Match::fold_hashes).  The players select   *)
(* nodes independently; every tick moves both matches alike, as it does    *)
(* when the playbook's nodes assign bodies alike.  The controller is       *)
(* IdleController: its witnesses are constant and it publishes nothing.    *)
(***************************************************************************)
EXTENDS Integers

CONSTANTS Playbook, PortCount, PossessionTicks, CoachInterval, LearningInterval,
          GoalLine, ScoreLimit, Pushes, Heights, Touches, Publications, MaxTick

VARIABLES
  world1, cursors1, graph1, pending1, logits1, rewards1, pulse1, paid1, touchedAt1, movedAt1,
  world2, cursors2, graph2, pending2, logits2, rewards2, pulse2, paid2, touchedAt2, movedAt2

match1 == <<world1, cursors1, graph1, pending1, logits1, rewards1, pulse1, paid1, touchedAt1, movedAt1>>
match2 == <<world2, cursors2, graph2, pending2, logits2, rewards2, pulse2, paid2, touchedAt2, movedAt2>>

One == INSTANCE MatchTick
  WITH world <- world1, cursors <- cursors1, graphState <- graph1,
       pendingPlayNode <- pending1, edgeLogits <- logits1, rewards <- rewards1,
       pulse <- pulse1, paid <- paid1, touchedAt <- touchedAt1, movedAt <- movedAt1

Two == INSTANCE MatchTick
  WITH world <- world2, cursors <- cursors2, graphState <- graph2,
       pendingPlayNode <- pending2, edgeLogits <- logits2, rewards <- rewards2,
       pulse <- pulse2, paid <- paid2, touchedAt <- touchedAt2, movedAt <- movedAt2

Init == One!Init /\ Two!Init

Select ==
  \E node \in DOMAIN Playbook :
    \/ One!SelectPlayNode(node) /\ UNCHANGED match2
    \/ Two!SelectPlayNode(node) /\ UNCHANGED match1

Tick ==
  \E pushes \in [One!Substeps -> Pushes], height \in Heights, touch \in Touches :
    One!Tick(pushes, height, touch) /\ Two!Tick(pushes, height, touch)

Next == Select \/ Tick

Spec == Init /\ [][Next]_<<match1, match2>>

-----------------------------------------------------------------------------

(* fold_hashes: the two cursors, the world's diagnostic hash (tick, scores *)
(* and bodies) and the controller's witnesses, by an ideal fold.  The      *)
(* version words are constants.                                            *)
Fold(cursors, world, logits) == <<cursors, world, logits>>

(* Matches whose pipeline witnesses agree hold the same graph state: the   *)
(* witness is documented as a fold that includes it (GAME_TICK.md,         *)
(* Witnesses; docs/architecture.md, Witnesses).                            *)
FoldCoversGraphState ==
  Fold(cursors1, world1, logits1) = Fold(cursors2, world2, logits2) => graph1 = graph2

=============================================================================
