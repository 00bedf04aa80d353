------------------------------ MODULE AskedPath -----------------------------
(***************************************************************************)
(* What the player asked for, laid over the match as a history: the node   *)
(* the walk started from (a selection, or where the player's cursor stood) *)
(* and each port followed from there, with the node the queue then held.   *)
(* Selections and traversals compose between two ticks (pipeline.rs,       *)
(* select_play_node and traverse_play); the tick latches what they come to.*)
(***************************************************************************)
EXTENDS MatchTick

CONSTANT MaxPorts  \* bound on the ports followed between two ticks

ASSUME AskedAssumption == MaxPorts \in Nat

VARIABLES
  walked,   \* the nodes of the walk asked for; empty once the scan may move on
  followed  \* the port followed out of each of them but the last

asked == <<walked, followed>>
askedVars == <<world, cursors, graphState, pendingPlayNode, edgeLogits, rewards,
               pulse, paid, touchedAt, movedAt, walked, followed>>

AskedInit == Init /\ walked = <<>> /\ followed = <<>>

AskNode(node) == SelectPlayNode(node) /\ walked' = <<node>> /\ followed' = <<>>

AskFirstPort(port) ==
  /\ pendingPlayNode = NoNode
  /\ TraversePlay(port)
  /\ MaxPorts > 0
  /\ walked' = <<cursors["zero"], pendingPlayNode'>>
  /\ followed' = <<port>>

AskNextPort(port) ==
  /\ pendingPlayNode # NoNode
  /\ TraversePlay(port)
  /\ Len(followed) < MaxPorts
  /\ walked' = Append(walked, pendingPlayNode')
  /\ followed' = Append(followed, port)

(* The tick that latches the walk ends it; the next one may move on.       *)
Answer(pushes, height, touch) ==
  /\ Tick(pushes, height, touch)
  /\ IF pendingPlayNode # NoNode THEN UNCHANGED asked ELSE walked' = <<>> /\ followed' = <<>>

AskedNext ==
  \/ \E node \in Node : AskNode(node)
  \/ \E port \in Port : AskFirstPort(port) \/ AskNextPort(port)
  \/ \E pushes \in [Substeps -> Pushes], height \in Heights, touch \in Touches :
       Answer(pushes, height, touch)

AskedSpec == AskedInit /\ [][AskedNext]_askedVars

-----------------------------------------------------------------------------

Goal == walked[Len(walked)]

(* The player gets the walk asked for, edge by edge: every port leads out  *)
(* of the node the command before it came to and not out of the node the   *)
(* cursor still holds, the walk's end is what is queued, and the tick that *)
(* latches it puts the player's cursor there, whatever the scan would have *)
(* done (traverse_play, select_play_node, and the override of tick).       *)
AskedPathIsTaken ==
  IF walked = <<>>
  THEN pendingPlayNode = NoNode
  ELSE /\ \A step \in DOMAIN followed :
            LET edges == Playbook[walked[step]].edges
            IN  followed[step] \in DOMAIN edges /\ edges[followed[step]].to = walked[step + 1]
       /\ Goal = IF pendingPlayNode # NoNode THEN pendingPlayNode ELSE cursors["zero"]

=============================================================================
