------------------------------- MODULE Solver -------------------------------
(***************************************************************************)
(* Playbook::resolve (zoomieball-core/src/playbook/solve.rs): each body's  *)
(* squad and desired position and spin, from its team's play node, the     *)
(* anchors every verb shares and its own role and place.                   *)
(*                                                                         *)
(* A tick is two actions: Resolve runs the solver's two passes over the    *)
(* roster, and Motion stands for the rest of the tick and the next tick's  *)
(* cursor scan: physics leaves a body elsewhere or a cursor moves.  The    *)
(* intent buffer is overwritten entry by entry before it is read again, so *)
(* Motion drops it; the squads stand in the world and are kept.            *)
(***************************************************************************)
EXTENDS Formation

CONSTANTS
  Playbooks,       \* each a function node -> [cycle, goalieVerb, verbs, goalie, fielder]
  Roster,          \* local IDs of one team, Goalie among them
  Places,          \* playbook -> body -> positions motion leaves it at
  Kickoff,         \* positions the bodies start from
  HalfLength, GoalHalfWidth, GoalHeight   \* arena dimensions, raw

VARIABLES
  playbook,    \* the loaded playbook, which no action changes
  positions,   \* body -> vector
  squads,      \* body -> squad, as the last resolution left it
  cursors,     \* team -> node
  intents      \* player -> [position, spin], Unresolved before the pass

vars == <<playbook, positions, squads, cursors, intents>>

Player == Team \X Roster
Ball == <<"ball", 0>>
Body == Player \cup {Ball}

SquadNames(nodes) == UNION {DOMAIN nodes[node].verbs : node \in DOMAIN nodes}
Verbs == {"Align", "Pursue", "Drive", "Clear", "Cover", "Zone", "Sweep",
          "Block", "Lead", "Jam", "Guard"}
Targets == {"GameBall", "OwnGoal", "OpponentGoal", "Squad", "NearestOpponent",
            "NearestToMe", "Slot"}

Entry(verb, target, form) == [verb |-> verb, target |-> target, squad |-> 0, form |-> form]
EntryOnSquad(verb, squad, form) ==
  [verb |-> verb, target |-> "Squad", squad |-> squad, form |-> form]

(* What validation leaves the solver: a cycle that is not empty, of squads *)
(* every one of which has an assignment; verbs and targets of the enums.   *)
(* World::new numbers squads by local ID, and every such number is one.    *)
ASSUME NodesAssumption ==
  \A nodes \in Playbooks :
    /\ 0 \in DOMAIN nodes
    /\ \A n \in DOMAIN nodes :
         LET node    == nodes[n]
             entries == {node.goalieVerb} \cup {node.verbs[s] : s \in DOMAIN node.verbs}
         IN  /\ node.cycle # <<>> /\ node.cycle \in Seq(DOMAIN node.verbs)
             /\ \A local \in Roster : local % 8 \in DOMAIN node.verbs
             /\ \A entry \in entries : entry.verb \in Verbs /\ entry.target \in Targets

ASSUME RosterAssumption ==
  /\ IsFiniteSet(Roster) /\ Goalie \in Roster
  /\ Roster = 0 .. Cardinality(Roster) - 1

Unresolved == <<>>
CoverGap == 3 * One

-----------------------------------------------------------------------------

OwnGoal(team) == Vec(-QMul(HalfLength, Mirror(team)), 0, QMul(GoalHeight, Half))

(* Exact raw squares rank the separations; the first body of the canonical *)
(* order wins a tie, which within one team is the lowest local ID.         *)
Separation(at, body, reference) ==
  LET offset == Minus(at[body], reference) IN RawDot(offset, offset)

Nearest(at, team, reference) ==
  at[CHOOSE body \in {team} \X Roster :
       \A other \in {team} \X Roster :
         LET near == Separation(at, body, reference)
             far  == Separation(at, other, reference)
         IN  near < far \/ (near = far /\ body[2] <= other[2])]

(* Sum of one coordinate over a squad's members, goalie included. *)
Members(assigned, team, squad) == {body \in {team} \X Roster : assigned[body] = squad}
SumOver(at, members, axis) ==
  LET Upto[n \in 0 .. Cardinality(Roster)] ==
        IF n = 0 THEN 0
        ELSE Upto[n - 1] + (IF \E body \in members : body[2] = n - 1
                            THEN at[CHOOSE body \in members : body[2] = n - 1][axis] ELSE 0)
  IN  Upto[Cardinality(Roster)]

(* Mutant: the sum shifted, which rounds a mean down. *)
CentroidFloored(at, assigned, team, squad) ==
  LET members == Members(assigned, team, squad)
      Mean(axis) == SumOver(at, members, axis) \div Cardinality(members)
  IN  Vec(Mean("x"), Mean("y"), Mean("z"))

SquadCentroid(at, assigned, team, squad) ==
  LET members == Members(assigned, team, squad)
      Mean(axis) == Truncated(SumOver(at, members, axis), Cardinality(members))
  IN  Vec(Mean("x"), Mean("y"), Mean("z"))

-----------------------------------------------------------------------------

(* The anchor a target names; an empty squad falls back on the slot. *)
TargetOf(entry, at, assigned, me, slot) ==
  LET team == me[1]
  IN  CASE entry.target = "GameBall"        -> at[Ball]
        [] entry.target = "OwnGoal"         -> OwnGoal(team)
        [] entry.target = "OpponentGoal"    -> OwnGoal(Opponent(team))
        [] entry.target = "Squad"           ->
             IF Members(assigned, team, entry.squad) = {} THEN slot
             ELSE SquadCentroid(at, assigned, team, entry.squad)
        [] entry.target = "NearestOpponent" -> Nearest(at, Opponent(team), at[Ball])
        [] entry.target = "NearestToMe"     -> Nearest(at, Opponent(team), at[me])
        [] entry.target = "Slot"            -> slot

(* Mutant: the contact point on the far side. *)
Beyond(target, axis) == Plus(target, Normalized(axis))

Toward(target, axis, standoff) == Plus(target, Scaled(Normalized(axis), standoff))
Behind(target, axis) == Minus(target, Normalized(axis))
Halfway(a, b) == QMul(Wrap(a + b), Half)

(* Each verb's aim point and construction axis. *)
AimPoint(verb, target, slot, at, me) ==
  LET own       == OwnGoal(me[1])
      downfield == Minus(OwnGoal(Opponent(me[1])), target)
      goalward  == Minus(own, target)
      Aimed(aim, axis) == [aim |-> aim, axis |-> axis]
  IN  CASE verb = "Align"  -> Aimed(slot, NoAxis)
        [] verb = "Pursue" -> Aimed(target, NoAxis)
        [] verb = "Drive"  -> Aimed(Behind(target, downfield), downfield)
        [] verb = "Clear"  -> Aimed(Behind(target, Minus(target, own)), Minus(target, own))
        [] verb = "Cover"  -> Aimed(Toward(target, goalward, CoverGap), goalward)
        [] verb = "Zone"   -> Aimed(Scaled(Plus(target, own), Half), goalward)
        [] verb = "Sweep"  -> Aimed(Vec(Halfway(target.x, own.x), target.y, target.z), goalward)
        [] verb = "Block"  -> LET axis == Minus(at[Ball], target)
                              IN  Aimed(Toward(target, axis, CoverGap), axis)
        [] verb = "Lead"   -> Aimed(Toward(target, downfield, CoverGap), downfield)
        [] verb = "Jam"    -> LET axis == Minus(target, at[me])
                              IN  Aimed(Toward(target, axis, One), axis)
        [] verb = "Guard"  -> Aimed(Vec(own.x, ClampTo(target.y, -GoalHalfWidth, GoalHalfWidth), own.z),
                                    NoAxis)

(* One body's intent: the entry, template and ordinal its role and local   *)
(* ID pick; only the template is turned into the team's frame.             *)
ResolveBody(node, at, assigned, me) ==
  LET goalie   == me[2] = Goalie
      entry    == IF goalie THEN node.goalieVerb ELSE node.verbs[SquadFor(node.cycle, me[2])]
      template == IF goalie THEN node.goalie ELSE node.fielder
      ordinal  == IF goalie THEN 0 ELSE SquadOrdinal(node.cycle, me[2])
      slot     == HalfTurn(template.position, me[1])
      target   == TargetOf(entry, at, assigned, me, slot)
      aimed    == AimPoint(entry.verb, target, slot, at, me)
  IN  [position |-> FormSlot(entry.form, FormFrame(aimed.axis, me[1]), aimed.aim, target, ordinal),
       spin     |-> IF entry.verb = "Align" THEN HalfTurn(template.spin, me[1]) ELSE Zero]

(* Mutant: the objective's place in the roster is dropped. *)
AssignedPlayersOnly(held, on) ==
  [body \in Player |-> SquadFor(playbook[on[body[1]]].cycle, body[2])]

(* The first pass latches every body's squad; the objective keeps its own. *)
Assigned(held, on) ==
  [body \in Body |-> IF body = Ball THEN held[Ball]
                     ELSE SquadFor(playbook[on[body[1]]].cycle, body[2])]

(* Mutant: anchors built before the assignment pass. *)
LatchedBefore(held, on) == held

(* The squads the anchors are built from: this tick's. *)
Latched(held, on) == Assigned(held, on)

(* The second pass reads only. *)
Resolved(at, held, on) ==
  [me \in Player |-> ResolveBody(playbook[on[me[1]]], at, Latched(held, on), me)]

-----------------------------------------------------------------------------

(* Coordinates take a sixteenth of the word (2048 units either way in the  *)
(* code, where half a pitch is 16): goals, authored places and wherever    *)
(* bodies are.  What form_slot adds to an aim point fits what is left of   *)
(* it (POD_EXTENT_MAX and FORM_GAP_MAX keep it under 20000 units).         *)
Room == WordLimit \div 16
InRoom(place) == place \in [x : -Room .. Room, y : -Room .. Room, z : -Room .. Room]

LaysOutWithin(form, ordinal, room) ==
  /\ form.kind \in {"Point", "Pod", "Wedge", "Arc"}
  /\ form.kind # "Point" => form.gap \in Int
  /\ form.kind \in {"Wedge", "Arc"} => 2 * AbsOf(Whole(AlternatingStep(ordinal), form.gap)) <= room
  /\ form.kind = "Pod" =>
       /\ form.rank \in Nat \ {0} /\ form.file \in Nat \ {0}
       /\ AbsOf(PodStart(form, ordinal) + QMul(Column(form, ordinal), Half))
            + AbsOf(Row(form, ordinal)) <= room

ASSUME RoomAssumption ==
  /\ CoverGap <= Room
  /\ {HalfLength, GoalHalfWidth, GoalHeight} \subseteq 0 .. Room
  /\ Kickoff \in [Body -> Vector]
  /\ \A body \in Body : InRoom(Kickoff[body])
  /\ \A nodes \in Playbooks, body \in Body : \A place \in Places[nodes][body] : InRoom(place)

ASSUME LayoutAssumption ==
  \A nodes \in Playbooks : \A n \in DOMAIN nodes :
    LET node == nodes[n]
    IN  /\ \A template \in {node.goalie, node.fielder} :
             InRoom(template.position) /\ InRoom(template.spin)
        /\ LaysOutWithin(node.goalieVerb.form, 0, 12 * Room)
        /\ \A local \in Roster \ {Goalie} :
             LaysOutWithin(node.verbs[SquadFor(node.cycle, local)].form,
                           SquadOrdinal(node.cycle, local), 12 * Room)

(* World::new: squads follow the local ID until a play assigns them. *)
Init ==
  /\ playbook \in Playbooks
  /\ positions = Kickoff
  /\ squads = [body \in Body |-> body[2] % 8]
  /\ cursors = [team \in Team |-> 0]
  /\ intents = Unresolved

Resolve ==
  /\ intents = Unresolved
  /\ squads' = Assigned(squads, cursors)
  /\ intents' = Resolved(positions, squads, cursors)
  /\ UNCHANGED <<playbook, positions, cursors>>

Motion ==
  /\ intents # Unresolved
  /\ intents' = Unresolved
  /\ \/ \E body \in Body : \E place \in Places[playbook][body] :
          /\ positions' = [positions EXCEPT ![body] = place]
          /\ UNCHANGED cursors
     \/ \E team \in Team, node \in DOMAIN playbook :
          /\ cursors' = [cursors EXCEPT ![team] = node]
          /\ UNCHANGED positions
  /\ UNCHANGED <<playbook, squads>>

Next == Resolve \/ Motion

Spec == Init /\ [][Next]_vars

-----------------------------------------------------------------------------

(* Every mailbox names a squad with an assignment, and every intent is a   *)
(* vector of words.                                                        *)
TypeOK ==
  /\ playbook \in Playbooks
  /\ positions \in [Body -> Vector]
  /\ squads \in [Body -> SquadNames(playbook)]
  /\ cursors \in [Team -> DOMAIN playbook]
  /\ intents = Unresolved \/ intents \in [Player -> [position : Vector, spin : Vector]]

(* One authored play means one thing for either team: in the world turned  *)
(* half way round, with the teams and their cursors exchanged, every body  *)
(* gets the turned intent of its counterpart, to the last raw unit.  No    *)
(* verb turns world geometry twice, no rounding prefers one end of the     *)
(* pitch, and ties fall alike (half_turn, solve.rs).                       *)
Counterpart(body) == IF body = Ball THEN Ball ELSE <<Opponent(body[1]), body[2]>>
HalfTurnSymmetry ==
  intents # Unresolved =>
    LET at   == [body \in Body |-> Turned(positions[Counterpart(body)])]
        held == [body \in Body |-> squads[Counterpart(body)]]
        on   == [team \in Team |-> cursors[Opponent(team)]]
        turned == Resolved(at, held, on)
    IN  \A me \in Player :
          /\ turned[me].position = Turned(intents[Counterpart(me)].position)
          /\ turned[me].spin = Turned(intents[Counterpart(me)].spin)

(* A body sent after a squad heads for a point among the bodies the play   *)
(* puts in that squad on this tick, never for where last tick's squad      *)
(* would be ("reads this tick's assignments rather than a mixture of two   *)
(* ticks'", Playbook::resolve), and for its own slot if nobody is in it.   *)
AimsAmongSquad ==
  intents # Unresolved =>
    \A me \in Player :
      LET node  == playbook[cursors[me[1]]]
          entry == node.verbs[SquadFor(node.cycle, me[2])]
          Among == {body \in {me[1]} \X Roster : SquadFor(node.cycle, body[2]) = entry.squad}
      IN  (me[2] # Goalie /\ entry.verb = "Pursue" /\ entry.target = "Squad" /\ entry.form = Point) =>
            IF Among = {} THEN intents[me].position = HalfTurn(node.fielder.position, me[1])
            ELSE \A axis \in {"x", "y", "z"} :
                   \E low, high \in Among :
                     /\ positions[low][axis] <= intents[me].position[axis]
                     /\ intents[me].position[axis] <= positions[high][axis]

(* A verb that stands off keeps to its side of the target: Cover never     *)
(* farther from its own goal than the target it covers, Lead never farther *)
(* from the opposing one, and Guard never leaves the mouth's plane or      *)
(* reaches outside its posts (aim_point).                                  *)
KeepsItsSide ==
  intents # Unresolved =>
    \A me \in Player :
      LET node   == playbook[cursors[me[1]]]
          entry  == IF me[2] = Goalie THEN node.goalieVerb ELSE node.verbs[SquadFor(node.cycle, me[2])]
          At     == intents[me].position
          Along(v) == QMul(v.x, Mirror(me[1]))
          ball   == positions[Ball]
      IN  (entry.form = Point) =>
            /\ (entry.verb = "Cover" /\ entry.target = "GameBall" /\ Along(ball) > Along(OwnGoal(me[1]))) =>
                 Along(At) <= Along(ball)
            /\ (entry.verb \in {"Drive", "Clear"} /\ entry.target = "GameBall"
                /\ AbsOf(ball.x) < HalfLength) => Along(At) <= Along(ball)
            /\ (entry.verb = "Lead" /\ entry.target = "GameBall"
                /\ Along(ball) < Along(OwnGoal(Opponent(me[1])))) => Along(At) >= Along(ball)
            /\ entry.verb = "Guard" => /\ At.x = OwnGoal(me[1]).x
                                       /\ AbsOf(At.y) <= GoalHalfWidth

=============================================================================
