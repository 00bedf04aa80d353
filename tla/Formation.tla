----------------------------- MODULE Formation -----------------------------
(***************************************************************************)
(* What a call sheet's squads and forms compute: which squad a local ID    *)
(* belongs to, which ordinal it has among the squad's fielders, and the    *)
(* slot its form gives that ordinal about the squad's aim point            *)
(* (zoomieball-core/src/playbook/mod.rs and solve.rs).                     *)
(*                                                                         *)
(* A squad cycle is a sequence of squads numbered from 1 here and from 0   *)
(* in the code.  Gaps and coordinates are raw words.                       *)
(***************************************************************************)
EXTENDS FixedPoint, Sequences, FiniteSets

Team == {"zero", "one"}
Opponent(team) == IF team = "zero" THEN "one" ELSE "zero"

Goalie == 0   \* LocalId::GOALIE

(* Team::attack_axis, and the sign it carries. *)
AttackAxis(team) == IF team = "zero" THEN UnitX ELSE Vec(-One, 0, 0)
Mirror(team) == AttackAxis(team).x

(* Only an authored operand passes through: a template's position or spin. *)
HalfTurn(operand, team) ==
  Vec(QMul(operand.x, Mirror(team)), QMul(operand.y, Mirror(team)), operand.z)

-----------------------------------------------------------------------------

(* Position of a local ID in the cycle, and the mailbox assigned to it. *)
CyclePosition(cycle, local) == 1 + (local % Len(cycle))
SquadFor(cycle, local) == cycle[CyclePosition(cycle, local)]

(* The tables compile_node flattens a cycle into. *)
SquadCount(cycle, squad) == Cardinality({p \in DOMAIN cycle : cycle[p] = squad})
CyclePrefix(cycle, position) ==
  Cardinality({p \in 1 .. position - 1 : cycle[p] = cycle[position]})

(* Mutant: nobody is left out of the count. *)
NoCorrection(cycle, squad) == 0
GoalieCorrection(cycle, squad) == IF cycle[1] = squad THEN 1 ELSE 0

(* The closed form for a fielder's ordinal in its squad. *)
SquadOrdinal(cycle, local) ==
  LET squad == SquadFor(cycle, local)
  IN  (local \div Len(cycle)) * SquadCount(cycle, squad)
        + CyclePrefix(cycle, CyclePosition(cycle, local))
        - GoalieCorrection(cycle, squad)

-----------------------------------------------------------------------------

(* Mutant: the pair of steps that share a magnitude starts one early. *)
AlternatingFromZero(ordinal) ==
  LET magnitude == ordinal \div 2 IN IF ordinal % 2 = 1 THEN magnitude ELSE -magnitude

(* 0, +1, -1, +2, -2, ...: centred without knowing how many members follow. *)
AlternatingStep(ordinal) ==
  LET magnitude == (ordinal + 1) \div 2 IN IF ordinal % 2 = 1 THEN magnitude ELSE -magnitude

NoAxis == [none |-> TRUE]

(* Forward along the floor projection of the construction axis, or along   *)
(* the attack axis where a verb constructs none; lateral is forward turned *)
(* a quarter to the right.                                                 *)
FormFrame(axis, team) ==
  LET forward == IF axis = NoAxis THEN AttackAxis(team)
                                  ELSE Normalized(Vec(axis.x, axis.y, 0))
  IN  [forward |-> forward, lateral |-> Vec(forward.y, -forward.x, 0)]

(* forms: [kind, gap] and, for a Pod, rank and file. *)
Point == [kind |-> "Point"]
Wedge(gap) == [kind |-> "Wedge", gap |-> gap]
Arc(gap) == [kind |-> "Arc", gap |-> gap]
Pod(rank, file, gap) == [kind |-> "Pod", rank |-> rank, file |-> file, gap |-> gap]

Whole(count, gap) == QMul(count * One, gap)   \* Fx::from_i32(count) * gap

Abreast(aim, frame, across, back) ==
  Minus(Plus(aim, Scaled(frame.lateral, across)), Scaled(frame.forward, back))

(* Consecutive pods, file across and rank deep, a pod's gap apart: where   *)
(* an ordinal's pod starts, its column's place in it and its row's.        *)
PodStart(form, ordinal) ==
  Whole(AlternatingStep(ordinal \div (form.rank * form.file)) * (form.file + 1), form.gap)
Column(form, ordinal) ==
  Whole(2 * ((ordinal % (form.rank * form.file)) % form.file) - (form.file - 1), form.gap)
Row(form, ordinal) ==
  Whole((ordinal % (form.rank * form.file)) \div form.file, form.gap)

PodSlot(form, frame, aim, ordinal) ==
  Abreast(aim, frame, PodStart(form, ordinal) + QMul(Column(form, ordinal), Half), Row(form, ordinal))

WedgeSlot(form, frame, aim, ordinal) ==
  LET step == AlternatingStep(ordinal)
  IN  Abreast(aim, frame, Whole(step, form.gap), Whole(AbsOf(step), form.gap))

(* About the target: back on to the circle through the aim point. *)
ArcSlot(form, frame, aim, target, ordinal) ==
  LET spoke == Minus(aim, target)
      chord == Scaled(frame.lateral, Whole(AlternatingStep(ordinal), form.gap))
  IN  Plus(target, Scaled(Normalized(Plus(spoke, chord)), Length(spoke)))

(* No form displaces vertically. *)
FormSlot(form, frame, aim, target, ordinal) ==
  LET placed == CASE form.kind = "Point" -> aim
                  [] form.kind = "Pod"   -> PodSlot(form, frame, aim, ordinal)
                  [] form.kind = "Wedge" -> WedgeSlot(form, frame, aim, ordinal)
                  [] form.kind = "Arc"   -> ArcSlot(form, frame, aim, target, ordinal)
  IN  Vec(placed.x, placed.y, aim.z)

=============================================================================
