--------------------------- MODULE ArithmeticRange --------------------------
(***************************************************************************)
(* The pure parts, FixedPoint, Formation and Sheet, over bounded operands: *)
(* a state is a vector, a scalar and a squad cycle with a form, and each   *)
(* step moves one of them on, the others standing at their first value.    *)
(***************************************************************************)
EXTENDS Sheet

CONSTANTS
  Reach,        \* vectors have coordinates in -Reach .. Reach
  ScalarReach,  \* scalar operands are -ScalarReach .. ScalarReach
  Squads,       \* mailbox indices a cycle draws from
  MaxCycle,     \* bound on the cycle's length
  Locals        \* local IDs of a roster, the goalie's included

(* The assigned squads are small unsigned integers, and a roster numbers   *)
(* its bodies from the goalie on.                                          *)
ASSUME RosterAssumption ==
  /\ Reach \in Nat
  /\ ScalarReach \in Nat
  /\ Squads \subseteq Nat
  /\ IsFiniteSet(Locals) /\ Goalie \in Locals
  /\ Locals = 0 .. Cardinality(Locals) - 1

(* No sum of operands meets the lower end of the word, which has no        *)
(* opposite in it.                                                         *)
ASSUME ReachAssumption == Reach + 5 < WordLimit

(* What the bounds on a sheet's pods and gaps are chosen for: 99 local IDs  *)
(* and pods to 100 leave room for gaps to 100 in the code's word.          *)
ASSUME LayoutAssumption == (Cardinality(Locals) + PodExtentMax) * FormGapMax < WordLimit

VARIABLES
  vector,   \* operand of the vector operations
  scalar,   \* operand of the scalar ones; nonnegative as a radicand
  cycle, form, axis   \* a squad cycle, a form and its construction axis

vars == <<vector, scalar, cycle, form, axis>>

Operands == -ScalarReach .. ScalarReach
Corner == Vec(-Reach, -Reach, -Reach)
Forms == {Wedge(2), Wedge(-One), Pod(1, 1, 3), Pod(2, 2, 2), Pod(2, 3, One), Pod(3, 1, -3)}
AuthoredForms ==
  {Pod(rank, file, gap) : rank, file \in 1 .. PodExtentMax + 1,
                          gap \in {FormGapMax, -FormGapMax, FormGapMax + 1, -WordLimit}}
    \cup {Wedge(gap) : gap \in {FormGapMax, -FormGapMax, -WordLimit}}
    \cup {Arc(gap) : gap \in {FormGapMax, -WordLimit}}
Axes == {NoAxis, Vec(0, 0, One), Vec(One, 0, 0), Vec(0, -One, 3)}

(* The forms laid out are accepted ones, and Fx::HALF is half of Fx::ONE.  *)
ASSUME FormsAssumption == One % 2 = 0 /\ \A laid \in Forms : AcceptedForm(laid)

Init ==
  /\ vector = Corner
  /\ scalar = -ScalarReach
  /\ cycle = <<>> /\ form = Point /\ axis = NoAxis

NextVector ==
  /\ scalar = -ScalarReach /\ cycle = <<>>
  /\ \E along \in {"x", "y", "z"} :
       vector[along] < Reach /\ vector' = [vector EXCEPT ![along] = @ + 1]
  /\ UNCHANGED <<scalar, cycle, form, axis>>

NextScalar ==
  /\ vector = Corner /\ cycle = <<>>
  /\ scalar < 2 * ScalarReach * ScalarReach
  /\ scalar' = scalar + 1
  /\ UNCHANGED <<vector, cycle, form, axis>>

FirstCycle ==
  /\ vector = Corner /\ scalar = -ScalarReach /\ cycle = <<>>
  /\ cycle' \in {<<squad>> : squad \in Squads}
  /\ \/ form' \in Forms /\ axis' \in Axes
     \/ form' \in AuthoredForms /\ axis' = NoAxis
  /\ UNCHANGED <<vector, scalar>>

Lengthen ==
  /\ cycle # <<>> /\ Len(cycle) < MaxCycle
  /\ form \in Forms
  /\ \E squad \in Squads : cycle' = Append(cycle, squad)
  /\ UNCHANGED <<vector, scalar, form, axis>>

Next == NextVector \/ NextScalar \/ FirstCycle \/ Lengthen

Spec == Init /\ [][Next]_vars

Fielders == Locals \ {Goalie}
Aim == Vec(5, -3, 2)

-----------------------------------------------------------------------------

(* isqrt64 is the floor of the square root on its whole domain, which      *)
(* needs its first guess to be no smaller than the root and its descent    *)
(* not to stop early (fixed.rs, isqrt64).                                  *)
IsqrtIsFloor ==
  scalar >= 0 =>
    LET root == Isqrt(scalar) IN root * root <= scalar /\ scalar < (root + 1) * (root + 1)

(* Products and quotients treat a sign and its opposite alike, and never   *)
(* gain magnitude: what one team's attacking frame computes is the other's *)
(* mirror image to the last raw unit (qmul, qdiv; GAME_TICK.md asks that   *)
(* no tier rounds down instead).                                           *)
RoundsTowardZero ==
  scalar \in Operands =>
    \A other \in Operands :
      /\ QMul(-scalar, other) = -QMul(scalar, other)
      /\ QMul(scalar, -other) = -QMul(scalar, other)
      /\ AbsOf(QMul(scalar, other)) * One <= AbsOf(scalar * other)
      /\ other # 0 => /\ QDiv(-scalar, other) = -QDiv(scalar, other)
                      /\ QDiv(scalar, -other) = -QDiv(scalar, other)

(* A vector that is not zero keeps a direction under truncation: its unit  *)
(* vector is not zero and no coordinate changes sign.  Every caller that   *)
(* tests a normalized vector for zero relies on it (Vec3Fx::normalized).   *)
DirectionSurvives ==
  /\ (Normalized(vector) = Zero) <=> (vector = Zero)
  /\ \A along \in {"x", "y", "z"} : Normalized(vector)[along] * vector[along] >= 0

(* The arithmetic cannot tell the teams' attacking frames apart: turning   *)
(* the operands half way round about z turns every result, to the last raw *)
(* unit, and a cross product (a spin, an impulse) turns like a position    *)
(* (half_turn: "A rotation maps polar and axial vectors identically").     *)
Spokes == {Vec(x, y, z) : x, y, z \in {-3, 0, 5}}
TurnsAlike ==
  /\ Turned(Normalized(vector)) = Normalized(Turned(vector))
  /\ \A other \in Spokes :
       /\ Turned(Plus(vector, other)) = Plus(Turned(vector), Turned(other))
       /\ Turned(Minus(vector, other)) = Minus(Turned(vector), Turned(other))
       /\ Turned(Cross(vector, other)) = Cross(Turned(vector), Turned(other))
       /\ Dot(vector, other) = Dot(Turned(vector), Turned(other))

(* The closed form a fielder's ordinal is computed by is the count of the  *)
(* squad's fielders with lower local IDs, for every cycle and in every     *)
(* turn of it: ordinals run from zero without a gap, the goalie takes none *)
(* and the subtraction never underflows (PlayNode::squad_ordinal).         *)
OrdinalsCount ==
  cycle # <<>> =>
    \A local \in Fielders :
      SquadOrdinal(cycle, local) =
        Cardinality({other \in Fielders :
                       other < local /\ SquadFor(cycle, other) = SquadFor(cycle, local)})

(* Two fielders of one squad never stand on one slot of a wedge or of pods *)
(* laid out along an axis of the field, whatever the turn of the cycle, and *)
(* a frame without a direction puts all of them on the aim point           *)
(* (form_slot, FormFrame::new: "collapses every form to Point").           *)
SlotsDistinct ==
  (cycle # <<>> /\ form \in Forms) =>
    LET frame == FormFrame(axis, "zero")
        SlotOf(local) == FormSlot(form, frame, Aim, Aim, SquadOrdinal(cycle, local))
    IN  \A one, two \in Fielders :
          (one # two /\ SquadFor(cycle, one) = SquadFor(cycle, two)) =>
            ((SlotOf(one) = SlotOf(two)) <=> (frame.forward = Zero))

(* A decimal literal becomes the word nearest to it, on either side of     *)
(* zero alike, or is refused: just where the nearest word does not exist,  *)
(* a fraction that carries past the last one included (parse_fixed).       *)
Wholes == {0, 1, WordLimit \div One - 1, WordLimit \div One}
LiteralsRound ==
  \A digits \in 1 .. 3, whole \in Wholes, negative \in BOOLEAN :
    scalar \in 0 .. TenTo[digits] - 1 =>
      LET exact  == (whole * TenTo[digits] + scalar) * One * (IF negative THEN -1 ELSE 1)
          parsed == ParseFixed(negative, whole, scalar, digits)
      IN  IF parsed = InvalidFixed
          THEN 2 * exact >= (2 * WordLimit - 1) * TenTo[digits]
                 \/ 2 * exact <= (-2 * WordLimit - 1) * TenTo[digits]
          ELSE 2 * AbsOf(parsed * TenTo[digits] - exact) <= TenTo[digits]

(* No accepted form can drive the layout out of the word, whichever body   *)
(* of the roster stands in it: "gaps to 100 keep every qmul inside the i32 *)
(* domain" (FORM_GAP_MAX, POD_EXTENT_MAX).                                 *)
AcceptedSlotsFit ==
  (cycle # <<>> /\ AcceptedForm(form)) =>
    \A ordinal \in 0 .. Cardinality(Locals) - 1 :
      IF form.kind = "Pod"
      THEN /\ {PodStart(form, ordinal), Column(form, ordinal), Row(form, ordinal)} \subseteq Word
           /\ PodStart(form, ordinal) + QMul(Column(form, ordinal), Half) \in Word
      ELSE Whole(AlternatingStep(ordinal), GapOf(form)) \in Word

=============================================================================
