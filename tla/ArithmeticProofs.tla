-------------------------- MODULE ArithmeticProofs --------------------------
(***************************************************************************)
(* What ArithmeticRange checks over bounded operands, for every operand    *)
(* and every word: roots, directions, the half turn, ordinals, literals    *)
(* and the room a layout takes.                                            *)
(***************************************************************************)
EXTENDS ArithmeticRange, FixedPointProofs, SequenceTheorems

(* Whatever the word, qmul and qdiv treat a sign and its opposite alike    *)
(* and a product never gains magnitude.                                    *)
THEOREM MirroredArithmetic == Spec => []RoundsTowardZero
<1>1. RoundsTowardZero
  <2> SUFFICES ASSUME scalar \in Operands, NEW other \in Operands
               PROVE  /\ QMul(-scalar, other) = -QMul(scalar, other)
                      /\ QMul(scalar, -other) = -QMul(scalar, other)
                      /\ AbsOf(QMul(scalar, other)) * One <= AbsOf(scalar * other)
                      /\ other # 0 => /\ QDiv(-scalar, other) = -QDiv(scalar, other)
                                      /\ QDiv(scalar, -other) = -QDiv(scalar, other)
    BY DEF RoundsTowardZero
  <2>1. scalar \in Int /\ other \in Int /\ One \in Nat \ {0}
    BY RosterAssumption, FixedAssumption DEF Operands
  <2>2. /\ scalar * other \in Int
        /\ (-scalar) * other = -(scalar * other)
        /\ scalar * (-other) = -(scalar * other)
        /\ scalar * One \in Int
        /\ (-scalar) * One = -(scalar * One)
    BY <2>1
  <2>3. /\ QMul(-scalar, other) = -QMul(scalar, other)
        /\ QMul(scalar, -other) = -QMul(scalar, other)
    BY <2>1, <2>2, TruncatedIsOdd DEF QMul
  <2>4. AbsOf(QMul(scalar, other)) * One <= AbsOf(scalar * other)
    BY <2>1, <2>2, TruncatedLosesMagnitude DEF QMul
  <2>5. ASSUME other # 0
        PROVE  /\ QDiv(-scalar, other) = -QDiv(scalar, other)
               /\ QDiv(scalar, -other) = -QDiv(scalar, other)
    BY <2>1, <2>2, <2>5, TruncatedIsOdd DEF QDiv
  <2> QED
    BY <2>3, <2>4, <2>5
<1> QED
  BY <1>1, PTL

-----------------------------------------------------------------------------

(* What the operands are in every state. *)
OperandsInRange ==
  /\ vector = Vec(vector.x, vector.y, vector.z)
  /\ vector.x \in -Reach .. Reach
  /\ vector.y \in -Reach .. Reach
  /\ vector.z \in -Reach .. Reach
  /\ scalar \in Int

LEMMA OperandsStayInRange == Spec => []OperandsInRange
<1>1. Init => OperandsInRange
  BY RosterAssumption DEF Init, OperandsInRange, Corner, Vec
<1>2. OperandsInRange /\ [Next]_vars => OperandsInRange'
  <2> SUFFICES ASSUME OperandsInRange, [Next]_vars PROVE OperandsInRange'
    OBVIOUS
  <2>1. CASE NextVector
    <3>1. PICK along \in {"x", "y", "z"} :
             vector[along] < Reach /\ vector' = [vector EXCEPT ![along] = @ + 1]
      BY <2>1 DEF NextVector
    <3> DEFINE x == vector.x
               y == vector.y
               z == vector.z
    <3>2. vector = Vec(x, y, z) /\ x \in -Reach .. Reach /\ y \in -Reach .. Reach /\ z \in -Reach .. Reach
      BY DEF OperandsInRange
    <3> HIDE DEF x, y, z
    <3>3. \/ vector' = Vec(x + 1, y, z) /\ x < Reach
          \/ vector' = Vec(x, y + 1, z) /\ y < Reach
          \/ vector' = Vec(x, y, z + 1) /\ z < Reach
      <4>1. /\ Vec(x, y, z)[along] < Reach
            /\ vector' = [Vec(x, y, z) EXCEPT ![along] = Vec(x, y, z)[along] + 1]
        BY <3>1, <3>2
      <4>2. CASE along = "x"
        BY <4>1, <4>2 DEF Vec
      <4>3. CASE along = "y"
        BY <4>1, <4>3 DEF Vec
      <4>4. CASE along = "z"
        BY <4>1, <4>4 DEF Vec
      <4> QED
        BY <4>2, <4>3, <4>4
    <3>4. scalar' \in Int
      BY <2>1 DEF NextVector, OperandsInRange
    <3> QED
      BY <3>2, <3>3, <3>4, RosterAssumption DEF OperandsInRange, Vec
  <2>2. CASE NextScalar
    BY <2>2 DEF NextScalar, OperandsInRange
  <2>3. CASE FirstCycle
    BY <2>3 DEF FirstCycle, OperandsInRange
  <2>4. CASE Lengthen
    BY <2>4 DEF Lengthen, OperandsInRange
  <2>5. CASE UNCHANGED vars
    BY <2>5 DEF vars, OperandsInRange
  <2> QED
    BY <2>1, <2>2, <2>3, <2>4, <2>5 DEF Next
<1> QED
  BY <1>1, <1>2, PTL DEF Spec

(* isqrt64 answers the floor of the root, of every radicand: the guess is  *)
(* above it, no step of the descent falls below it, and only at it does a  *)
(* step fail to fall (fixed.rs, isqrt64).                                  *)
THEOREM RootsAreFloors == Spec => []IsqrtIsFloor
<1>1. OperandsInRange => IsqrtIsFloor
  <2> SUFFICES ASSUME OperandsInRange, scalar >= 0
               PROVE  /\ Isqrt(scalar) * Isqrt(scalar) <= scalar
                      /\ scalar < (Isqrt(scalar) + 1) * (Isqrt(scalar) + 1)
    BY DEF IsqrtIsFloor
  <2>1. scalar \in Nat
    BY DEF OperandsInRange
  <2> QED
    BY <2>1, FloorOfRoot DEF IsFloorRoot
<1> QED
  BY <1>1, OperandsStayInRange, PTL

-----------------------------------------------------------------------------

(* Truncation never takes a vector's direction away, however short the     *)
(* vector, nor turns a coordinate round: a unit is at least two raw units, *)
(* so some coordinate of a unit vector is (Vec3Fx::normalized).            *)
THEOREM DirectionsSurvive == Spec => []DirectionSurvives
<1>1. OperandsInRange => DirectionSurvives
  <2> SUFFICES ASSUME OperandsInRange PROVE DirectionSurvives
    OBVIOUS
  <2> DEFINE v == vector
             length == Length(v)
  <2>1. IsVector(v)
    BY RosterAssumption DEF OperandsInRange, IsVector
  <2>2. /\ RawDot(v, v) \in Nat /\ length \in Nat
        /\ length * length <= RawDot(v, v)
        /\ length = 0 <=> (v.x = 0 /\ v.y = 0 /\ v.z = 0)
    BY <2>1, LengthIsFloor DEF IsFloorRoot
  <2>3. v = Zero <=> (v.x = 0 /\ v.y = 0 /\ v.z = 0)
    BY <2>1 DEF IsVector, Zero, Vec
  <2>4. Normalized(v) = IF length = 0 THEN Zero
                        ELSE Vec(QDiv(v.x, length), QDiv(v.y, length), QDiv(v.z, length))
    BY DEF Normalized
  <2>5. CASE length = 0
    <3>1. Normalized(v) = Zero /\ v = Zero
      BY <2>2, <2>3, <2>4, <2>5
    <3>2. \A along \in {"x", "y", "z"} : Zero[along] * Zero[along] >= 0
      BY DEF Zero, Vec
    <3> HIDE DEF length
    <3> QED
      BY <3>1, <3>2 DEF DirectionSurvives
  <2>6. CASE length # 0
    <3> DEFINE a == QDiv(v.x, length)
               b == QDiv(v.y, length)
               c == QDiv(v.z, length)
    <3>1. length \in Nat \ {0} /\ v.x \in Int /\ v.y \in Int /\ v.z \in Int
      BY <2>1, <2>2, <2>6 DEF IsVector
    <3> HIDE DEF v, length
    <3>2. /\ a * v.x >= 0 /\ b * v.y >= 0 /\ c * v.z >= 0
          /\ a = 0 <=> AbsOf(v.x) * One < length
          /\ b = 0 <=> AbsOf(v.y) * One < length
          /\ c = 0 <=> AbsOf(v.z) * One < length
      BY <3>1, CoordinateKeepsSign
    <3>3. ~(a = 0 /\ b = 0 /\ c = 0)
      BY <2>1, <2>2, <3>1, <3>2, SomeCoordinateSurvives
    <3> HIDE DEF a, b, c
    <3>4. Normalized(v) = Vec(a, b, c)
      BY <2>4, <2>6 DEF a, b, c
    <3>5. Normalized(v) # Zero
      BY <3>3, <3>4 DEF Zero, Vec
    <3>6. v # Zero
      BY <2>2, <2>3, <2>6
    <3>7. /\ Normalized(v).x * v.x >= 0
          /\ Normalized(v).y * v.y >= 0
          /\ Normalized(v).z * v.z >= 0
      BY <3>2, <3>4 DEF Vec
    <3> QED
      BY <3>5, <3>6, <3>7 DEF DirectionSurvives, v
  <2> QED
    BY <2>5, <2>6
<1> QED
  BY <1>1, OperandsStayInRange, PTL

-----------------------------------------------------------------------------

(* In both coordinates the half turn touches, sums, differences and        *)
(* products turn with their operands.                                      *)
LEMMA SumsTurn ==
  ASSUME NEW a \in -Reach .. Reach, NEW b \in -5 .. 5
  PROVE  /\ Wrap(-a + -b) = -Wrap(a + b) /\ Wrap(-a - (-b)) = -Wrap(a - b)
         /\ Wrap(a + b) \in Int /\ Wrap(a - b) \in Int
<1>1. Reach \in Nat /\ WordLimit \in Nat /\ Reach + 5 < WordLimit
  BY RosterAssumption, ReachAssumption, FixedAssumption
<1>2. /\ a + b \in Word /\ a - b \in Word /\ -a + -b \in Word /\ -a - (-b) \in Word
      /\ a + b \in Int /\ a - b \in Int /\ -a + -b = -(a + b) /\ -a - (-b) = -(a - b)
  BY <1>1 DEF Word
<1> QED
  BY <1>2, WordsDoNotWrap

LEMMA OperationsTurn ==
  ASSUME NEW v, IsVector(v), NEW w, IsVector(w),
         v.x \in -Reach .. Reach, v.y \in -Reach .. Reach,
         w.x \in -5 .. 5, w.y \in -5 .. 5
  PROVE  /\ Turned(Plus(v, w)) = Plus(Turned(v), Turned(w))
         /\ Turned(Minus(v, w)) = Minus(Turned(v), Turned(w))
         /\ Turned(Cross(v, w)) = Cross(Turned(v), Turned(w))
         /\ Dot(v, w) = Dot(Turned(v), Turned(w))
<1> DEFINE a == v.x
           b == v.y
           c == v.z
           i == w.x
           j == w.y
           k == w.z
<1>1. /\ v = Vec(a, b, c) /\ a \in Int /\ b \in Int /\ c \in Int
      /\ w = Vec(i, j, k) /\ i \in Int /\ j \in Int /\ k \in Int
  BY DEF IsVector
<1>2. Turned(v) = Vec(-a, -b, c) /\ Turned(w) = Vec(-i, -j, k)
  BY TurnedChangesSigns
<1>3. /\ a \in -Reach .. Reach /\ b \in -Reach .. Reach /\ i \in -5 .. 5 /\ j \in -5 .. 5
  OBVIOUS
<1> HIDE DEF a, b, c, i, j, k
<1>4. Wrap(c + k) \in Int /\ Wrap(c - k) \in Int
  <2>1. WordLimit \in Nat \ {0}
    BY FixedAssumption
  <2> QED
    BY <1>1, <2>1 DEF Wrap
<1>5. Turned(Plus(v, w)) = Plus(Turned(v), Turned(w))
  <2>1. Plus(v, w) = Vec(Wrap(a + i), Wrap(b + j), Wrap(c + k))
    BY <1>1 DEF Plus, Vec
  <2>2. IsVector(Plus(v, w))
    BY <2>1, <1>3, <1>4, SumsTurn DEF IsVector, Vec
  <2>3. Turned(Plus(v, w)) = Vec(-Wrap(a + i), -Wrap(b + j), Wrap(c + k))
    BY <2>1, <2>2, TurnedChangesSigns DEF Vec
  <2>4. Plus(Turned(v), Turned(w)) = Vec(Wrap(-a + -i), Wrap(-b + -j), Wrap(c + k))
    BY <1>2 DEF Plus, Vec
  <2> QED
    BY <2>3, <2>4, <1>3, SumsTurn
<1>6. Turned(Minus(v, w)) = Minus(Turned(v), Turned(w))
  <2>1. Minus(v, w) = Vec(Wrap(a - i), Wrap(b - j), Wrap(c - k))
    BY <1>1 DEF Minus, Vec
  <2>2. IsVector(Minus(v, w))
    BY <2>1, <1>3, <1>4, SumsTurn DEF IsVector, Vec
  <2>3. Turned(Minus(v, w)) = Vec(-Wrap(a - i), -Wrap(b - j), Wrap(c - k))
    BY <2>1, <2>2, TurnedChangesSigns DEF Vec
  <2>4. Minus(Turned(v), Turned(w)) = Vec(Wrap(-a - (-i)), Wrap(-b - (-j)), Wrap(c - k))
    BY <1>2 DEF Minus, Vec
  <2> QED
    BY <2>3, <2>4, <1>3, SumsTurn
<1>7. Turned(Cross(v, w)) = Cross(Turned(v), Turned(w))
  <2> DEFINE p == (b * k) - (c * j)
             q == (c * i) - (a * k)
             r == (a * j) - (b * i)
  <2>1. Cross(v, w) = Vec(Truncated(p, One), Truncated(q, One), Truncated(r, One))
    BY <1>1 DEF Cross, Vec
  <2>2. /\ p \in Int /\ q \in Int /\ r \in Int
        /\ ((-b) * k) - (c * (-j)) = -p
        /\ (c * (-i)) - ((-a) * k) = -q
        /\ ((-a) * (-j)) - ((-b) * (-i)) = r
    BY <1>1
  <2>3. Cross(Turned(v), Turned(w)) =
          Vec(Truncated(((-b) * k) - (c * (-j)), One), Truncated((c * (-i)) - ((-a) * k), One),
              Truncated(((-a) * (-j)) - ((-b) * (-i)), One))
    BY <1>2 DEF Cross, Vec
  <2>4. Cross(Turned(v), Turned(w)) = Vec(Truncated(-p, One), Truncated(-q, One), Truncated(r, One))
    BY <2>2, <2>3
  <2> HIDE DEF p, q, r
  <2>5. One \in Nat \ {0}
    BY FixedAssumption
  <2>6. /\ Truncated(-p, One) = -Truncated(p, One) /\ Truncated(-q, One) = -Truncated(q, One)
        /\ Truncated(p, One) \in Int /\ Truncated(q, One) \in Int /\ Truncated(r, One) \in Int
    BY <2>2, <2>5, TruncatedIsOdd, TruncatedLosesMagnitude
  <2>7. IsVector(Cross(v, w))
    BY <2>1, <2>6 DEF IsVector, Vec
  <2>8. Turned(Cross(v, w)) = Vec(-Truncated(p, One), -Truncated(q, One), Truncated(r, One))
    BY <2>1, <2>7, TurnedChangesSigns DEF Vec
  <2> QED
    BY <2>4, <2>6, <2>8
<1>8. Dot(v, w) = Dot(Turned(v), Turned(w))
  <2>1. RawDot(v, w) = (a * i) + (b * j) + (c * k)
    BY <1>1 DEF RawDot, Vec
  <2>2. RawDot(Turned(v), Turned(w)) = ((-a) * (-i)) + ((-b) * (-j)) + (c * k)
    BY <1>2 DEF RawDot, Vec
  <2>3. (-a) * (-i) = a * i /\ (-b) * (-j) = b * j
    BY <1>1
  <2> QED
    BY <2>1, <2>2, <2>3 DEF Dot
<1> QED
  BY <1>5, <1>6, <1>7, <1>8

(* Turning the operands half way round about z turns every result, to the  *)
(* last raw unit: no team's frame is favoured by a rounding (half_turn).   *)
THEOREM FramesAreAlike == Spec => []TurnsAlike
<1>1. OperandsInRange => TurnsAlike
  <2> SUFFICES ASSUME OperandsInRange PROVE TurnsAlike
    OBVIOUS
  <2>1. /\ IsVector(vector)
        /\ vector.x \in -Reach .. Reach /\ vector.y \in -Reach .. Reach
    BY RosterAssumption DEF OperandsInRange, IsVector
  <2>2. Turned(Normalized(vector)) = Normalized(Turned(vector))
    BY <2>1, DirectionsTurn
  <2>3. ASSUME NEW other \in Spokes
        PROVE  IsVector(other) /\ other.x \in -5 .. 5 /\ other.y \in -5 .. 5
    <3>1. PICK x \in {-3, 0, 5}, y \in {-3, 0, 5}, z \in {-3, 0, 5} : other = Vec(x, y, z)
      BY DEF Spokes
    <3> QED
      BY <3>1 DEF IsVector, Vec
  <2>4. ASSUME NEW other \in Spokes
        PROVE  /\ Turned(Plus(vector, other)) = Plus(Turned(vector), Turned(other))
               /\ Turned(Minus(vector, other)) = Minus(Turned(vector), Turned(other))
               /\ Turned(Cross(vector, other)) = Cross(Turned(vector), Turned(other))
               /\ Dot(vector, other) = Dot(Turned(vector), Turned(other))
    BY <2>1, <2>3, OperationsTurn
  <2> QED
    BY <2>2, <2>4 DEF TurnsAlike
<1> QED
  BY <1>1, OperandsStayInRange, PTL

-----------------------------------------------------------------------------

LEMMA PowersOfTen ==
  /\ TenTo \in [Nat -> Nat]
  /\ TenTo[0] = 1
  /\ \A n \in Nat : TenTo[n + 1] = 10 * TenTo[n]
<1>1. \E f : IsPower(f, 10)
  BY PowersExist
<1>2. IsPower(TenTo, 10)
  BY <1>1 DEF TenTo, IsPower
<1> QED
  BY <1>2, PowersMultiply

(* Rounding half up leaves at most half a unit of error when the unit is   *)
(* even.                                                                   *)
LEMMA RoundedQuotient ==
  ASSUME NEW n \in Nat, NEW h \in Nat \ {0}
  PROVE  /\ (n + h) \div (2 * h) \in Nat
         /\ ((n + h) \div (2 * h)) * (2 * h) - n \in -h .. h
<1> DEFINE unit == 2 * h
           m == n + h
           q == m \div unit
           r == m % unit
<1>1. unit \in Nat \ {0} /\ m \in Nat
  OBVIOUS
<1> HIDE DEF unit, m
<1>2. m = (unit * q) + r /\ r \in 0 .. unit - 1 /\ q \in Nat
  <2>1. m = (unit * q) + r /\ r \in 0 .. unit - 1 /\ q \in Int
    BY <1>1
  <2>2. q >= 0
    BY <1>1
  <2> QED
    BY <2>1, <2>2
<1> HIDE DEF q, r
<1>3. unit * q = q * unit /\ q * unit \in Int
  BY <1>1, <1>2
<1>4. q * unit - n \in -h .. h
  BY <1>2, <1>3 DEF m, unit
<1> QED
  BY <1>2, <1>4 DEF q, m, unit

(* A decimal literal becomes the word nearest to it on either side of zero *)
(* alike, or is refused just where there is none, whatever the number of   *)
(* its digits and whatever the word: the rounding is by half an even unit, *)
(* so no literal loses more than half a raw unit (parse_fixed).            *)
LEMMA LiteralRounds ==
  ASSUME NEW digits \in Nat \ {0}, NEW whole \in Nat, NEW negative \in BOOLEAN,
         NEW numerator \in 0 .. TenTo[digits] - 1
  PROVE  LET exact  == (whole * TenTo[digits] + numerator) * One * (IF negative THEN -1 ELSE 1)
             parsed == ParseFixed(negative, whole, numerator, digits)
         IN  IF parsed = InvalidFixed
             THEN 2 * exact >= (2 * WordLimit - 1) * TenTo[digits]
                    \/ 2 * exact <= (-2 * WordLimit - 1) * TenTo[digits]
             ELSE 2 * AbsOf(parsed * TenTo[digits] - exact) <= TenTo[digits]
<1> DEFINE unit == TenTo[digits]
           half == 5 * TenTo[digits - 1]
           fraction == Fraction(numerator, digits)
           magnitude == whole * One + fraction
           size == (whole * unit + numerator) * One
           exact == size * (IF negative THEN -1 ELSE 1)
           parsed == ParseFixed(negative, whole, numerator, digits)
<1>1. One \in Nat \ {0} /\ WordLimit \in Nat \ {0}
  BY FixedAssumption
<1>2. unit = 2 * half /\ half \in Nat /\ unit \div 2 = half
  <2>1. digits - 1 \in Nat /\ (digits - 1) + 1 = digits
    OBVIOUS
  <2>2. TenTo[digits] = 10 * TenTo[digits - 1] /\ TenTo[digits - 1] \in Nat
    BY <2>1, PowersOfTen
  <2> QED
    BY <2>2
<1>3. half # 0 /\ numerator \in Nat
  BY <1>2
<1>4. fraction = (numerator * One + half) \div (2 * half)
  BY <1>2 DEF Fraction
<1>5. parsed = LET signed == IF negative THEN -magnitude ELSE magnitude
               IN  IF signed \in Word THEN signed ELSE InvalidFixed
  BY DEF ParseFixed
<1> HIDE DEF unit, half, fraction, parsed
<1>6. numerator * One \in Nat
  BY <1>1, <1>3
<1>7. fraction \in Nat /\ fraction * (2 * half) - numerator * One \in -half .. half
  BY <1>2, <1>3, <1>4, <1>6, RoundedQuotient
<1>8. magnitude \in Nat /\ size \in Nat /\ magnitude * unit \in Nat
      /\ magnitude * unit - size \in -half .. half
  <2>1. whole * One \in Nat /\ whole * unit \in Nat /\ fraction * unit \in Nat
        /\ (whole * One) * unit \in Nat
    BY <1>1, <1>2, <1>7
  <2>2. magnitude * unit = ((whole * One) * unit) + (fraction * unit)
    BY <1>2, <1>7, <2>1
  <2>3. size = ((whole * unit) * One) + (numerator * One) /\ (whole * unit) * One = (whole * One) * unit
    BY <1>1, <1>2, <1>3, <2>1
  <2>4. fraction * unit - numerator * One \in -half .. half
    BY <1>2, <1>7
  <2> QED
    BY <1>6, <1>7, <2>1, <2>2, <2>3, <2>4
<1> HIDE DEF magnitude, size
<1>9. CASE negative
  <2>1. exact = -size
    BY <1>8, <1>9
  <2>2. CASE -magnitude \in Word
    <3>1. parsed = -magnitude /\ parsed # InvalidFixed
      BY <1>1, <1>5, <1>9, <2>2 DEF Word, InvalidFixed
    <3>2. parsed * unit = -(magnitude * unit)
      BY <1>2, <1>8, <3>1
    <3>3. 2 * AbsOf(parsed * unit - exact) <= unit
      BY <1>2, <1>8, <2>1, <3>2 DEF AbsOf
    <3> QED
      BY <3>1, <3>3 DEF unit, exact, parsed, size
  <2>3. CASE -magnitude \notin Word
    <3>1. parsed = InvalidFixed
      BY <1>5, <1>9, <2>3
    <3>2. magnitude >= WordLimit + 1
      BY <1>1, <1>8, <2>3 DEF Word
    <3>3. magnitude * unit >= (WordLimit + 1) * unit /\ (WordLimit + 1) * unit \in Nat
      BY <1>1, <1>2, <1>8, <3>2
    <3>4. (WordLimit + 1) * unit = (WordLimit * unit) + unit
          /\ (-2 * WordLimit - 1) * unit = -(2 * (WordLimit * unit)) - unit
          /\ WordLimit * unit \in Nat
      BY <1>1, <1>2
    <3>5. 2 * exact <= (-2 * WordLimit - 1) * unit
      BY <1>2, <1>8, <2>1, <3>3, <3>4
    <3> QED
      BY <3>1, <3>5 DEF unit, exact, parsed, size
  <2> QED
    BY <2>2, <2>3
<1>10. CASE ~negative
  <2>1. exact = size
    BY <1>8, <1>10
  <2>2. CASE magnitude \in Word
    <3>1. parsed = magnitude /\ parsed # InvalidFixed
      BY <1>1, <1>5, <1>10, <2>2 DEF Word, InvalidFixed
    <3>2. 2 * AbsOf(parsed * unit - exact) <= unit
      BY <1>2, <1>8, <2>1, <3>1 DEF AbsOf
    <3> QED
      BY <3>1, <3>2 DEF unit, exact, parsed, size
  <2>3. CASE magnitude \notin Word
    <3>1. parsed = InvalidFixed
      BY <1>5, <1>10, <2>3
    <3>2. magnitude >= WordLimit
      BY <1>1, <1>8, <2>3 DEF Word
    <3>3. magnitude * unit >= WordLimit * unit /\ WordLimit * unit \in Nat
      BY <1>1, <1>2, <1>8, <3>2
    <3>4. (2 * WordLimit - 1) * unit = (2 * (WordLimit * unit)) - unit
      BY <1>1, <1>2
    <3>5. 2 * exact >= (2 * WordLimit - 1) * unit
      BY <1>2, <1>8, <2>1, <3>3, <3>4
    <3> QED
      BY <3>1, <3>5 DEF unit, exact, parsed, size
  <2> QED
    BY <2>2, <2>3
<1> QED
  BY <1>9, <1>10

(* So with the literals of every state (parse_fixed). *)
THEOREM LiteralsAreNearest == Spec => []LiteralsRound
<1>1. LiteralsRound
  <2>1. Wholes \subseteq Nat
    <3>1. WordLimit \in Nat /\ One \in Nat \ {0} /\ One < WordLimit
      BY FixedAssumption
    <3> DEFINE q == WordLimit \div One
    <3>2. q \in Nat /\ q >= 1
      BY <3>1
    <3> HIDE DEF q
    <3> QED
      BY <3>2 DEF Wholes, q
  <2> SUFFICES ASSUME NEW digits \in 1 .. 3, NEW whole \in Wholes, NEW negative \in BOOLEAN,
                      scalar \in 0 .. TenTo[digits] - 1
               PROVE  LET exact  == (whole * TenTo[digits] + scalar) * One * (IF negative THEN -1 ELSE 1)
                          parsed == ParseFixed(negative, whole, scalar, digits)
                      IN  IF parsed = InvalidFixed
                          THEN 2 * exact >= (2 * WordLimit - 1) * TenTo[digits]
                                 \/ 2 * exact <= (-2 * WordLimit - 1) * TenTo[digits]
                          ELSE 2 * AbsOf(parsed * TenTo[digits] - exact) <= TenTo[digits]
    BY DEF LiteralsRound
  <2>2. digits \in Nat \ {0} /\ whole \in Nat
    BY <2>1
  <2> QED
    BY <2>2, LiteralRounds
<1> QED
  BY <1>1, PTL

-----------------------------------------------------------------------------

(* One more number counts if it is marked. *)
LEMMA CountNext ==
  ASSUME NEW marked, NEW a \in Nat, NEW k \in Int, a <= k + 1
  PROVE  /\ Cardinality((a .. k) \cap marked) \in Nat
         /\ Cardinality((a .. k + 1) \cap marked)
              = Cardinality((a .. k) \cap marked) + (IF k + 1 \in marked THEN 1 ELSE 0)
<1> DEFINE before == (a .. k) \cap marked
<1>1. IsFiniteSet(before)
  <2>1. IsFiniteSet(a .. k)
    BY FS_Interval
  <2> QED
    BY <2>1, FS_Subset
<1>2. Cardinality(before) \in Nat
  BY <1>1, FS_CardinalityType
<1>3. k + 1 \notin before
  OBVIOUS
<1>4. CASE k + 1 \in marked
  <2>1. (a .. k + 1) \cap marked = before \cup {k + 1}
    BY <1>4
  <2>2. Cardinality(before \cup {k + 1}) = Cardinality(before) + 1
    <3> HIDE DEF before
    <3> QED
      BY <1>1, <1>3, FS_AddElement
  <2> QED
    BY <1>2, <1>4, <2>1, <2>2
<1>5. CASE k + 1 \notin marked
  <2>1. (a .. k + 1) \cap marked = before
    BY <1>5
  <2> QED
    BY <1>2, <1>5, <2>1
<1> QED
  BY <1>4, <1>5

(* The members of one squad in the cycle, in its first k places. *)
Places(cyc, squad) == {p \in DOMAIN cyc : cyc[p] = squad}
InPrefix(cyc, squad, k) == Cardinality((1 .. k) \cap Places(cyc, squad))
Members(cyc, squad) == {local \in Nat : SquadFor(cyc, local) = squad}

(* Whole turns of the cycle add all its places, the rest of one a prefix.  *)
LEMMA MembersBelow ==
  ASSUME NEW S, NEW cyc \in Seq(S), cyc # <<>>, NEW squad, NEW n \in Nat
  PROVE  Cardinality((0 .. n - 1) \cap Members(cyc, squad))
           = (n \div Len(cyc)) * InPrefix(cyc, squad, Len(cyc)) + InPrefix(cyc, squad, n % Len(cyc))
<1> DEFINE L == Len(cyc)
           members == Members(cyc, squad)
           places == Places(cyc, squad)
           In(k) == Cardinality((1 .. k) \cap places)
           Below(k) == Cardinality((0 .. k - 1) \cap members)
           T == {k \in Nat : Below(k) = (k \div L) * In(L) + In(k % L)}
<1>1. L \in Nat \ {0} /\ DOMAIN cyc = 1 .. L
  BY EmptySeq, LenProperties
<1>2. ASSUME NEW k \in Nat
      PROVE  /\ k % L \in 0 .. L - 1
             /\ k \in members <=> (k % L) + 1 \in places
  BY <1>1 DEF Members, Places, SquadFor, CyclePosition
<1> HIDE DEF L, members, places
<1>3. In(0) = 0
  <2>1. (1 .. 0) \cap places = {}
    OBVIOUS
  <2> QED
    BY <2>1, FS_EmptySet
<1>4. ASSUME NEW k \in Nat
      PROVE  In(k) \in Nat /\ In(k + 1) = In(k) + (IF k + 1 \in places THEN 1 ELSE 0)
  <2>1. 1 \in Nat /\ k \in Int /\ 1 <= k + 1
    OBVIOUS
  <2>2. /\ Cardinality((1 .. k) \cap places) \in Nat
        /\ Cardinality((1 .. k + 1) \cap places)
             = Cardinality((1 .. k) \cap places) + (IF k + 1 \in places THEN 1 ELSE 0)
    BY <2>1, CountNext
  <2> QED
    BY <2>2
<1>5. ASSUME NEW k \in Nat
      PROVE  Below(k) \in Nat /\ Below(k + 1) = Below(k) + (IF k \in members THEN 1 ELSE 0)
  <2>1. k - 1 \in Int /\ 0 <= (k - 1) + 1 /\ (k - 1) + 1 = k /\ (k + 1) - 1 = k
    OBVIOUS
  <2>2. /\ Cardinality((0 .. k - 1) \cap members) \in Nat
        /\ Cardinality((0 .. (k - 1) + 1) \cap members)
             = Cardinality((0 .. k - 1) \cap members) + (IF (k - 1) + 1 \in members THEN 1 ELSE 0)
    BY <2>1, CountNext
  <2> QED
    BY <2>1, <2>2
<1> HIDE DEF In
<1>6. 0 \in T
  <2>1. (0 .. 0 - 1) \cap members = {}
    OBVIOUS
  <2>2. Below(0) = 0
    BY <2>1, FS_EmptySet
  <2>3. 0 \div L = 0 /\ 0 % L = 0
    BY <1>1
  <2>4. 0 * In(L) = 0
    BY <1>1, <1>4
  <2> HIDE DEF Below
  <2> QED
    BY <1>3, <2>2, <2>3, <2>4
<1> HIDE DEF Below
<1>7. ASSUME NEW k \in Nat, k \in T PROVE k + 1 \in T
  <2> DEFINE q == k \div L
             r == k % L
  <2>1. Below(k) = q * In(L) + In(r) /\ q \in Nat /\ r \in 0 .. L - 1
    <3>1. q \in Nat
      BY <1>1, CountAtEnds
    <3> QED
      BY <1>2, <1>7, <3>1
  <2>2. Below(k + 1) = Below(k) + (IF r + 1 \in places THEN 1 ELSE 0)
    BY <1>2, <1>5
  <2>3. In(r) \in Nat /\ In(r + 1) = In(r) + (IF r + 1 \in places THEN 1 ELSE 0) /\ In(L) \in Nat
    <3>1. r \in Nat /\ L \in Nat
      BY <1>1, <2>1
    <3> HIDE DEF r
    <3> QED
      BY <1>4, <3>1
  <2>4. Below(k + 1) = q * In(L) + In(r + 1)
    <3> HIDE DEF q, r
    <3>1. q * In(L) \in Nat
      BY <2>1, <2>3
    <3> QED
      BY <2>1, <2>2, <2>3, <3>1
  <2>5. CASE (k + 1) % L = 0
    <3>1. (k + 1) \div L = q + 1
      BY <1>1, <2>5, CountAtEnds
    <3>2. r + 1 = L
      <4>1. r + 1 <= L - 1 => (k + 1) % L = r + 1
        <5>1. k = (L * q) + r /\ (L * q) + (r + 1) = k + 1
          BY <1>1, <2>1
        <5> HIDE DEF q, r
        <5>2. ASSUME r + 1 <= L - 1 PROVE ((L * q) + (r + 1)) % L = r + 1
          <6>1. r + 1 \in 0 .. L - 1 /\ q \in Int
            BY <2>1, <5>2
          <6> QED
            BY <1>1, <6>1, QuotientOf
        <5> QED
          BY <5>1, <5>2
      <4> HIDE DEF r, q
      <4> QED
        BY <1>1, <2>1, <2>5, <4>1
    <3> HIDE DEF q, r
    <3>3. Below(k + 1) = q * In(L) + In(L)
      BY <2>4, <3>2
    <3>4. (q + 1) * In(L) + In(0) = q * In(L) + In(L)
      BY <1>3, <2>1, <2>3
    <3> QED
      BY <2>5, <3>1, <3>3, <3>4
  <2>6. CASE (k + 1) % L # 0
    <3>1. (k + 1) \div L = q /\ (k + 1) % L = r + 1
      BY <1>1, <2>6, CountAtEnds, NextTickOfWindow
    <3> HIDE DEF q, r
    <3> QED
      BY <2>4, <3>1
  <2> QED
    BY <2>5, <2>6
<1>8. Nat \subseteq T
  <2> HIDE DEF T
  <2> QED
    BY <1>6, <1>7, SetInduction
<1>9. Below(n) = (n \div L) * In(L) + In(n % L)
  BY <1>8
<1> QED
  BY <1>9 DEF Below, In, L, InPrefix, members, places

(* The closed form counts the squad's fielders with lower local IDs.       *)
LEMMA OrdinalIsCount ==
  ASSUME NEW S, NEW cyc \in Seq(S), cyc # <<>>, NEW local \in Nat \ {0}
  PROVE  SquadOrdinal(cyc, local) =
           Cardinality({other \in 1 .. local - 1 : SquadFor(cyc, other) = SquadFor(cyc, local)})
<1> DEFINE L == Len(cyc)
           squad == SquadFor(cyc, local)
           members == Members(cyc, squad)
           lower == (0 .. local - 1) \cap members
           fielders == (1 .. local - 1) \cap members
           q == local \div L
           r == local % L
<1>1. L \in Nat \ {0} /\ DOMAIN cyc = 1 .. L
  BY EmptySeq, LenProperties
<1>2. q \in Nat /\ r \in 0 .. L - 1
  <2>1. L \in Nat \ {0} /\ local \in Nat
    BY <1>1
  <2> HIDE DEF L
  <2>2. q \in Nat
    BY <2>1, CountAtEnds
  <2>3. r \in 0 .. L - 1
    BY <2>1
  <2> QED
    BY <2>2, <2>3
<1>3. Cardinality(lower) = q * InPrefix(cyc, squad, L) + InPrefix(cyc, squad, r)
  <2> HIDE DEF squad
  <2> QED
    BY MembersBelow
<1>4. SquadCount(cyc, squad) = InPrefix(cyc, squad, L)
  <2>1. (1 .. L) \cap Places(cyc, squad) = {p \in DOMAIN cyc : cyc[p] = squad}
    BY <1>1 DEF Places
  <2> QED
    BY <2>1 DEF SquadCount, InPrefix
<1>5. CyclePrefix(cyc, CyclePosition(cyc, local)) = InPrefix(cyc, squad, r)
  <2>1. CyclePosition(cyc, local) = 1 + r /\ (1 + r) - 1 = r /\ cyc[1 + r] = squad
    BY <1>2 DEF CyclePosition, SquadFor
  <2>2. (1 .. r) \cap Places(cyc, squad) = {p \in 1 .. r : cyc[p] = squad}
    BY <1>1, <1>2 DEF Places
  <2> HIDE DEF r, squad
  <2>3. CyclePrefix(cyc, 1 + r) = Cardinality({p \in 1 .. r : cyc[p] = squad})
    BY <2>1 DEF CyclePrefix
  <2> QED
    BY <2>1, <2>2, <2>3 DEF InPrefix
<1>6. {other \in 1 .. local - 1 : SquadFor(cyc, other) = squad} = fielders
  BY DEF Members
<1>7. SquadOrdinal(cyc, local) = Cardinality(lower) - GoalieCorrection(cyc, squad)
  <2> DEFINE count == SquadCount(cyc, squad)
             prefix == CyclePrefix(cyc, CyclePosition(cyc, local))
  <2>1. SquadOrdinal(cyc, local) = q * count + prefix - GoalieCorrection(cyc, squad)
    BY DEF SquadOrdinal
  <2>2. q * count + prefix = q * InPrefix(cyc, squad, L) + InPrefix(cyc, squad, r)
    <3> HIDE DEF q, r, L, squad, count, prefix
    <3>1. count = InPrefix(cyc, squad, L) /\ prefix = InPrefix(cyc, squad, r)
      BY <1>4, <1>5 DEF count, prefix
    <3> QED
      BY <3>1
  <2>3. q * count + prefix = Cardinality(lower)
    <3> HIDE DEF q, r, L, squad, count, prefix, lower
    <3> QED
      BY <1>3, <2>2
  <2>4. count \in Nat /\ prefix \in Nat /\ GoalieCorrection(cyc, squad) \in {0, 1}
    <3>1. ASSUME NEW k \in Nat PROVE InPrefix(cyc, squad, k) \in Nat
      <4> HIDE DEF squad
      <4>1. 1 \in Nat /\ k \in Int /\ 1 <= k + 1
        OBVIOUS
      <4>2. Cardinality((1 .. k) \cap Places(cyc, squad)) \in Nat
        BY <4>1, CountNext
      <4> QED
        BY <4>2 DEF InPrefix
    <3>2. L \in Nat /\ r \in Nat
      BY <1>1, <1>2
    <3> HIDE DEF L, r, squad
    <3> QED
      BY <1>4, <1>5, <3>1, <3>2 DEF GoalieCorrection
  <2>5. q * count \in Nat
    BY <1>2, <2>4
  <2> HIDE DEF q, squad, lower, count, prefix
  <2> QED
    BY <2>1, <2>3, <2>4, <2>5
<1>8. IsFiniteSet(fielders) /\ Cardinality(fielders) \in Nat
  <2>1. IsFiniteSet(1 .. local - 1)
    BY FS_Interval
  <2>2. IsFiniteSet(fielders)
    BY <2>1, FS_Subset
  <2> HIDE DEF fielders
  <2> QED
    BY <2>2, FS_CardinalityType
<1>9. 0 \in members <=> cyc[1] = squad
  <2>1. 0 % L = 0 /\ 1 + 0 = 1
    BY <1>1
  <2>2. SquadFor(cyc, 0) = cyc[1]
    BY <2>1 DEF SquadFor, CyclePosition
  <2> HIDE DEF squad
  <2> QED
    BY <2>2 DEF Members
<1>10. ASSUME 0 \in members PROVE SquadOrdinal(cyc, local) = Cardinality(fielders)
  <2>1. lower = fielders \cup {0} /\ 0 \notin fielders
    BY <1>10
  <2>2. Cardinality(fielders \cup {0}) = Cardinality(fielders) + 1
    <3>1. 0 \notin fielders
      OBVIOUS
    <3> HIDE DEF fielders
    <3> QED
      BY <1>8, <3>1, FS_AddElement
  <2>3. GoalieCorrection(cyc, squad) = 1
    BY <1>9, <1>10 DEF GoalieCorrection
  <2>4. Cardinality(lower) = Cardinality(fielders) + 1
    BY <2>1, <2>2
  <2> HIDE DEF lower, fielders, squad
  <2> QED
    BY <1>7, <1>8, <2>3, <2>4
<1>11. ASSUME 0 \notin members PROVE SquadOrdinal(cyc, local) = Cardinality(fielders)
  <2>1. lower = fielders
    BY <1>11
  <2>2. GoalieCorrection(cyc, squad) = 0
    BY <1>9, <1>11 DEF GoalieCorrection
  <2> HIDE DEF lower, fielders, squad
  <2> QED
    BY <1>7, <1>8, <2>1, <2>2
<1>12. SquadOrdinal(cyc, local) = Cardinality(fielders)
  BY <1>10, <1>11
<1> HIDE DEF fielders
<1> QED
  BY <1>6, <1>12

CycleAndForm ==
  /\ cycle \in Seq(Squads)
  /\ GapOf(form) \in Int
  /\ form.kind = "Pod" => form.gap = GapOf(form)

LEMMA CycleAndFormStay == Spec => []CycleAndForm
<1> DEFINE Good(f) == GapOf(f) \in Int /\ (f.kind = "Pod" => f.gap = GapOf(f))
<1>1. \A f \in Forms \cup AuthoredForms : Good(f)
  <2>1. One \in Int /\ WordLimit \in Int /\ FormGapMax \in Int
    BY FixedAssumption, SheetAssumption
  <2>2. ASSUME NEW rank, NEW file, NEW gap \in Int PROVE Good(Pod(rank, file, gap))
    BY DEF Pod, GapOf
  <2>3. ASSUME NEW gap \in Int PROVE Good(Wedge(gap)) /\ Good(Arc(gap))
    BY DEF Wedge, Arc, GapOf
  <2> HIDE DEF Good
  <2>4. ASSUME NEW f \in Forms PROVE Good(f)
    <3>1. /\ 2 \in Int /\ -One \in Int /\ 3 \in Int /\ -3 \in Int
      BY <2>1
    <3>2. \/ f = Wedge(2) \/ f = Wedge(-One) \/ f = Pod(1, 1, 3) \/ f = Pod(2, 2, 2)
          \/ f = Pod(2, 3, One) \/ f = Pod(3, 1, -3)
      BY DEF Forms
    <3> QED
      BY <2>1, <2>2, <2>3, <3>1, <3>2
  <2>5. ASSUME NEW f \in AuthoredForms PROVE Good(f)
    <3>1. \/ \E rank, file \in 1 .. PodExtentMax + 1,
                gap \in {FormGapMax, -FormGapMax, FormGapMax + 1, -WordLimit} : f = Pod(rank, file, gap)
          \/ \E gap \in {FormGapMax, -FormGapMax, -WordLimit} : f = Wedge(gap)
          \/ \E gap \in {FormGapMax, -WordLimit} : f = Arc(gap)
      BY DEF AuthoredForms
    <3>2. {FormGapMax, -FormGapMax, FormGapMax + 1, -WordLimit} \subseteq Int
      BY <2>1
    <3> QED
      BY <2>2, <2>3, <3>1, <3>2
  <2> QED
    BY <2>4, <2>5
<1>2. Init => CycleAndForm
  BY EmptySeq DEF Init, CycleAndForm, Point, GapOf
<1>3. CycleAndForm /\ [Next]_vars => CycleAndForm'
  <2> SUFFICES ASSUME CycleAndForm, [Next]_vars PROVE CycleAndForm'
    OBVIOUS
  <2>1. CASE FirstCycle
    <3>1. cycle' \in Seq(Squads)
      <4>1. PICK squad \in Squads : cycle' = <<squad>>
        BY <2>1 DEF FirstCycle
      <4> QED
        BY <4>1
    <3>2. form' \in Forms \cup AuthoredForms
      BY <2>1 DEF FirstCycle
    <3>3. Good(form')
      BY <1>1, <3>2
    <3> QED
      BY <3>1, <3>3 DEF CycleAndForm
  <2>2. CASE Lengthen
    <3>1. PICK squad \in Squads : cycle' = Append(cycle, squad)
      BY <2>2 DEF Lengthen
    <3>2. cycle \in Seq(Squads) /\ form' = form
      BY <2>2 DEF Lengthen, CycleAndForm
    <3>3. Append(cycle, squad) \in Seq(Squads)
      BY <3>2, AppendProperties
    <3> QED
      BY <3>1, <3>2, <3>3 DEF CycleAndForm
  <2>3. CASE NextVector \/ NextScalar \/ UNCHANGED vars
    BY <2>3 DEF NextVector, NextScalar, vars, CycleAndForm
  <2> QED
    BY <2>1, <2>2, <2>3 DEF Next
<1> QED
  BY <1>2, <1>3, PTL DEF Spec

LEMMA RosterIsDense ==
  \E last \in Nat : Locals = 0 .. last
<1>1. Cardinality(Locals) \in Nat
  BY RosterAssumption, FS_CardinalityType
<1>2. Cardinality(Locals) # 0
  BY RosterAssumption, FS_EmptySet
<1>3. Cardinality(Locals) - 1 \in Nat
  BY <1>1, <1>2
<1> QED
  BY <1>3, RosterAssumption

(* A fielder's closed-form ordinal is the count of its squad's fielders    *)
(* with lower local IDs, for every cycle and every roster, however many    *)
(* turns of the cycle the roster takes (PlayNode::squad_ordinal).          *)
THEOREM OrdinalsAreCounts == Spec => []OrdinalsCount
<1>1. CycleAndForm => OrdinalsCount
  <2> SUFFICES ASSUME CycleAndForm, cycle # <<>>, NEW local \in Fielders
               PROVE  SquadOrdinal(cycle, local) =
                        Cardinality({other \in Fielders :
                          other < local /\ SquadFor(cycle, other) = SquadFor(cycle, local)})
    BY DEF OrdinalsCount
  <2>1. PICK last \in Nat : Locals = 0 .. last
    BY RosterIsDense
  <2>2. Fielders = 1 .. last
    BY <2>1 DEF Fielders, Goalie
  <2>3. local \in Nat \ {0}
    BY <2>2
  <2>4. {other \in Fielders : other < local /\ SquadFor(cycle, other) = SquadFor(cycle, local)}
          = {other \in 1 .. local - 1 : SquadFor(cycle, other) = SquadFor(cycle, local)}
    BY <2>2
  <2>5. cycle \in Seq(Squads)
    BY DEF CycleAndForm
  <2>6. SquadOrdinal(cycle, local) =
          Cardinality({other \in 1 .. local - 1 : SquadFor(cycle, other) = SquadFor(cycle, local)})
    BY <2>3, <2>5, OrdinalIsCount
  <2> QED
    BY <2>4, <2>6
<1> QED
  BY <1>1, CycleAndFormStay, PTL

-----------------------------------------------------------------------------

(* A whole multiple of a gap is exact. *)
LEMMA WholeIsExact ==
  ASSUME NEW count \in Int, NEW gap \in Int
  PROVE  Whole(count, gap) = count * gap
<1>1. One \in Nat \ {0} /\ count * gap \in Int
  BY FixedAssumption
<1>2. (count * One) * gap = (count * gap) * One
  BY <1>1
<1>3. QMul(count * gap, One) = count * gap
  BY <1>1, ProductWithOne
<1> QED
  BY <1>2, <1>3 DEF Whole, QMul

(* A product is no larger than its factors' bounds allow. *)
LEMMA ProductBounded ==
  ASSUME NEW a \in Int, NEW b \in Int, NEW m \in Nat, NEW n \in Nat, AbsOf(a) <= m, AbsOf(b) <= n
  PROVE  a * b \in Int /\ a * b <= m * n /\ -(m * n) <= a * b /\ m * n \in Nat
<1> DEFINE c == AbsOf(a)
           d == AbsOf(b)
<1>1. /\ c \in Nat /\ d \in Nat /\ c <= m /\ d <= n
      /\ a * b = c * d \/ a * b = -(c * d)
  BY DEF AbsOf
<1> HIDE DEF c, d
<1>2. c * d <= m * n /\ c * d \in Nat /\ m * n \in Nat
  <2>1. c * d <= m * d /\ m * d <= m * n
    BY <1>1
  <2>2. c * d \in Nat /\ m * d \in Nat /\ m * n \in Nat
    BY <1>1
  <2> QED
    BY <2>1, <2>2
<1> QED
  BY <1>1, <1>2

LEMMA StepIsHalf ==
  ASSUME NEW n \in Nat
  PROVE  /\ AlternatingStep(n) \in Int
         /\ AbsOf(AlternatingStep(n)) \in Nat
         /\ 2 * AbsOf(AlternatingStep(n)) <= n + 1
<1> DEFINE m == (n + 1) \div 2
<1>1. m \in Nat /\ 2 * m <= n + 1
  OBVIOUS
<1> HIDE DEF m
<1>2. AlternatingStep(n) = m \/ AlternatingStep(n) = -m
  BY DEF AlternatingStep, m
<1> QED
  BY <1>1, <1>2 DEF AbsOf

(* Of an accepted pod layout, every term that is a multiple of the gap. *)
LEMMA PodTermsFit ==
  ASSUME NEW rank \in 1 .. PodExtentMax, NEW file \in 1 .. PodExtentMax,
         NEW gap \in Int, AbsOf(gap) <= FormGapMax,
         NEW ordinal \in Nat, ordinal < Cardinality(Locals), Cardinality(Locals) \in Nat
  PROVE  LET pods == Pod(rank, file, gap)
         IN  /\ {PodStart(pods, ordinal), Column(pods, ordinal), Row(pods, ordinal)} \subseteq Word
             /\ PodStart(pods, ordinal) + QMul(Column(pods, ordinal), Half) \in Word
<1> DEFINE pod == rank * file
           d == ordinal \div pod
           e == ordinal % pod
           step == AlternatingStep(d)
           start == step * (file + 1)
           col == 2 * (e % file) - (file - 1)
           row == e \div file
           pods == Pod(rank, file, gap)
           room == Cardinality(Locals) + PodExtentMax
           column == col * gap
           shift == QMul(column, Half)
<1>1. /\ rank \in Nat \ {0} /\ file \in Nat \ {0} /\ rank <= PodExtentMax /\ file <= PodExtentMax
      /\ PodExtentMax \in Nat /\ FormGapMax \in Nat /\ WordLimit \in Nat \ {0} /\ One \in Nat \ {0}
      /\ room \in Nat /\ room * FormGapMax < WordLimit
  BY SheetAssumption, FixedAssumption, LayoutAssumption
<1>2. pod \in Nat \ {0} /\ file <= pod
  <2>1. pod = file * rank /\ file * 1 <= file * rank
    BY <1>1
  <2> QED
    BY <1>1, <2>1
<1>3. d \in Nat /\ e \in 0 .. pod - 1 /\ ordinal = (pod * d) + e
  <2> HIDE DEF pod
  <2>1. ordinal = (pod * d) + e /\ e \in 0 .. pod - 1
    BY <1>2
  <2>2. d \in Nat
    BY <1>2, CountAtEnds
  <2> QED
    BY <2>1, <2>2
<1>4. row \in Nat /\ row < rank /\ e % file \in 0 .. file - 1
  <2> HIDE DEF d, e
  <2>1. e = (file * row) + (e % file) /\ e % file \in 0 .. file - 1 /\ e \in Nat
    BY <1>1, <1>2, <1>3
  <2>2. row \in Nat
    BY <1>1, <2>1, CountAtEnds
  <2> HIDE DEF row
  <2>3. file * row < file * rank /\ file * row \in Nat /\ file * rank \in Nat
    BY <1>1, <1>2, <1>3, <2>1, <2>2
  <2>4. row < rank
    <3> SUFFICES ASSUME row >= rank PROVE FALSE
      BY <1>1, <2>2
    <3>1. file * row >= file * rank
      BY <1>1, <2>2
    <3> QED
      BY <2>3, <3>1
  <2> QED
    BY <2>1, <2>2, <2>4
<1>5. col \in Int /\ AbsOf(col) <= file - 1
  <2> DEFINE f == e % file
  <2>1. f \in 0 .. file - 1
    BY <1>4
  <2> HIDE DEF f
  <2> QED
    BY <1>1, <2>1 DEF AbsOf, f
<1>6. step \in Int /\ start \in Int /\ 2 * AbsOf(start) <= 2 * ordinal + file + 1
  <2>1. step \in Int /\ AbsOf(step) \in Nat /\ 2 * AbsOf(step) <= d + 1
    <3> HIDE DEF d
    <3> QED
      BY <1>3, StepIsHalf
  <2> HIDE DEF step, d, e, pod
  <2>2. AbsOf(start) = AbsOf(step) * (file + 1)
    BY <1>1, <2>1 DEF AbsOf
  <2>3. d <= d * file /\ d * file <= pod * d /\ d * file \in Nat /\ pod * d \in Nat
    BY <1>1, <1>2, <1>3
  <2>4. (2 * AbsOf(step)) * (file + 1) <= (d + 1) * (file + 1)
    BY <1>1, <1>3, <2>1
  <2>5. (d + 1) * (file + 1) = (d * file) + d + file + 1
    BY <1>1, <1>3
  <2>6. (2 * AbsOf(step)) * (file + 1) = 2 * (AbsOf(step) * (file + 1)) /\ AbsOf(step) * (file + 1) \in Nat
    BY <1>1, <2>1
  <2> QED
    BY <1>1, <1>3, <2>1, <2>2, <2>3, <2>4, <2>5, <2>6
<1>7. /\ PodStart(pods, ordinal) = start * gap
      /\ Column(pods, ordinal) = column
      /\ Row(pods, ordinal) = row * gap
  <2>1. pods.rank = rank /\ pods.file = file /\ pods.gap = gap
    BY DEF Pod
  <2>2. /\ PodStart(pods, ordinal) = Whole(start, gap)
        /\ Column(pods, ordinal) = Whole(col, gap)
        /\ Row(pods, ordinal) = Whole(row, gap)
    BY <2>1 DEF PodStart, Column, Row
  <2> HIDE DEF start, col, row, pods
  <2> QED
    BY <1>4, <1>5, <1>6, <2>2, WholeIsExact
<1> HIDE DEF start, col, row, pods, step, d, e, pod
<1>8. /\ column \in Int
      /\ column <= (file - 1) * FormGapMax /\ -((file - 1) * FormGapMax) <= column
      /\ (file - 1) * FormGapMax \in Nat
  <2>1. file - 1 \in Nat
    BY <1>1
  <2> QED
    BY <1>1, <1>5, <2>1, ProductBounded
<1>9. /\ (2 * start) * gap \in Int
      /\ (2 * start) * gap <= (2 * ordinal + file + 1) * FormGapMax
      /\ -((2 * ordinal + file + 1) * FormGapMax) <= (2 * start) * gap
      /\ (2 * start) * gap = 2 * (start * gap) /\ start * gap \in Int
  <2>1. 2 * start \in Int /\ AbsOf(2 * start) <= 2 * ordinal + file + 1 /\ 2 * ordinal + file + 1 \in Nat
    BY <1>1, <1>6 DEF AbsOf
  <2>2. /\ (2 * start) * gap \in Int
        /\ (2 * start) * gap <= (2 * ordinal + file + 1) * FormGapMax
        /\ -((2 * ordinal + file + 1) * FormGapMax) <= (2 * start) * gap
    BY <1>1, <2>1, ProductBounded
  <2> QED
    BY <1>6, <2>2
<1>10. row * gap \in Int /\ row * gap <= room * FormGapMax /\ -(room * FormGapMax) <= row * gap
  <2>1. row \in Int /\ AbsOf(row) <= room
    BY <1>1, <1>4 DEF AbsOf
  <2> HIDE DEF room
  <2> QED
    BY <1>1, <2>1, ProductBounded
<1>11. shift \in Int /\ 2 * shift <= (file - 1) * FormGapMax /\ -((file - 1) * FormGapMax) <= 2 * shift
  <2> DEFINE p == column * Half
  <2>1. Half \in Nat /\ 2 * Half <= One
    BY <1>1 DEF Half
  <2>2. p \in Int
    BY <1>8, <2>1
  <2>3. shift \in Int /\ AbsOf(shift) * One <= AbsOf(p)
    BY <1>1, <2>2, TruncatedLosesMagnitude DEF QMul
  <2> HIDE DEF shift, column
  <2>4. AbsOf(p) = AbsOf(column) * Half /\ AbsOf(column) \in Nat
    BY <1>8, <2>1 DEF AbsOf
  <2>5. (2 * AbsOf(shift)) * One <= AbsOf(column) * One
    <3>1. AbsOf(column) * (2 * Half) <= AbsOf(column) * One
      BY <1>1, <2>1, <2>4
    <3>2. AbsOf(column) * (2 * Half) = 2 * (AbsOf(column) * Half) /\ AbsOf(column) * Half \in Nat
      BY <2>1, <2>4
    <3>3. (2 * AbsOf(shift)) * One = 2 * (AbsOf(shift) * One) /\ AbsOf(shift) * One \in Int
      BY <1>1, <2>3 DEF AbsOf
    <3>4. AbsOf(column) * One \in Int
      BY <1>1, <2>4
    <3> HIDE DEF p
    <3> QED
      BY <2>3, <2>4, <3>1, <3>2, <3>3, <3>4
  <2>6. 2 * AbsOf(shift) <= AbsOf(column)
    <3> SUFFICES ASSUME 2 * AbsOf(shift) >= AbsOf(column) + 1 PROVE FALSE
      BY <2>3, <2>4 DEF AbsOf
    <3>1. (2 * AbsOf(shift)) * One >= (AbsOf(column) + 1) * One
      BY <1>1, <2>3, <2>4 DEF AbsOf
    <3>2. (AbsOf(column) + 1) * One = (AbsOf(column) * One) + One /\ AbsOf(column) * One \in Int
      <4> DEFINE c == AbsOf(column)
      <4>1. c \in Nat
        BY <2>4
      <4> HIDE DEF c
      <4>2. (c + 1) * One = (c * One) + One /\ c * One \in Int
        BY <1>1, <4>1
      <4> QED
        BY <4>2 DEF c
    <3>3. (2 * AbsOf(shift)) * One \in Int
      BY <1>1, <2>3 DEF AbsOf
    <3> QED
      BY <1>1, <2>5, <3>1, <3>2, <3>3
  <2> QED
    BY <1>8, <2>3, <2>6 DEF AbsOf
<1>12. /\ (2 * ordinal + file + 1) * FormGapMax + (file - 1) * FormGapMax <= 2 * (room * FormGapMax)
       /\ (file - 1) * FormGapMax <= room * FormGapMax
       /\ (2 * ordinal + file + 1) * FormGapMax \in Nat /\ room * FormGapMax \in Nat
  <2>1. 2 * ordinal + file + 1 \in Nat /\ file - 1 \in Nat
        /\ (2 * ordinal + file + 1) + (file - 1) <= 2 * room /\ file - 1 <= room
    BY <1>1
  <2>2. (2 * ordinal + file + 1) * FormGapMax + (file - 1) * FormGapMax
           = ((2 * ordinal + file + 1) + (file - 1)) * FormGapMax
    BY <1>1, <2>1
  <2>3. ((2 * ordinal + file + 1) + (file - 1)) * FormGapMax <= (2 * room) * FormGapMax
    BY <1>1, <2>1
  <2>4. (2 * room) * FormGapMax = 2 * (room * FormGapMax) /\ (file - 1) * FormGapMax <= room * FormGapMax
    BY <1>1, <2>1
  <2> QED
    BY <1>1, <2>1, <2>2, <2>3, <2>4
<1> HIDE DEF column, shift, room
<1>13. start * gap \in Word /\ column \in Word /\ row * gap \in Word /\ start * gap + shift \in Word
  <2> DEFINE a == (2 * ordinal + file + 1) * FormGapMax
             b == (file - 1) * FormGapMax
             c == room * FormGapMax
             u == start * gap
             w == row * gap
  <2>1. /\ a \in Nat /\ b \in Nat /\ c \in Nat /\ a + b <= 2 * c /\ b <= c /\ c < WordLimit
        /\ u \in Int /\ 2 * u <= a /\ -a <= 2 * u
        /\ w \in Int /\ w <= c /\ -c <= w
        /\ column \in Int /\ column <= b /\ -b <= column
        /\ shift \in Int /\ 2 * shift <= b /\ -b <= 2 * shift
    BY <1>1, <1>8, <1>9, <1>10, <1>11, <1>12
  <2> HIDE DEF a, b, c, u, w
  <2>2. u \in Word /\ column \in Word /\ w \in Word /\ u + shift \in Word
    BY <1>1, <2>1 DEF Word
  <2> QED
    BY <2>2 DEF u, w
<1> QED
  BY <1>7, <1>13 DEF pods, shift

LEMMA AcceptedLayoutsFit == CycleAndForm => AcceptedSlotsFit
<1> SUFFICES ASSUME CycleAndForm, AcceptedForm(form), NEW ordinal \in 0 .. Cardinality(Locals) - 1
             PROVE  IF form.kind = "Pod"
                    THEN /\ {PodStart(form, ordinal), Column(form, ordinal), Row(form, ordinal)} \subseteq Word
                         /\ PodStart(form, ordinal) + QMul(Column(form, ordinal), Half) \in Word
                    ELSE Whole(AlternatingStep(ordinal), GapOf(form)) \in Word
  BY DEF AcceptedSlotsFit
<1>1. Cardinality(Locals) \in Nat
  BY RosterAssumption, FS_CardinalityType
<1>2. GapOf(form) \in Int /\ AbsOf(GapOf(form)) <= FormGapMax
  BY DEF CycleAndForm, AcceptedForm, UnsignedAbs
<1>3. CASE form.kind = "Pod"
  <2> DEFINE rank == form.rank
             file == form.file
             gap == form.gap
  <2>1. rank \in 1 .. PodExtentMax /\ file \in 1 .. PodExtentMax /\ gap = GapOf(form)
    BY <1>3 DEF AcceptedForm, CycleAndForm
  <2>2. /\ Pod(rank, file, gap).rank = rank /\ Pod(rank, file, gap).file = file
        /\ Pod(rank, file, gap).gap = gap
    BY DEF Pod
  <2>3. /\ PodStart(form, ordinal) = PodStart(Pod(rank, file, gap), ordinal)
        /\ Column(form, ordinal) = Column(Pod(rank, file, gap), ordinal)
        /\ Row(form, ordinal) = Row(Pod(rank, file, gap), ordinal)
    BY <2>2 DEF PodStart, Column, Row
  <2> HIDE DEF rank, file, gap
  <2>4. ordinal \in Nat /\ ordinal < Cardinality(Locals)
    BY <1>1
  <2>5. /\ {PodStart(Pod(rank, file, gap), ordinal), Column(Pod(rank, file, gap), ordinal),
            Row(Pod(rank, file, gap), ordinal)} \subseteq Word
        /\ PodStart(Pod(rank, file, gap), ordinal)
             + QMul(Column(Pod(rank, file, gap), ordinal), Half) \in Word
    BY <1>1, <1>2, <2>1, <2>4, PodTermsFit
  <2> QED
    BY <1>3, <2>3, <2>5
<1>4. CASE form.kind # "Pod"
  <2> DEFINE step == AlternatingStep(ordinal)
             gap == GapOf(form)
             n == Cardinality(Locals)
             room == n + PodExtentMax
  <2>1. step \in Int /\ AbsOf(step) \in Nat /\ 2 * AbsOf(step) <= ordinal + 1 /\ ordinal \in Nat
    <3>1. ordinal \in Nat
      BY <1>1
    <3> QED
      BY <3>1, StepIsHalf
  <2>2. n \in Nat /\ ordinal < n /\ PodExtentMax \in Nat /\ FormGapMax \in Nat /\ WordLimit \in Nat
        /\ gap \in Int /\ AbsOf(gap) <= FormGapMax /\ room * FormGapMax < WordLimit
    BY <1>1, <1>2, SheetAssumption, FixedAssumption, LayoutAssumption
  <2> HIDE DEF step, gap, n
  <2>3. AbsOf(step) <= room /\ room \in Nat
    BY <2>1, <2>2
  <2> HIDE DEF room
  <2>4. step * gap \in Int /\ step * gap <= room * FormGapMax /\ -(room * FormGapMax) <= step * gap
        /\ room * FormGapMax \in Nat
    BY <2>1, <2>2, <2>3, ProductBounded
  <2>5. step * gap \in Word
    BY <2>2, <2>4 DEF Word
  <2>6. Whole(step, gap) = step * gap
    BY <2>1, <2>2, WholeIsExact
  <2>7. Whole(AlternatingStep(ordinal), GapOf(form)) \in Word
    BY <2>5, <2>6 DEF step, gap
  <2> QED
    BY <1>4, <2>7
<1> QED
  BY <1>3, <1>4

(* No accepted form drives the layout out of the word, for every roster,   *)
(* extent and gap bound that leave the room LayoutAssumption asks for, as  *)
(* the code's do (FORM_GAP_MAX, POD_EXTENT_MAX).                           *)
THEOREM AcceptedFormsFit == Spec => []AcceptedSlotsFit
  BY AcceptedLayoutsFit, CycleAndFormStay, PTL

-----------------------------------------------------------------------------

(* Factors by which a frame along an axis of the field places a body.      *)
LEMMA UnitTimes ==
  ASSUME NEW a \in Int
  PROVE  QMul(One, a) = a /\ QMul(-One, a) = -a /\ QMul(0, a) = 0
<1>1. One \in Nat \ {0}
  BY FixedAssumption
<1>2. One * a = a * One /\ QMul(a, One) = a
  BY <1>1, ProductWithOne
<1>3. QMul(One, a) = a
  BY <1>2 DEF QMul
<1>4. QMul(-One, a) = -a
  BY <1>1, <1>3, ProductIsOdd
<1>5. QMul(0, a) = 0
  <2>1. 0 * a = 0
    OBVIOUS
  <2>2. AbsOf(0) = 0 /\ SignOf(0) = 0 /\ AbsOf(One) = One
    BY <1>1 DEF AbsOf, SignOf
  <2>3. Truncated(0, One) = 0 * SignOf(One) * (0 \div One)
    BY <2>2 DEF Truncated
  <2>4. 0 \div One \in Int /\ SignOf(One) = 1
    BY <1>1 DEF SignOf
  <2>5. Truncated(0, One) = 0
    BY <2>3, <2>4
  <2> QED
    BY <2>1, <2>5 DEF QMul
<1> QED
  BY <1>3, <1>4, <1>5

(* Low words tell values apart that are less than a word's range apart.    *)
LEMMA WrapSeparates ==
  ASSUME NEW a \in Int, NEW b \in Int, a - b < 2 * WordLimit, b - a < 2 * WordLimit,
         Wrap(a) = Wrap(b)
  PROVE  a = b
<1> DEFINE modulus == 2 * WordLimit
           u == a + WordLimit
           v == b + WordLimit
           p == u \div modulus
           q == v \div modulus
           r == u % modulus
           s == v % modulus
<1>1. modulus \in Nat \ {0} /\ WordLimit \in Nat /\ u \in Int /\ v \in Int
  BY FixedAssumption
<1>2. /\ u = (modulus * p) + r /\ p \in Int /\ r \in 0 .. modulus - 1
      /\ v = (modulus * q) + s /\ q \in Int /\ s \in 0 .. modulus - 1
  <2> HIDE DEF modulus, u, v
  <2> QED
    BY <1>1
<1>3. r = s
  BY <1>1, <1>2 DEF Wrap
<1>4. a - b = u - v /\ u - v < modulus /\ v - u < modulus
  BY <1>1
<1> HIDE DEF u, v, p, q, r, s, modulus
<1>5. p = q
  <2>1. (modulus * p) - (modulus * q) < modulus /\ (modulus * q) - (modulus * p) < modulus
        /\ modulus * p \in Int /\ modulus * q \in Int
    BY <1>1, <1>2, <1>3, <1>4
  <2>2. ASSUME p >= q + 1 PROVE FALSE
    <3>1. modulus * p >= modulus * (q + 1) /\ modulus * (q + 1) = (modulus * q) + modulus
      BY <1>1, <1>2, <2>2
    <3> QED
      BY <1>1, <2>1, <3>1
  <2>3. ASSUME q >= p + 1 PROVE FALSE
    <3>1. modulus * q >= modulus * (p + 1) /\ modulus * (p + 1) = (modulus * p) + modulus
      BY <1>1, <1>2, <2>3
    <3> QED
      BY <1>1, <2>1, <3>1
  <2> QED
    BY <1>2, <2>2, <2>3
<1> QED
  BY <1>1, <1>2, <1>3, <1>4, <1>5

LEMMA WrapIsWord ==
  ASSUME NEW a \in Int
  PROVE  Wrap(a) \in Word
<1> DEFINE modulus == 2 * WordLimit
           u == a + WordLimit
<1>1. WordLimit \in Nat \ {0} /\ modulus \in Nat \ {0} /\ u \in Int
  BY FixedAssumption
<1>2. u % modulus \in 0 .. modulus - 1
  <2> HIDE DEF u, modulus
  <2> QED
    BY <1>1
<1> QED
  BY <1>1, <1>2 DEF Wrap, Word

(* The two ways a body is placed along one axis of the field.              *)
LEMMA PlacesSeparate ==
  ASSUME NEW aim \in Int, NEW a \in Word, NEW b \in Word
  PROVE  /\ Wrap(Wrap(aim + a) - 0) = Wrap(Wrap(aim + b) - 0) => a = b
         /\ Wrap(Wrap(aim + -a) - 0) = Wrap(Wrap(aim + -b) - 0) => a = b
         /\ Wrap(Wrap(aim + 0) - a) = Wrap(Wrap(aim + 0) - b) => a = b
         /\ Wrap(Wrap(aim + 0) - (-a)) = Wrap(Wrap(aim + 0) - (-b)) => a = b
<1>1. WordLimit \in Nat \ {0} /\ a \in Int /\ b \in Int
      /\ a - b < 2 * WordLimit /\ b - a < 2 * WordLimit
  BY FixedAssumption DEF Word
<1>2. ASSUME NEW u \in Int, NEW v \in Int, u - v < 2 * WordLimit, v - u < 2 * WordLimit,
             Wrap(Wrap(u) - 0) = Wrap(Wrap(v) - 0)
      PROVE  u = v
  <2>1. Wrap(u) \in Word /\ Wrap(v) \in Word
    BY WrapIsWord
  <2>2. Wrap(u) - 0 = Wrap(u) /\ Wrap(v) - 0 = Wrap(v)
    BY <1>1, <2>1 DEF Word
  <2>3. Wrap(u) = Wrap(v)
    BY <1>2, <2>1, <2>2, WordsDoNotWrap
  <2> QED
    BY <1>2, <2>3, WrapSeparates
<1>3. Wrap(Wrap(aim + a) - 0) = Wrap(Wrap(aim + b) - 0) => a = b
  <2> DEFINE u == aim + a
             v == aim + b
  <2>1. u \in Int /\ v \in Int /\ u - v < 2 * WordLimit /\ v - u < 2 * WordLimit
    BY <1>1
  <2>2. u = v => a = b
    BY <1>1
  <2> HIDE DEF u, v
  <2>3. Wrap(Wrap(u) - 0) = Wrap(Wrap(v) - 0) => u = v
    BY <1>2, <2>1
  <2> QED
    BY <2>2, <2>3 DEF u, v
<1>4. Wrap(Wrap(aim + -a) - 0) = Wrap(Wrap(aim + -b) - 0) => a = b
  <2> DEFINE u == aim + -a
             v == aim + -b
  <2>1. u \in Int /\ v \in Int /\ u - v < 2 * WordLimit /\ v - u < 2 * WordLimit
    BY <1>1
  <2>2. u = v => a = b
    BY <1>1
  <2> HIDE DEF u, v
  <2>3. Wrap(Wrap(u) - 0) = Wrap(Wrap(v) - 0) => u = v
    BY <1>2, <2>1
  <2> QED
    BY <2>2, <2>3 DEF u, v
<1> DEFINE w == Wrap(aim + 0)
<1>5. w \in Int
  <2>1. aim + 0 \in Int /\ Word \subseteq Int
    BY <1>1 DEF Word
  <2> QED
    BY <2>1, WrapIsWord
<1> HIDE DEF w
<1>6. Wrap(w - a) = Wrap(w - b) => a = b
  <2> DEFINE u == w - a
             v == w - b
  <2>1. u \in Int /\ v \in Int /\ u - v < 2 * WordLimit /\ v - u < 2 * WordLimit
    BY <1>1, <1>5
  <2>2. u = v => a = b
    BY <1>1, <1>5
  <2> HIDE DEF u, v
  <2>3. Wrap(u) = Wrap(v) => u = v
    BY <2>1, WrapSeparates
  <2> QED
    BY <2>2, <2>3 DEF u, v
<1>7. Wrap(w - (-a)) = Wrap(w - (-b)) => a = b
  <2> DEFINE u == w - (-a)
             v == w - (-b)
  <2>1. u \in Int /\ v \in Int /\ u - v < 2 * WordLimit /\ v - u < 2 * WordLimit
    BY <1>1, <1>5
  <2>2. u = v => a = b
    BY <1>1, <1>5
  <2> HIDE DEF u, v
  <2>3. Wrap(u) = Wrap(v) => u = v
    BY <2>1, WrapSeparates
  <2> QED
    BY <2>2, <2>3 DEF u, v
<1> QED
  BY <1>3, <1>4, <1>6, <1>7 DEF w

(* A frame along an axis of the field, and one without a direction.        *)
Laid(forward) == [forward |-> forward, lateral |-> Vec(forward.y, -forward.x, 0)]

LEMMA FramesLieAlongAxes ==
  ASSUME NEW along \in Axes
  PROVE  FormFrame(along, "zero") \in {Laid(UnitX), Laid(Vec(0, -One, 0)), Laid(Zero)}
<1>1. One \in Nat \ {0}
  BY FixedAssumption
<1>2. ASSUME NEW a \in {One, -One}
      PROVE  Normalized(Vec(a, 0, 0)) = Vec(a, 0, 0) /\ Normalized(Vec(0, a, 0)) = Vec(0, a, 0)
  <2>1. a \in Int /\ a * a = One * One /\ One * One \in Nat /\ One * One # 0
    BY <1>1
  <2>2. RawDot(Vec(a, 0, 0), Vec(a, 0, 0)) = One * One /\ RawDot(Vec(0, a, 0), Vec(0, a, 0)) = One * One
    BY <2>1 DEF RawDot, Vec
  <2> DEFINE root == Isqrt(One * One)
  <2>3. root \in Nat /\ root * root <= One * One /\ One * One < (root + 1) * (root + 1)
    <3>1. IsVector(Vec(a, 0, 0))
      BY <2>1 DEF IsVector, Vec
    <3>2. Length(Vec(a, 0, 0)) = root
      BY <2>2 DEF Length
    <3> QED
      BY <2>2, <3>1, <3>2, LengthIsFloor DEF IsFloorRoot
  <2> HIDE DEF root
  <2>4. root = One
    <3>1. ASSUME root >= One + 1 PROVE FALSE
      <4>1. root * root >= (One + 1) * (One + 1)
        BY <1>1, <2>3, <3>1
      <4>2. (One + 1) * (One + 1) = One * One + 2 * One + 1
        BY <1>1
      <4> QED
        BY <1>1, <2>1, <2>3, <4>1, <4>2
    <3>2. ASSUME One >= root + 1 PROVE FALSE
      <4>1. One * One >= (root + 1) * (root + 1)
        BY <1>1, <2>3, <3>2
      <4> QED
        BY <1>1, <2>1, <2>3, <4>1
    <3> QED
      BY <1>1, <2>3, <3>1, <3>2
  <2>5. QDiv(a, One) = a /\ QDiv(0, One) = 0
    <3>1. QDiv(a, One) = QMul(a, One) /\ QDiv(0, One) = QMul(0, One)
      BY DEF QDiv, QMul
    <3> QED
      BY <1>1, <2>1, <3>1, ProductWithOne
  <2>6. Length(Vec(a, 0, 0)) = One /\ Length(Vec(0, a, 0)) = One
    BY <2>2, <2>4 DEF Length, root
  <2> QED
    BY <1>1, <2>5, <2>6 DEF Normalized, Vec
<1>3. Normalized(Zero) = Zero
  <2>1. IsVector(Zero)
    BY DEF IsVector, Zero, Vec
  <2>2. Length(Zero) \in Nat /\ Length(Zero) <= AbsOf(0) + AbsOf(0) + AbsOf(0)
    BY <2>1, LengthsBound DEF Zero, Vec
  <2>3. Length(Zero) = 0
    BY <2>2 DEF AbsOf
  <2> QED
    BY <2>3 DEF Normalized
<1>4. \A v : v = Vec(v.x, v.y, v.z) => v # NoAxis
  <2> SUFFICES ASSUME NEW x, NEW y, NEW z PROVE Vec(x, y, z) # NoAxis
    OBVIOUS
  <2>1. "x" \in DOMAIN Vec(x, y, z) /\ "x" \notin DOMAIN NoAxis
    BY DEF Vec, NoAxis
  <2> QED
    BY <2>1
<1>5. CASE along = NoAxis
  BY <1>5 DEF FormFrame, Laid, AttackAxis
<1>6. CASE along = Vec(0, 0, One)
  <2>1. along # NoAxis /\ Vec(along.x, along.y, 0) = Zero
    BY <1>4, <1>6 DEF Vec, Zero
  <2> QED
    BY <1>3, <2>1 DEF FormFrame, Laid
<1>7. CASE along = Vec(One, 0, 0)
  <2>1. along # NoAxis /\ Vec(along.x, along.y, 0) = Vec(One, 0, 0)
    BY <1>4, <1>7 DEF Vec
  <2> QED
    BY <1>2, <2>1 DEF FormFrame, Laid, UnitX
<1>8. CASE along = Vec(0, -One, 3)
  <2>1. along # NoAxis /\ Vec(along.x, along.y, 0) = Vec(0, -One, 0)
    BY <1>4, <1>8 DEF Vec
  <2> QED
    BY <1>2, <2>1 DEF FormFrame, Laid
<1> QED
  BY <1>5, <1>6, <1>7, <1>8 DEF Axes

(* What a step of the alternation says of its ordinal.                     *)
LEMMA StepsTellOrdinals ==
  ASSUME NEW m \in Nat, NEW n \in Nat, AlternatingStep(m) = AlternatingStep(n)
  PROVE  m = n
<1> DEFINE Told(s) == IF s > 0 THEN 2 * s - 1 ELSE -2 * s
<1>1. ASSUME NEW k \in Nat PROVE Told(AlternatingStep(k)) = k
  <2>1. k % 2 \in {0, 1}
    OBVIOUS
  <2>2. CASE k % 2 = 1
    BY <2>2 DEF AlternatingStep
  <2>3. CASE k % 2 = 0
    BY <2>3 DEF AlternatingStep
  <2> QED
    BY <2>1, <2>2, <2>3
<1> HIDE DEF Told
<1> QED
  BY <1>1

(* Half of a number, its odd unit dropped.                                 *)
LEMMA HalvesAreNear ==
  ASSUME NEW a \in Int
  PROVE  /\ QMul(a, Half) \in Int
         /\ 2 * QMul(a, Half) - a \in -1 .. 1
<1> DEFINE m == AbsOf(a)
           h == m \div 2
<1>1. One \in Nat \ {0} /\ Half \in Nat \ {0} /\ One = 2 * Half
  BY FixedAssumption, FormsAssumption DEF Half
<1>2. m \in Nat /\ h \in Nat /\ m - 2 * h \in 0 .. 1
  BY DEF AbsOf
<1>3. AbsOf(a * Half) = m * Half /\ SignOf(a * Half) = SignOf(a)
  BY <1>1 DEF AbsOf, SignOf
<1>4. (m * Half) \div One = h
  <2> DEFINE r == (m - 2 * h) * Half
  <2>1. r \in 0 .. One - 1
    <3>1. m - 2 * h = 0 \/ m - 2 * h = 1
      BY <1>2
    <3> HIDE DEF m, h
    <3> QED
      BY <1>1, <1>2, <3>1
  <2>2. m * Half = (One * h) + r
    <3> HIDE DEF m, h
    <3>1. One * h = 2 * (Half * h) /\ Half * h \in Int
      BY <1>1, <1>2
    <3>2. r = (m * Half) - 2 * (h * Half) /\ m * Half \in Int /\ h * Half = Half * h
      BY <1>1, <1>2
    <3> HIDE DEF r
    <3> QED
      BY <3>1, <3>2
  <2> HIDE DEF r, h, m
  <2> QED
    BY <1>1, <1>2, <2>1, <2>2, QuotientOf
<1>5. QMul(a, Half) = SignOf(a) * h
  <2>1. SignOf(One) = 1 /\ AbsOf(One) = One
    BY <1>1 DEF SignOf, AbsOf
  <2>2. SignOf(a) \in {-1, 0, 1}
    BY DEF SignOf
  <2> HIDE DEF m, h
  <2> QED
    BY <1>2, <1>3, <1>4, <2>1, <2>2 DEF QMul, Truncated
<1> HIDE DEF h
<1> QED
  BY <1>2, <1>5 DEF AbsOf, SignOf

(* Where a form places an ordinal: across its frame, and back.             *)
Across(laid, ordinal) ==
  IF laid.kind = "Pod" THEN PodStart(laid, ordinal) + QMul(Column(laid, ordinal), Half)
  ELSE Whole(AlternatingStep(ordinal), laid.gap)
Back(laid, ordinal) ==
  IF laid.kind = "Pod" THEN Row(laid, ordinal) ELSE Whole(AbsOf(AlternatingStep(ordinal)), laid.gap)

(* Two ordinals of pods are in two pods, two columns or two rows, and a    *)
(* gap of more than one unit outweighs what halving a column drops.        *)
LEMMA PodsSeparate ==
  ASSUME NEW rank \in Nat \ {0}, NEW file \in Nat \ {0}, NEW gap \in Int, AbsOf(gap) >= 2,
         NEW m \in Nat, NEW n \in Nat,
         Across(Pod(rank, file, gap), m) = Across(Pod(rank, file, gap), n),
         Back(Pod(rank, file, gap), m) = Back(Pod(rank, file, gap), n)
  PROVE  m = n
<1> DEFINE pods == Pod(rank, file, gap)
           pod == rank * file
           S(k) == AlternatingStep(k \div pod)
           E(k) == k % pod
           F(k) == E(k) % file
           R(k) == E(k) \div file
           C(k) == 2 * F(k) - (file - 1)
           H(k) == QMul(C(k) * gap, Half)
<1>1. pod \in Nat \ {0}
  <2>1. rank * file >= 1 * file /\ rank * file \in Nat
    OBVIOUS
  <2> QED
    BY <2>1
<1>2. ASSUME NEW k \in Nat
      PROVE  /\ k \div pod \in Nat /\ E(k) \in Nat /\ k = (pod * (k \div pod)) + E(k)
             /\ S(k) \in Int
             /\ F(k) \in 0 .. file - 1 /\ R(k) \in Nat /\ E(k) = (file * R(k)) + F(k)
  <2>1. k = (pod * (k \div pod)) + E(k) /\ E(k) \in 0 .. pod - 1 /\ k \div pod \in Nat
    <3> HIDE DEF pod
    <3>1. k = (pod * (k \div pod)) + (k % pod) /\ k % pod \in 0 .. pod - 1
      BY <1>1
    <3>2. k \div pod \in Nat
      BY <1>1, CountAtEnds
    <3> QED
      BY <3>1, <3>2
  <2>2. S(k) \in Int
    <3> HIDE DEF pod
    <3> QED
      BY <2>1, StepIsHalf
  <2> DEFINE e == E(k)
  <2>3. e \in Nat
    BY <1>1, <2>1
  <2> HIDE DEF e
  <2>4. e = (file * (e \div file)) + (e % file) /\ e % file \in 0 .. file - 1
    BY <2>3
  <2>5. e \div file \in Nat
    BY <2>3, CountAtEnds
  <2> QED
    BY <2>1, <2>2, <2>3, <2>4, <2>5 DEF e
<1>3. ASSUME NEW k \in Nat
      PROVE  /\ Across(pods, k) = (S(k) * (file + 1)) * gap + H(k)
             /\ Back(pods, k) = R(k) * gap
             /\ H(k) \in Int /\ 2 * H(k) - (C(k) * gap) \in -1 .. 1 /\ C(k) * gap \in Int
  <2>1. pods.kind = "Pod" /\ pods.rank = rank /\ pods.file = file /\ pods.gap = gap
    BY DEF Pod
  <2>2. /\ Across(pods, k) = Whole(S(k) * (file + 1), gap) + QMul(Whole(C(k), gap), Half)
        /\ Back(pods, k) = Whole(R(k), gap)
    BY <2>1 DEF Across, Back, PodStart, Column, Row
  <2>3. C(k) \in Int /\ S(k) * (file + 1) \in Int /\ R(k) \in Int
    <3>1. S(k) \in Int
      BY <1>2
    <3>2. R(k) \in Nat
      BY <1>2
    <3>3. F(k) \in 0 .. file - 1
      BY <1>2
    <3> HIDE DEF S, R, F
    <3> QED
      BY <3>1, <3>2, <3>3
  <2> HIDE DEF S, C, R
  <2>4. C(k) * gap \in Int
    BY <2>3
  <2> QED
    BY <2>2, <2>3, <2>4, WholeIsExact, HalvesAreNear
<1> HIDE DEF pods
<1> DEFINE p == S(m)
           q == S(n)
           f == F(m)
           g == F(n)
           j == (p - q) * (file + 1) + (f - g)
<1>4. p \in Int /\ q \in Int /\ f \in 0 .. file - 1 /\ g \in 0 .. file - 1 /\ j \in Int
  BY <1>2
<1>5. 2 * (j * gap) \in -2 .. 2 /\ j * gap \in Int
  <2> DEFINE a == p * (file + 1)
             b == q * (file + 1)
             c == C(m)
             d == C(n)
  <2>1. a \in Int /\ b \in Int /\ c = 2 * f - (file - 1) /\ d = 2 * g - (file - 1)
    BY <1>4
  <2>2. a * gap + H(m) = b * gap + H(n)
    <3>1. Across(pods, m) = a * gap + H(m) /\ Across(pods, n) = b * gap + H(n)
      BY <1>3
    <3> QED
      BY <3>1 DEF pods
  <2>3. /\ H(m) \in Int /\ 2 * H(m) - (c * gap) \in -1 .. 1 /\ c * gap \in Int
        /\ H(n) \in Int /\ 2 * H(n) - (d * gap) \in -1 .. 1 /\ d * gap \in Int
    BY <1>3
  <2>4. j = (a - b) + (f - g)
    <3> HIDE DEF p, q, f, g
    <3> QED
      BY <1>4
  <2> DEFINE u == H(m)
             w == H(n)
  <2> HIDE DEF p, q, f, g, j, a, b, c, d, u, w
  <2>5. 2 * j = (2 * a + c) - (2 * b + d)
    BY <1>4, <2>1, <2>4
  <2>6. (2 * j) * gap = (2 * (a * gap) + (c * gap)) - (2 * (b * gap) + (d * gap))
        /\ a * gap \in Int /\ b * gap \in Int
    <3>1. ((2 * a + c) - (2 * b + d)) * gap = (2 * (a * gap) + (c * gap)) - (2 * (b * gap) + (d * gap))
      <4>1. c \in Int /\ d \in Int
        BY <1>4, <2>1
      <4> QED
        BY <2>1, <4>1
    <3> QED
      BY <2>1, <2>5, <3>1
  <2>7. (2 * j) * gap = 2 * (j * gap) /\ j * gap \in Int
    BY <1>4
  <2>8. a * gap + u = b * gap + w /\ u \in Int /\ w \in Int
        /\ 2 * u - (c * gap) \in -1 .. 1 /\ 2 * w - (d * gap) \in -1 .. 1
        /\ c * gap \in Int /\ d * gap \in Int
    BY <2>2, <2>3 DEF u, w
  <2> QED
    BY <2>6, <2>7, <2>8
<1> HIDE DEF p, q, f, g, j
<1>6. j = 0
  <2> DEFINE u == AbsOf(j)
             w == AbsOf(gap)
  <2>1. u \in Nat /\ w \in Nat /\ w >= 2 /\ AbsOf(j * gap) = u * w
    BY <1>4 DEF AbsOf
  <2>2. AbsOf(j * gap) <= 1
    BY <1>5 DEF AbsOf
  <2>3. u = 0 => j = 0
    BY <1>4 DEF AbsOf
  <2> HIDE DEF u, w
  <2>4. u = 0
    <3> SUFFICES ASSUME u >= 1 PROVE FALSE
      BY <2>1
    <3>1. u * w >= 1 * w
      BY <2>1
    <3> QED
      BY <2>1, <2>2, <3>1
  <2> QED
    BY <2>3, <2>4
<1>7. p = q /\ f = g
  <2>1. (p - q) * (file + 1) + (f - g) = 0
    BY <1>6 DEF j
  <2>2. ASSUME NEW x \in Int, x # 0, x * (file + 1) + (f - g) = 0 PROVE FALSE
    <3>1. x * (file + 1) \in Int
      OBVIOUS
    <3>2. CASE x >= 1
      <4>1. x * (file + 1) >= 1 * (file + 1)
        BY <3>2
      <4> QED
        BY <1>4, <2>2, <3>1, <4>1
    <3>3. CASE x <= -1
      <4>1. x * (file + 1) <= (-1) * (file + 1)
        BY <3>3
      <4> QED
        BY <1>4, <2>2, <3>1, <4>1
    <3> QED
      BY <2>2, <3>2, <3>3
  <2>3. p = q
    <3>1. p - q \in Int
      BY <1>4
    <3>2. p - q = 0
      BY <2>1, <2>2, <3>1
    <3> QED
      BY <1>4, <3>2
  <2> QED
    BY <1>4, <2>1, <2>3
<1>8. R(m) = R(n)
  <2>1. R(m) * gap = R(n) * gap /\ R(m) \in Nat /\ R(n) \in Nat
    <3>1. Back(pods, m) = R(m) * gap /\ Back(pods, n) = R(n) * gap
      BY <1>3
    <3>2. R(m) \in Nat /\ R(n) \in Nat
      BY <1>2
    <3> HIDE DEF R
    <3> QED
      BY <3>1, <3>2 DEF pods
  <2>2. gap # 0
    BY DEF AbsOf
  <2> HIDE DEF R
  <2> DEFINE x == R(m)
             y == R(n)
  <2>3. x * gap = y * gap /\ x \in Nat /\ y \in Nat
    BY <2>1
  <2> HIDE DEF x, y
  <2>4. x = y
    BY <2>2, <2>3
  <2> QED
    BY <2>4 DEF x, y
<1>9. E(m) = E(n)
  BY <1>2, <1>7, <1>8 DEF f, g
<1>10. m \div pod = n \div pod
  <2>1. m \div pod \in Nat /\ n \div pod \in Nat
    BY <1>2
  <2> HIDE DEF pod
  <2> QED
    BY <1>7, <2>1, StepsTellOrdinals DEF p, q
<1> QED
  BY <1>2, <1>9, <1>10

(* The ordinals of a squad's fielders, by lower local IDs.                 *)
LEMMA OrdinalsDiffer ==
  ASSUME NEW S, NEW cyc \in Seq(S), cyc # <<>>, NEW one \in Nat \ {0}, NEW two \in Nat \ {0}, one < two,
         SquadFor(cyc, one) = SquadFor(cyc, two)
  PROVE  /\ SquadOrdinal(cyc, one) \in 0 .. one - 1
         /\ SquadOrdinal(cyc, two) \in 0 .. two - 1
         /\ SquadOrdinal(cyc, one) < SquadOrdinal(cyc, two)
<1> DEFINE lower(k) == {other \in 1 .. k - 1 : SquadFor(cyc, other) = SquadFor(cyc, k)}
<1>1. ASSUME NEW k \in Nat \ {0}
      PROVE  /\ IsFiniteSet(lower(k)) /\ Cardinality(lower(k)) \in 0 .. k - 1
             /\ SquadOrdinal(cyc, k) = Cardinality(lower(k))
  <2>1. IsFiniteSet(1 .. k - 1) /\ Cardinality(1 .. k - 1) = k - 1
    <3>1. 1 \in Int /\ k - 1 \in Int /\ (1 > k - 1 => k - 1 = 0) /\ k - 1 - 1 + 1 = k - 1
      OBVIOUS
    <3> DEFINE last == k - 1
    <3> HIDE DEF last, lower
    <3>2. /\ IsFiniteSet(1 .. last)
          /\ Cardinality(1 .. last) = IF 1 > last THEN 0 ELSE last - 1 + 1
      BY <3>1, FS_Interval DEF last
    <3> QED
      BY <3>1, <3>2 DEF last
  <2>2. lower(k) \subseteq 1 .. k - 1
    OBVIOUS
  <2>3. IsFiniteSet(lower(k)) /\ Cardinality(lower(k)) <= k - 1
    BY <2>1, <2>2, FS_Subset
  <2>4. Cardinality(lower(k)) \in Nat
    BY <2>3, FS_CardinalityType
  <2> QED
    BY <2>3, <2>4, OrdinalIsCount
<1>2. lower(one) \cup {one} \subseteq lower(two) /\ one \notin lower(one)
  OBVIOUS
<1>3. IsFiniteSet(lower(one)) /\ IsFiniteSet(lower(two))
  BY <1>1
<1> HIDE DEF lower
<1>4. Cardinality(lower(one) \cup {one}) = Cardinality(lower(one)) + 1
  BY <1>2, <1>3, FS_AddElement
<1>5. Cardinality(lower(one) \cup {one}) <= Cardinality(lower(two))
  BY <1>2, <1>3, FS_Subset
<1> QED
  BY <1>1, <1>4, <1>5

(* Everything SlotsDistinct speaks of is a frame along an axis, a form the *)
(* run lays out and an aim that is the same for everybody.                 *)
CycleFormAndAxis == CycleAndForm /\ axis \in Axes

LEMMA AxisStays == Spec => []CycleFormAndAxis
<1>1. Init => axis \in Axes
  BY DEF Init, Axes
<1>2. axis \in Axes /\ [Next]_vars => (axis \in Axes)'
  BY DEF Next, NextVector, NextScalar, FirstCycle, Lengthen, vars, Axes
<1>3. Spec => [](axis \in Axes)
  BY <1>1, <1>2, PTL DEF Spec
<1> QED
  BY <1>3, CycleAndFormStay, PTL DEF CycleFormAndAxis

(* The wedges and pods laid out keep their ordinals apart.                 *)
LEMMA FormsSeparate ==
  ASSUME CycleAndForm, cycle # <<>>, form \in Forms,
         NEW m \in 0 .. Cardinality(Locals) - 1, NEW n \in 0 .. Cardinality(Locals) - 1, m # n
  PROVE  /\ Across(form, m) \in Word /\ Across(form, n) \in Word
         /\ Back(form, m) \in Int /\ Back(form, n) \in Int
         /\ \/ Across(form, m) # Across(form, n)
            \/ /\ Back(form, m) # Back(form, n)
               /\ Back(form, m) \in Word /\ Back(form, n) \in Word
<1>1. AcceptedForm(form) /\ One \in Nat \ {0, 1} /\ Cardinality(Locals) \in Nat /\ m \in Nat /\ n \in Nat
  <2>1. Cardinality(Locals) \in Nat
    BY RosterAssumption, FS_CardinalityType
  <2> QED
    BY <2>1, FormsAssumption, FixedAssumption
<1>2. \A ordinal \in 0 .. Cardinality(Locals) - 1 :
        IF form.kind = "Pod"
        THEN /\ {PodStart(form, ordinal), Column(form, ordinal), Row(form, ordinal)} \subseteq Word
             /\ PodStart(form, ordinal) + QMul(Column(form, ordinal), Half) \in Word
        ELSE Whole(AlternatingStep(ordinal), GapOf(form)) \in Word
  BY <1>1, AcceptedLayoutsFit DEF AcceptedSlotsFit
<1>3. ASSUME NEW gap \in Int, gap # 0, form = Wedge(gap)
      PROVE  /\ Across(form, m) \in Word /\ Across(form, n) \in Word
             /\ Back(form, m) \in Int /\ Back(form, n) \in Int
             /\ Across(form, m) # Across(form, n)
  <2>1. form.kind # "Pod" /\ form.gap = gap /\ GapOf(form) = gap
    BY <1>3 DEF Wedge, GapOf
  <2>2. \A k \in Nat : /\ Across(form, k) = Whole(AlternatingStep(k), gap)
                       /\ Back(form, k) = Whole(AbsOf(AlternatingStep(k)), gap)
    BY <2>1 DEF Across, Back
  <2> DEFINE s == AlternatingStep(m)
             t == AlternatingStep(n)
  <2>3. s \in Int /\ t \in Int /\ s # t /\ AbsOf(s) \in Int /\ AbsOf(t) \in Int
    BY <1>1, StepIsHalf, StepsTellOrdinals
  <2>4. Across(form, m) \in Word /\ Across(form, n) \in Word
    BY <1>1, <1>2, <2>1, <2>2
  <2>5. /\ Across(form, m) = Whole(s, gap) /\ Across(form, n) = Whole(t, gap)
        /\ Back(form, m) = Whole(AbsOf(s), gap) /\ Back(form, n) = Whole(AbsOf(t), gap)
    BY <1>1, <2>2
  <2> HIDE DEF s, t
  <2>6. /\ Whole(s, gap) = s * gap /\ Whole(t, gap) = t * gap
        /\ Whole(AbsOf(s), gap) \in Int /\ Whole(AbsOf(t), gap) \in Int
    <3> DEFINE u == AbsOf(s)
               v == AbsOf(t)
    <3>1. u \in Int /\ v \in Int
      BY <2>3
    <3> HIDE DEF u, v
    <3>2. Whole(u, gap) = u * gap /\ Whole(v, gap) = v * gap
      BY <3>1, WholeIsExact
    <3>3. Whole(u, gap) \in Int /\ Whole(v, gap) \in Int
      BY <3>1, <3>2
    <3> QED
      BY <2>3, <3>3, WholeIsExact DEF u, v
  <2>7. s * gap # t * gap
    BY <1>3, <2>3
  <2> QED
    BY <2>4, <2>5, <2>6, <2>7
<1>4. ASSUME NEW rank \in Nat \ {0}, NEW file \in Nat \ {0}, NEW gap \in Int, AbsOf(gap) >= 2,
             form = Pod(rank, file, gap)
      PROVE  /\ Across(form, m) \in Word /\ Across(form, n) \in Word
             /\ Back(form, m) \in Int /\ Back(form, n) \in Int
             /\ \/ Across(form, m) # Across(form, n)
                \/ /\ Back(form, m) # Back(form, n)
                   /\ Back(form, m) \in Word /\ Back(form, n) \in Word
  <2>1. form.kind = "Pod"
    BY <1>4 DEF Pod
  <2>2. /\ Across(form, m) \in Word /\ Across(form, n) \in Word
        /\ Back(form, m) \in Word /\ Back(form, n) \in Word
    BY <1>2, <2>1 DEF Across, Back
  <2>3. Word \subseteq Int
    BY FixedAssumption DEF Word
  <2>4. ~(Across(form, m) = Across(form, n) /\ Back(form, m) = Back(form, n))
    BY <1>1, <1>4, PodsSeparate
  <2> QED
    BY <2>2, <2>3, <2>4
<1>5. \/ form = Wedge(2) \/ form = Wedge(-One) \/ form = Pod(1, 1, 3) \/ form = Pod(2, 2, 2)
      \/ form = Pod(2, 3, One) \/ form = Pod(3, 1, -3)
  BY DEF Forms
<1>6. /\ -One \in Int /\ -One # 0 /\ AbsOf(One) >= 2 /\ AbsOf(2) >= 2 /\ AbsOf(3) >= 2 /\ AbsOf(-3) >= 2
      /\ 2 \in Int /\ 3 \in Int /\ -3 \in Int /\ One \in Int
  BY <1>1 DEF AbsOf
<1>7. CASE form = Wedge(2)
  BY <1>3, <1>6, <1>7
<1>8. CASE form = Wedge(-One)
  BY <1>3, <1>6, <1>8
<1>9. CASE form = Pod(1, 1, 3)
  BY <1>4, <1>6, <1>9
<1>10. CASE form = Pod(2, 2, 2)
  BY <1>4, <1>6, <1>10
<1>11. CASE form = Pod(2, 3, One)
  BY <1>4, <1>6, <1>11
<1>12. CASE form = Pod(3, 1, -3)
  BY <1>4, <1>6, <1>12
<1> QED
  BY <1>5, <1>7, <1>8, <1>9, <1>10, <1>11, <1>12

(* What FormSlot answers for a form laid out along a frame.                *)
LEMMA SlotsAlongFrames ==
  ASSUME form \in Forms, NEW frame, NEW aim, NEW ordinal
  PROVE  LET placed == Abreast(aim, frame, Across(form, ordinal), Back(form, ordinal))
         IN  FormSlot(form, frame, aim, aim, ordinal) = Vec(placed.x, placed.y, aim.z)
<1>1. \/ form = Wedge(2) \/ form = Wedge(-One) \/ form = Pod(1, 1, 3) \/ form = Pod(2, 2, 2)
      \/ form = Pod(2, 3, One) \/ form = Pod(3, 1, -3)
  BY DEF Forms
<1>2. form.kind = "Wedge" \/ form.kind = "Pod"
  BY <1>1 DEF Wedge, Pod
<1>3. CASE form.kind = "Wedge"
  <2>1. WedgeSlot(form, frame, aim, ordinal)
          = Abreast(aim, frame, Across(form, ordinal), Back(form, ordinal))
    BY <1>3 DEF WedgeSlot, Across, Back
  <2>2. FormSlot(form, frame, aim, aim, ordinal)
          = Vec(WedgeSlot(form, frame, aim, ordinal).x, WedgeSlot(form, frame, aim, ordinal).y, aim.z)
    BY <1>3 DEF FormSlot
  <2> QED
    BY <2>1, <2>2
<1>4. CASE form.kind = "Pod"
  <2>1. PodSlot(form, frame, aim, ordinal)
          = Abreast(aim, frame, Across(form, ordinal), Back(form, ordinal))
    BY <1>4 DEF PodSlot, Across, Back
  <2>2. FormSlot(form, frame, aim, aim, ordinal)
          = Vec(PodSlot(form, frame, aim, ordinal).x, PodSlot(form, frame, aim, ordinal).y, aim.z)
    BY <1>4 DEF FormSlot
  <2> QED
    BY <2>1, <2>2
<1> QED
  BY <1>2, <1>3, <1>4

(* Along an axis of the field, places that differ are different slots.     *)
LEMMA PlacesAreSlots ==
  ASSUME NEW forward \in {UnitX, Vec(0, -One, 0)},
         NEW aim, aim.x \in Int, aim.y \in Int,
         NEW a \in Word, NEW b \in Word, NEW p \in Int, NEW q \in Int,
         Abreast(aim, Laid(forward), a, p).x = Abreast(aim, Laid(forward), b, q).x,
         Abreast(aim, Laid(forward), a, p).y = Abreast(aim, Laid(forward), b, q).y
  PROVE  a = b /\ (p \in Word /\ q \in Word => p = q)
<1> DEFINE X(c, k) == Wrap(Wrap(aim.x + QMul(forward.y, c)) - QMul(forward.x, k))
           Y(c, k) == Wrap(Wrap(aim.y + QMul(-forward.x, c)) - QMul(forward.y, k))
           u == aim.x
           v == aim.y
<1>1. a \in Int /\ b \in Int /\ One \in Nat \ {0} /\ u \in Int /\ v \in Int
  BY FixedAssumption DEF Word
<1>2. X(a, p) = X(b, q) /\ Y(a, p) = Y(b, q)
  BY DEF Abreast, Laid, Plus, Minus, Scaled, Vec
<1>3. CASE forward = UnitX
  <2>1. forward.x = One /\ forward.y = 0
    BY <1>3 DEF UnitX, Vec
  <2>2. ASSUME NEW c \in Int, NEW k \in Int
        PROVE  X(c, k) = Wrap(Wrap(u + 0) - k) /\ Y(c, k) = Wrap(Wrap(v + -c) - 0)
    <3>1. /\ QMul(forward.y, c) = 0 /\ QMul(forward.x, k) = k
          /\ QMul(-forward.x, c) = -c /\ QMul(forward.y, k) = 0
      BY <2>1, UnitTimes
    <3> QED
      BY <3>1
  <2> HIDE DEF X, Y, u, v
  <2>3. /\ Wrap(Wrap(u + 0) - p) = Wrap(Wrap(u + 0) - q)
        /\ Wrap(Wrap(v + -a) - 0) = Wrap(Wrap(v + -b) - 0)
    BY <1>1, <1>2, <2>2
  <2>4. a = b
    BY <1>1, <2>3, PlacesSeparate
  <2>5. p \in Word /\ q \in Word => p = q
    BY <1>1, <2>3, PlacesSeparate
  <2> QED
    BY <2>4, <2>5
<1>4. CASE forward = Vec(0, -One, 0)
  <2> DEFINE f == forward.x
             g == forward.y
  <2>1. f = 0 /\ g = -One
    BY <1>4 DEF Vec
  <2> HIDE DEF f, g
  <2>2. -f = 0
    <3>1. f \in Int /\ f + f = 0
      BY <2>1
    <3>2. -f = f
      BY <3>1
    <3> QED
      BY <2>1, <3>2
  <2>3. ASSUME NEW c \in Int, NEW k \in Int
        PROVE  /\ QMul(g, c) = -c /\ QMul(f, k) = 0
               /\ QMul(-f, c) = 0 /\ QMul(g, k) = -k
    BY <2>1, <2>2, UnitTimes
  <2>4. ASSUME NEW c \in Int, NEW k \in Int
        PROVE  X(c, k) = Wrap(Wrap(u + -c) - 0) /\ Y(c, k) = Wrap(Wrap(v + 0) - (-k))
    BY <2>3 DEF f, g
  <2> HIDE DEF X, Y, u, v
  <2>5. /\ Wrap(Wrap(u + -a) - 0) = Wrap(Wrap(u + -b) - 0)
        /\ Wrap(Wrap(v + 0) - (-p)) = Wrap(Wrap(v + 0) - (-q))
    BY <1>1, <1>2, <2>4
  <2>6. a = b
    BY <1>1, <2>5, PlacesSeparate
  <2>7. p \in Word /\ q \in Word => p = q
    BY <1>1, <2>5, PlacesSeparate
  <2> QED
    BY <2>6, <2>7
<1> QED
  BY <1>3, <1>4

(* Two fielders of one squad never share a slot of a wedge or of pods laid *)
(* out along an axis of the field, for every roster, cycle and word that   *)
(* keep the forms accepted, and a frame without a direction puts them all  *)
(* on the aim point (form_slot, FormFrame::new).                           *)
THEOREM SquadmatesStandApart == Spec => []SlotsDistinct
<1>1. CycleFormAndAxis => SlotsDistinct
  <2> DEFINE frame == FormFrame(axis, "zero")
             Slot(ordinal) == FormSlot(form, frame, Aim, Aim, ordinal)
             SlotOf(local) == Slot(SquadOrdinal(cycle, local))
             n == Cardinality(Locals)
  <2> SUFFICES ASSUME CycleFormAndAxis, cycle # <<>>, form \in Forms,
                      NEW one \in Fielders, NEW two \in Fielders,
                      one # two, SquadFor(cycle, one) = SquadFor(cycle, two)
               PROVE  (SlotOf(one) = SlotOf(two)) <=> (frame.forward = Zero)
    BY DEF SlotsDistinct
  <2>1. One \in Nat \ {0} /\ n \in Nat /\ Aim.x \in Int /\ Aim.y \in Int
    BY RosterAssumption, FS_CardinalityType, FixedAssumption DEF Aim, Vec
  <2>2. SquadOrdinal(cycle, one) \in 0 .. n - 1 /\ SquadOrdinal(cycle, two) \in 0 .. n - 1
        /\ SquadOrdinal(cycle, one) # SquadOrdinal(cycle, two)
    <3> HIDE DEF SlotOf, Slot, frame
    <3>1. Locals = 0 .. n - 1
      BY RosterAssumption
    <3>2. one \in 1 .. n - 1 /\ two \in 1 .. n - 1
      BY <2>1, <3>1 DEF Fielders, Goalie
    <3>3. cycle \in Seq(Squads)
      BY DEF CycleFormAndAxis, CycleAndForm
    <3> HIDE DEF n
    <3>4. one \in Nat \ {0} /\ two \in Nat \ {0} /\ (one < two \/ two < one)
      BY <2>1, <3>2
    <3>5. CASE one < two
      <4>1. /\ SquadOrdinal(cycle, one) \in 0 .. one - 1 /\ SquadOrdinal(cycle, two) \in 0 .. two - 1
            /\ SquadOrdinal(cycle, one) < SquadOrdinal(cycle, two)
        BY <3>3, <3>4, <3>5, OrdinalsDiffer
      <4> QED
        BY <2>1, <3>2, <4>1
    <3>6. CASE two < one
      <4>1. /\ SquadOrdinal(cycle, one) \in 0 .. one - 1 /\ SquadOrdinal(cycle, two) \in 0 .. two - 1
            /\ SquadOrdinal(cycle, two) < SquadOrdinal(cycle, one)
        BY <3>3, <3>4, <3>6, OrdinalsDiffer
      <4> QED
        BY <2>1, <3>2, <4>1
    <3> QED
      BY <3>4, <3>5, <3>6
  <2> DEFINE i == SquadOrdinal(cycle, one)
             j == SquadOrdinal(cycle, two)
             a == Across(form, i)
             b == Across(form, j)
             p == Back(form, i)
             q == Back(form, j)
  <2>3. /\ a \in Word /\ b \in Word /\ p \in Int /\ q \in Int
        /\ a # b \/ (p # q /\ p \in Word /\ q \in Word)
    <3> HIDE DEF i, j
    <3>1. i \in 0 .. Cardinality(Locals) - 1 /\ j \in 0 .. Cardinality(Locals) - 1 /\ i # j
      BY <2>2 DEF i, j
    <3>2. CycleAndForm
      BY DEF CycleFormAndAxis
    <3> QED
      BY <3>1, <3>2, FormsSeparate
  <2> HIDE DEF n
  <2>4. frame \in {Laid(UnitX), Laid(Vec(0, -One, 0)), Laid(Zero)}
    BY FramesLieAlongAxes DEF CycleFormAndAxis
  <2> HIDE DEF frame
  <2>5. /\ SlotOf(one) = Vec(Abreast(Aim, frame, a, p).x, Abreast(Aim, frame, a, p).y, Aim.z)
        /\ SlotOf(two) = Vec(Abreast(Aim, frame, b, q).x, Abreast(Aim, frame, b, q).y, Aim.z)
    <3> HIDE DEF i, j
    <3>1. /\ Slot(i) = Vec(Abreast(Aim, frame, a, p).x, Abreast(Aim, frame, a, p).y, Aim.z)
          /\ Slot(j) = Vec(Abreast(Aim, frame, b, q).x, Abreast(Aim, frame, b, q).y, Aim.z)
      BY SlotsAlongFrames
    <3> QED
      BY <3>1 DEF i, j
  <2> HIDE DEF i, j, a, b, p, q, SlotOf
  <2>6. CASE frame = Laid(Zero)
    <3>1. frame.forward = Zero
      BY <2>6 DEF Laid
    <3>2. frame.lateral = Zero
      BY <2>6 DEF Laid, Zero, Vec
    <3>3. QMul(0, a) = 0 /\ QMul(0, b) = 0 /\ QMul(0, p) = 0 /\ QMul(0, q) = 0
      <4>1. a \in Int /\ b \in Int
        BY <2>3, FixedAssumption DEF Word
      <4> QED
        BY <2>3, <4>1, UnitTimes
    <3>4. Abreast(Aim, frame, a, p) = Abreast(Aim, frame, b, q)
      BY <3>1, <3>2, <3>3 DEF Abreast, Scaled, Zero, Vec
    <3> QED
      BY <2>5, <3>1, <3>4
  <2>7. ASSUME NEW forward \in {UnitX, Vec(0, -One, 0)}, frame = Laid(forward)
        PROVE  frame.forward # Zero /\ SlotOf(one) # SlotOf(two)
    <3>1. frame.forward # Zero
      <4>1. frame.forward = forward
        BY <2>7 DEF Laid
      <4>2. UnitX.x # 0 /\ Vec(0, -One, 0).y # 0 /\ Zero.x = 0 /\ Zero.y = 0
        BY <2>1 DEF UnitX, Vec, Zero
      <4> QED
        BY <2>7, <4>1, <4>2
    <3>2. ASSUME SlotOf(one) = SlotOf(two) PROVE FALSE
      <4>1. /\ Abreast(Aim, Laid(forward), a, p).x = Abreast(Aim, Laid(forward), b, q).x
            /\ Abreast(Aim, Laid(forward), a, p).y = Abreast(Aim, Laid(forward), b, q).y
        BY <2>5, <2>7, <3>2 DEF Vec
      <4>2. a = b /\ (p \in Word /\ q \in Word => p = q)
        BY <2>1, <2>3, <4>1, PlacesAreSlots
      <4> QED
        BY <2>3, <4>2
    <3> QED
      BY <3>1, <3>2
  <2> QED
    BY <2>4, <2>6, <2>7
<1> QED
  BY <1>1, AxisStays, PTL

=============================================================================
