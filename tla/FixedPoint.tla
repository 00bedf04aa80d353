----------------------------- MODULE FixedPoint -----------------------------
(***************************************************************************)
(* Scalar and vector arithmetic of zoomieball-core/src/fixed.rs, over raw  *)
(* words.  One is the raw word of 1 (65536 in the code) and WordLimit the  *)
(* end of the word's range (2^31), so that a small instance has the same   *)
(* roundings at the same places.  Where the code panics because an exact   *)
(* result does not fit the word, the operator answers the exact result,    *)
(* which is then no Word.                                                  *)
(***************************************************************************)
EXTENDS Integers

CONSTANTS
  One,        \* raw word of 1
  WordLimit   \* words are -WordLimit .. WordLimit - 1

ASSUME FixedAssumption ==
  /\ One \in Nat \ {0, 1}
  /\ WordLimit \in Nat \ {0}
  /\ One < WordLimit

Word == -WordLimit .. WordLimit - 1

Vector == [x : Word, y : Word, z : Word]
Vec(x, y, z) == [x |-> x, y |-> y, z |-> z]
Zero == Vec(0, 0, 0)
UnitX == Vec(One, 0, 0)
UnitY == Vec(0, One, 0)
UnitZ == Vec(0, 0, One)
Half == One \div 2

-----------------------------------------------------------------------------

AbsOf(value) == IF value < 0 THEN -value ELSE value
SignOf(value) == IF value < 0 THEN -1 ELSE IF value > 0 THEN 1 ELSE 0

(* Mutant: an arithmetic shift, which rounds down. *)
Floored(numerator, denominator) ==
  (numerator * SignOf(denominator)) \div AbsOf(denominator)

(* A quotient truncated toward zero: signed_magnitude and renormalize. *)
Truncated(numerator, denominator) ==
  SignOf(numerator) * SignOf(denominator) * (AbsOf(numerator) \div AbsOf(denominator))

(* qmul, qdiv *)
QMul(lhs, rhs) == Truncated(lhs * rhs, One)
QDiv(lhs, rhs) == Truncated(lhs * One, rhs)

(* Addition, subtraction and negation keep the low word of the exact result. *)
Wrap(value) == ((value + WordLimit) % (2 * WordLimit)) - WordLimit

ClampTo(value, low, high) == IF value < low THEN low ELSE IF value > high THEN high ELSE value

-----------------------------------------------------------------------------

(* Bits of a positive value's binary form, and powers of two. *)
Bits[value \in Nat] == IF value = 0 THEN 0 ELSE 1 + Bits[value \div 2]
PowerOfTwo[exponent \in Nat] == IF exponent = 0 THEN 1 ELSE 2 * PowerOfTwo[exponent - 1]

(* Mutant: half the bits, rounded down. *)
RootGuessBelow(value) == PowerOfTwo[Bits[value] \div 2]

(* Where isqrt64 starts: half the bits, rounded up, is never below the root. *)
RootGuess(value) == PowerOfTwo[(Bits[value] + 1) \div 2]

(* The descent of isqrt64 from a guess: the first step that fails to fall ends it. *)
Descent(value) ==
  LET Below[root \in Nat \ {0}] ==
        LET next == (root + value \div root) \div 2
        IN  IF next >= root THEN root ELSE Below[next]
  IN  Below

Isqrt(value) == IF value < 2 THEN value ELSE Descent(value)[RootGuess(value)]

-----------------------------------------------------------------------------

Plus(v, w) == Vec(Wrap(v.x + w.x), Wrap(v.y + w.y), Wrap(v.z + w.z))
Minus(v, w) == Vec(Wrap(v.x - w.x), Wrap(v.y - w.y), Wrap(v.z - w.z))
Negated(v) == Vec(Wrap(-v.x), Wrap(-v.y), Wrap(-v.z))
Scaled(v, factor) == Vec(QMul(v.x, factor), QMul(v.y, factor), QMul(v.z, factor))

(* The exact sum of products, and dot: one renormalization at the end. *)
RawDot(v, w) == v.x * w.x + v.y * w.y + v.z * w.z
Dot(v, w) == Truncated(RawDot(v, w), One)

(* Mutant: components rounded down. *)
CrossFloored(v, w) ==
  Vec(Floored(v.y * w.z - v.z * w.y, One),
      Floored(v.z * w.x - v.x * w.z, One),
      Floored(v.x * w.y - v.y * w.x, One))

Cross(v, w) ==
  Vec(Truncated(v.y * w.z - v.z * w.y, One),
      Truncated(v.z * w.x - v.x * w.z, One),
      Truncated(v.x * w.y - v.y * w.x, One))

(* Mutant: the root of the renormalized square. *)
LengthOfDot(v) == Isqrt(Dot(v, v) * One)

(* The root of the exact raw square, so the shortest vector has a length. *)
Length(v) == Isqrt(RawDot(v, v))

(* Total: the zero vector has no direction and stays zero. *)
Normalized(v) ==
  LET length == Length(v)
  IN  IF length = 0 THEN Zero
      ELSE Vec(QDiv(v.x, length), QDiv(v.y, length), QDiv(v.z, length))

(* half_turn for team one: the rotation about z, as two products with -1. *)
Turned(v) == Vec(QMul(v.x, -One), QMul(v.y, -One), v.z)

=============================================================================
