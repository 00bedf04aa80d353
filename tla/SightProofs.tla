---------------------------- MODULE SightProofs -----------------------------
(***************************************************************************)
(* The observation build sees what brute force sees: theorems about Sight, *)
(* for any grid, any number of bodies and wherever they stand.             *)
(*                                                                         *)
(* Along an axis everything is said in raw units from the grid's corner:   *)
(* the way of a position, the cell a way is in.                            *)
(***************************************************************************)
EXTENDS Sight, FixedPointProofs, SequenceTheorems

Last(axis) == Dimensions[axis] - 1
CellOf(axis, way) == ClampTo((IF way < 0 THEN 0 ELSE way) \div One, 0, Last(axis))

LEMMA GridFacts ==
  /\ Bodies \in Nat \ {0} /\ Radius \in Nat \ {0} /\ 2 * Radius <= One
  /\ One \in Nat \ {0} /\ WordLimit \in Nat \ {0}
  /\ \A axis \in Axis : Dimensions[axis] \in Nat \ {0} /\ Last(axis) \in Nat
  BY GridAssumption, FixedAssumption DEF Axis, Last

(* A way is in a cell or beyond it exactly when it reaches the cell's low  *)
(* boundary; the border cells have no end.                                 *)
LEMMA CellReached ==
  ASSUME NEW axis \in Axis, NEW way \in Int
  PROVE  /\ CellOf(axis, way) \in 0 .. Last(axis)
         /\ \A c \in 0 .. Last(axis) : c <= CellOf(axis, way) <=> (c = 0 \/ c * One <= way)
<1> DEFINE m == IF way < 0 THEN 0 ELSE way
           q == m \div One
           r == m % One
<1>1. m \in Nat /\ One \in Nat \ {0} /\ Last(axis) \in Nat
  BY GridFacts
<1>2. CellOf(axis, way) = ClampTo(q, 0, Last(axis))
  BY DEF CellOf
<1>3. /\ m = (One * q) + r /\ r \in 0 .. One - 1 /\ q \in Int
      /\ One * q \in Int /\ One * q = q * One
  BY <1>1
<1>4. q >= 0
  BY <1>1
<1>5. m = way \/ (m = 0 /\ way < 0)
  OBVIOUS
<1> HIDE DEF m, q, r
<1>6. CellOf(axis, way) \in 0 .. Last(axis)
      /\ \A c \in 0 .. Last(axis) : c <= CellOf(axis, way) <=> c <= q
  BY <1>1, <1>2, <1>3, <1>4 DEF ClampTo
<1>7. ASSUME NEW c \in 0 .. Last(axis)
      PROVE  c <= q <=> (c = 0 \/ c * One <= way)
  <2>1. c \in Nat /\ c * One \in Nat
    BY <1>1
  <2>2. CASE c = 0
    BY <1>4, <2>2
  <2>3. CASE c # 0
    <3>1. c * One >= One
      BY <1>1, <2>1, <2>3
    <3>2. c * One <= way <=> c * One <= m
      BY <1>1, <1>5, <2>1, <3>1
    <3>3. c <= q => c * One <= m
      <4>1. c <= q => c * One <= q * One
        BY <1>1, <1>3, <1>4, <2>1
      <4> QED
        BY <1>1, <1>3, <2>1, <4>1
    <3>4. c >= q + 1 => c * One > m
      <4>1. c >= q + 1 => c * One >= (q + 1) * One
        BY <1>1, <1>3, <1>4, <2>1
      <4>2. (q + 1) * One = (q * One) + One
        BY <1>1, <1>3
      <4> QED
        BY <1>1, <1>3, <2>1, <4>1, <4>2
    <3> QED
      BY <1>1, <1>3, <2>1, <2>3, <3>2, <3>3, <3>4
  <2> QED
    BY <2>2, <2>3
<1> QED
  BY <1>6, <1>7

LEMMA CellsKeepOrder ==
  ASSUME NEW axis \in Axis, NEW low \in Int, NEW high \in Int, low <= high
  PROVE  CellOf(axis, low) <= CellOf(axis, high)
<1> DEFINE c == CellOf(axis, low)
<1>1. c \in 0 .. Last(axis) /\ (c = 0 \/ c * One <= low)
  <2>1. c \in 0 .. Last(axis)
    BY CellReached
  <2>2. c <= c
    BY <2>1, GridFacts
  <2> QED
    BY <2>1, <2>2, CellReached
<1>2. c * One \in Int
  BY <1>1, GridFacts
<1> HIDE DEF c
<1>3. c = 0 \/ c * One <= high
  BY <1>1, <1>2
<1>4. c <= CellOf(axis, high)
  BY <1>1, <1>3, CellReached
<1> QED
  BY <1>4 DEF c

Way(position, axis) == position[axis] - Origin[axis]

LEMMA WayFacts ==
  ASSUME NEW p, Placeable(p), NEW axis \in Axis
  PROVE  /\ p[axis] \in Int /\ Origin[axis] \in Int /\ Way(p, axis) \in Int
         /\ 4 * AbsOf(p[axis]) < WordLimit /\ 4 * AbsOf(Origin[axis]) < WordLimit
         /\ 4 * Radius < WordLimit
<1>1. /\ p \in Vector /\ Origin \in Vector /\ 4 * AbsOf(p[axis]) < WordLimit
      /\ 4 * AbsOf(Origin[axis]) < WordLimit /\ 4 * Radius < WordLimit
  BY GridAssumption DEF Placeable
<1>2. p[axis] \in Word /\ Origin[axis] \in Word
  BY <1>1 DEF Vector, Axis
<1>3. \A value \in Word : value \in Int
  BY FixedAssumption DEF Word
<1>4. p[axis] \in Int /\ Origin[axis] \in Int
  BY <1>2, <1>3
<1> QED
  BY <1>1, <1>4 DEF Way

(* No difference of two places leaves the word, and no box about one.      *)
LEMMA NothingWraps ==
  ASSUME NEW v \in Int, NEW w \in Int, NEW u \in Int,
         4 * AbsOf(v) < WordLimit, 4 * AbsOf(w) < WordLimit, 4 * AbsOf(u) < WordLimit
  PROVE  /\ Wrap(v + u) = v + u /\ Wrap(v - u) = v - u
         /\ Wrap((v + u) - w) = (v + u) - w /\ Wrap((v - u) - w) = (v - u) - w
<1>1. WordLimit \in Nat
  BY GridFacts
<1>2. /\ v + u \in Word /\ v - u \in Word
      /\ (v + u) - w \in Word /\ (v - u) - w \in Word
  BY <1>1 DEF AbsOf, Word
<1> QED
  BY <1>2, WordsDoNotWrap

LEMMA CellOfPlace ==
  ASSUME NEW p, Placeable(p)
  PROVE  CellCoordinates(p) = [axis \in Axis |-> CellOf(axis, Way(p, axis))]
<1>1. ASSUME NEW axis \in Axis
      PROVE  Wrap(p[axis] - Origin[axis]) = Way(p, axis)
  BY WayFacts, NothingWraps DEF Way
<1> QED
  BY <1>1 DEF CellCoordinates, CellOf, Last

IsCell(cell) == cell = [axis \in Axis |-> cell[axis]]

(* A body covers the cells its box reaches.                                *)
LEMMA CoveredIsBoxed ==
  ASSUME NEW p, Placeable(p), NEW cell
  PROVE  cell \in CoveredCells(p) <=>
           /\ IsCell(cell)
           /\ \A axis \in Axis :
                cell[axis] \in CellOf(axis, Way(p, axis) - Radius) .. CellOf(axis, Way(p, axis) + Radius)
<1> DEFINE below == CellCoordinates(Minus(p, Splat(Radius)))
           above == CellCoordinates(Plus(p, Splat(Radius)))
           Low(axis) == CellOf(axis, Way(p, axis) - Radius)
           High(axis) == CellOf(axis, Way(p, axis) + Radius)
<1>1. ASSUME NEW axis \in Axis
      PROVE  /\ Minus(p, Splat(Radius))[axis] = Wrap(p[axis] - Radius)
             /\ Plus(p, Splat(Radius))[axis] = Wrap(p[axis] + Radius)
  BY DEF Minus, Plus, Splat, Vec, Axis
<1>2. ASSUME NEW axis \in Axis
      PROVE  /\ Wrap(p[axis] - Radius) = p[axis] - Radius
             /\ Wrap(p[axis] + Radius) = p[axis] + Radius
             /\ Wrap((p[axis] - Radius) - Origin[axis]) = Way(p, axis) - Radius
             /\ Wrap((p[axis] + Radius) - Origin[axis]) = Way(p, axis) + Radius
  <2> DEFINE v == p[axis]
             w == Origin[axis]
  <2>1. /\ v \in Int /\ w \in Int /\ 4 * AbsOf(v) < WordLimit /\ 4 * AbsOf(w) < WordLimit
        /\ Radius \in Int /\ 4 * AbsOf(Radius) < WordLimit
    BY WayFacts, GridFacts DEF AbsOf
  <2>2. Way(p, axis) = v - w
    BY DEF Way
  <2> HIDE DEF v, w
  <2>3. /\ Wrap(v + Radius) = v + Radius /\ Wrap(v - Radius) = v - Radius
        /\ Wrap((v + Radius) - w) = (v + Radius) - w /\ Wrap((v - Radius) - w) = (v - Radius) - w
    BY <2>1, NothingWraps
  <2>4. (v + Radius) - w = (v - w) + Radius /\ (v - Radius) - w = (v - w) - Radius
    BY <2>1
  <2>5. /\ Wrap(v + Radius) = v + Radius /\ Wrap(v - Radius) = v - Radius
        /\ Wrap((v + Radius) - w) = Way(p, axis) + Radius /\ Wrap((v - Radius) - w) = Way(p, axis) - Radius
    BY <2>2, <2>3, <2>4
  <2> QED
    BY <2>5 DEF v, w
<1>3. /\ below = [axis \in Axis |-> Low(axis)]
      /\ above = [axis \in Axis |-> High(axis)]
  BY <1>1, <1>2 DEF CellCoordinates, CellOf, Last
<1>4. \A axis \in Axis : below[axis] = Low(axis) /\ above[axis] = High(axis)
  BY <1>3
<1>5. cell \in CoveredCells(p) <=>
        \E x \in below.x .. above.x, y \in below.y .. above.y, z \in below.z .. above.z :
          cell = [x |-> x, y |-> y, z |-> z]
  BY DEF CoveredCells
<1> HIDE DEF below, above, Low, High
<1>6. ASSUME cell \in CoveredCells(p)
      PROVE  IsCell(cell) /\ \A axis \in Axis : cell[axis] \in Low(axis) .. High(axis)
  BY <1>4, <1>5, <1>6 DEF IsCell, Axis
<1>7. ASSUME IsCell(cell), \A axis \in Axis : cell[axis] \in Low(axis) .. High(axis)
      PROVE  cell \in CoveredCells(p)
  <2>1. cell = [x |-> cell.x, y |-> cell.y, z |-> cell.z]
    BY <1>7 DEF IsCell, Axis
  <2>2. /\ cell.x \in below.x .. above.x /\ cell.y \in below.y .. above.y
        /\ cell.z \in below.z .. above.z
    BY <1>4, <1>7 DEF Axis
  <2> QED
    BY <1>5, <2>1, <2>2
<1> QED
  BY <1>6, <1>7 DEF Low, High

(* Every covered cell is in the grid.                                      *)
LEMMA CoveredInGrid ==
  ASSUME NEW p, Placeable(p), NEW cell \in CoveredCells(p)
  PROVE  InGrid(cell) /\ IsCell(cell)
<1>1. ASSUME NEW axis \in Axis
      PROVE  cell[axis] \in 0 .. Last(axis)
  <2> DEFINE low == CellOf(axis, Way(p, axis) - Radius)
             high == CellOf(axis, Way(p, axis) + Radius)
  <2>1. low \in 0 .. Last(axis) /\ high \in 0 .. Last(axis)
    BY WayFacts, GridFacts, CellReached
  <2>2. cell[axis] \in low .. high
    BY CoveredIsBoxed
  <2> HIDE DEF low, high
  <2> QED
    BY <2>1, <2>2, GridFacts
<1> QED
  BY <1>1, CoveredIsBoxed DEF InGrid, Last

-----------------------------------------------------------------------------

LEMMA TwoDigits ==
  ASSUME NEW d \in Nat \ {0}, NEW n \in Nat \ {0},
         NEW q \in 0 .. n - 1, NEW r \in 0 .. d - 1, NEW p \in 0 .. n - 1, NEW s \in 0 .. d - 1
  PROVE  /\ (q * d) + r \in 0 .. (n * d) - 1
         /\ (q * d) + r = (p * d) + s => q = p /\ r = s
<1>1. /\ q * d \in Nat /\ n * d \in Nat /\ p * d \in Nat
      /\ q * d = d * q /\ p * d = d * p
  OBVIOUS
<1>2. (q + 1) * d <= n * d /\ (q + 1) * d = (q * d) + d
  <2>1. n - (q + 1) \in Nat /\ n = (q + 1) + (n - (q + 1))
    OBVIOUS
  <2> DEFINE k == n - (q + 1)
  <2>2. k \in Nat /\ n = (q + 1) + k
    BY <2>1
  <2> HIDE DEF k
  <2>3. ((q + 1) + k) * d = ((q + 1) * d) + (k * d) /\ k * d \in Nat /\ (q + 1) * d \in Nat
    BY <2>2
  <2>4. (q + 1) * d = (q * d) + d
    OBVIOUS
  <2> QED
    BY <1>1, <2>2, <2>3, <2>4
<1>3. (q * d) + r \in 0 .. (n * d) - 1
  BY <1>1, <1>2
<1>4. /\ ((d * q) + r) \div d = q /\ ((d * q) + r) % d = r
      /\ ((d * p) + s) \div d = p /\ ((d * p) + s) % d = s
  BY QuotientOf
<1> QED
  BY <1>1, <1>3, <1>4

(* Cells of the grid are numbered one to one from zero.                    *)
LEMMA IndexIsOneToOne ==
  ASSUME NEW a, NEW b, IsCell(a), IsCell(b), InGrid(a), InGrid(b)
  PROVE  /\ CellIndex(a) \in 0 .. Cells - 1
         /\ CellIndex(a) = CellIndex(b) => a = b
<1> DEFINE X == Dimensions.x
           Y == Dimensions.y
           Z == Dimensions.z
           row(c) == (c.z * Y) + c.y
<1>1. X \in Nat \ {0} /\ Y \in Nat \ {0} /\ Z \in Nat \ {0}
  BY GridFacts DEF Axis
<1>2. /\ a.x \in 0 .. X - 1 /\ a.y \in 0 .. Y - 1 /\ a.z \in 0 .. Z - 1
      /\ b.x \in 0 .. X - 1 /\ b.y \in 0 .. Y - 1 /\ b.z \in 0 .. Z - 1
  BY DEF InGrid, Axis
<1>3. /\ CellIndex(a) = (row(a) * X) + a.x /\ CellIndex(b) = (row(b) * X) + b.x
      /\ Cells = (X * Y) * Z
  BY DEF CellIndex, Cells
<1> HIDE DEF X, Y, Z
<1>4. /\ row(a) \in 0 .. (Z * Y) - 1 /\ row(b) \in 0 .. (Z * Y) - 1
      /\ row(a) = row(b) => a.z = b.z /\ a.y = b.y
  <2>1. /\ (a.z * Y) + a.y \in 0 .. (Z * Y) - 1
        /\ (a.z * Y) + a.y = (b.z * Y) + b.y => a.z = b.z /\ a.y = b.y
    BY <1>1, <1>2, TwoDigits
  <2>2. (b.z * Y) + b.y \in 0 .. (Z * Y) - 1
    BY <1>1, <1>2, TwoDigits
  <2> QED
    BY <2>1, <2>2
<1> DEFINE ra == row(a)
           rb == row(b)
           N == Z * Y
<1>5. N \in Nat \ {0} /\ ra \in 0 .. N - 1 /\ rb \in 0 .. N - 1
  <2>1. N \in Nat \ {0}
    BY <1>1
  <2> QED
    BY <2>1, <1>4
<1> HIDE DEF ra, rb, N
<1>6. /\ (ra * X) + a.x \in 0 .. (N * X) - 1
      /\ (ra * X) + a.x = (rb * X) + b.x => ra = rb /\ a.x = b.x
  BY <1>1, <1>2, <1>5, TwoDigits
<1>7. (Z * Y) * X = (X * Y) * Z
  <2>1. Z * Y = Y * Z /\ X * Y = Y * X
    BY <1>1
  <2>2. (Y * Z) * X = Y * (Z * X) /\ (Y * X) * Z = Y * (X * Z) /\ Z * X = X * Z
    BY <1>1
  <2> QED
    BY <2>1, <2>2
<1>8. a.x = b.x /\ a.y = b.y /\ a.z = b.z => a = b
  BY DEF IsCell, Axis
<1>9. CellIndex(a) = (ra * X) + a.x /\ CellIndex(b) = (rb * X) + b.x /\ N * X = Cells
  BY <1>3, <1>7 DEF ra, rb, N
<1>10. ra = rb => a.z = b.z /\ a.y = b.y
  BY <1>4 DEF ra, rb
<1> HIDE DEF row
<1> QED
  BY <1>6, <1>8, <1>9, <1>10

LEMMA CellsAreSome == Cells \in Nat \ {0}
<1>1. Dimensions.x \in Nat \ {0} /\ Dimensions.y \in Nat \ {0} /\ Dimensions.z \in Nat \ {0}
  BY GridFacts DEF Axis
<1>2. Dimensions.x * Dimensions.y \in Nat \ {0}
  BY <1>1
<1> QED
  BY <1>1, <1>2 DEF Cells

-----------------------------------------------------------------------------

(* Prefix sums, of as many counts as there are cells.                      *)
LEMMA SumsAddUp ==
  ASSUME NEW counts \in [0 .. Cells - 1 -> Nat]
  PROVE  /\ PrefixSums(counts) \in [0 .. Cells -> Nat]
         /\ PrefixSums(counts)[0] = 0
         /\ \A index \in 0 .. Cells - 1 :
              PrefixSums(counts)[index + 1] = PrefixSums(counts)[index] + counts[index]
<1> DEFINE step == [n \in Nat |-> [sum \in Nat |-> sum + (IF n < Cells THEN counts[n] ELSE 0)]]
           Sum(f) == f = [index \in 0 .. Cells |-> IF index = 0 THEN 0 ELSE f[index - 1] + counts[index - 1]]
<1>1. Cells \in Nat \ {0}
  BY CellsAreSome
<1>2. step \in [Nat -> [Nat -> Nat]]
  BY <1>1
<1>3. \E f : Iterates(f, Nat, 0, step)
  <2> HIDE DEF step
  <2> QED
    BY <1>2, Recursion
<1>4. PICK f : Iterates(f, Nat, 0, step)
  BY <1>3
<1>5. /\ f \in [Nat -> Nat] /\ f[0] = 0
      /\ \A n \in Nat : f[n + 1] = step[n][f[n]]
  BY <1>4 DEF Iterates
<1>6. \A n \in Nat : n < Cells => f[n + 1] = f[n] + counts[n]
  BY <1>5
<1> DEFINE g == [index \in 0 .. Cells |-> f[index]]
<1>7. Sum(g)
  <2>1. ASSUME NEW index \in 0 .. Cells
        PROVE  f[index] = IF index = 0 THEN 0 ELSE g[index - 1] + counts[index - 1]
    <3>1. CASE index = 0
      BY <1>5, <3>1
    <3>2. CASE index # 0
      <4>1. index - 1 \in Nat /\ index - 1 < Cells /\ index - 1 \in 0 .. Cells /\ (index - 1) + 1 = index
        BY <1>1, <3>2
      <4>2. f[(index - 1) + 1] = f[index - 1] + counts[index - 1]
        BY <1>6, <4>1
      <4> QED
        BY <3>2, <4>1, <4>2
    <3> QED
      BY <3>1, <3>2
  <2> QED
    BY <2>1
<1> DEFINE upto == CHOOSE h : Sum(h)
<1>8. Sum(upto)
  <2> HIDE DEF Sum
  <2> QED
    BY <1>7
<1>9. PrefixSums(counts) = [index \in 0 .. Cells |-> upto[index]]
  BY DEF PrefixSums
<1> HIDE DEF upto, g, step
<1>10. PrefixSums(counts) = upto
  BY <1>8, <1>9
<1>11. /\ upto[0] = 0
       /\ \A index \in 0 .. Cells - 1 : upto[index + 1] = upto[index] + counts[index]
       /\ DOMAIN upto = 0 .. Cells
  <2>1. upto[0] = 0 /\ DOMAIN upto = 0 .. Cells
    BY <1>1, <1>8
  <2>2. ASSUME NEW index \in 0 .. Cells - 1
        PROVE  upto[index + 1] = upto[index] + counts[index]
    <3>1. index + 1 \in 0 .. Cells /\ index + 1 # 0 /\ (index + 1) - 1 = index
      BY <1>1
    <3> QED
      BY <1>8, <3>1
  <2> QED
    BY <2>1, <2>2
<1> DEFINE S == {n \in Nat : n <= Cells => upto[n] \in Nat}
<1>12. 0 \in S
  BY <1>11
<1>13. ASSUME NEW n \in Nat, n \in S
       PROVE  n + 1 \in S
  <2>1. CASE n + 1 <= Cells
    <3>1. n \in 0 .. Cells - 1 /\ upto[n] \in Nat
      BY <1>1, <1>13, <2>1
    <3> QED
      BY <1>11, <3>1
  <2> QED
    BY <2>1
<1>14. Nat \subseteq S
  <2> HIDE DEF S
  <2> QED
    BY <1>12, <1>13, SetInduction
<1>15. upto \in [0 .. Cells -> Nat]
  <2>1. \A n \in 0 .. Cells : upto[n] \in Nat
    BY <1>1, <1>14
  <2>2. upto = [index \in 0 .. Cells |-> upto[index]]
    BY <1>9, <1>10
  <2> QED
    BY <2>1, <2>2
<1> HIDE DEF Sum, S
<1> QED
  BY <1>10, <1>11, <1>15

LEMMA SumsKeepOrder ==
  ASSUME NEW counts \in [0 .. Cells - 1 -> Nat], NEW low \in 0 .. Cells, NEW high \in 0 .. Cells, low <= high
  PROVE  PrefixSums(counts)[low] <= PrefixSums(counts)[high]
<1> DEFINE sums == PrefixSums(counts)
           S == {n \in Nat : low + n <= Cells => sums[low] <= sums[low + n]}
<1>1. /\ sums \in [0 .. Cells -> Nat]
      /\ \A index \in 0 .. Cells - 1 : sums[index + 1] = sums[index] + counts[index]
  BY SumsAddUp
<1>2. Cells \in Nat \ {0}
  BY CellsAreSome
<1> HIDE DEF sums
<1>3. 0 \in S
  BY <1>1
<1>4. ASSUME NEW n \in Nat, n \in S
      PROVE  n + 1 \in S
  <2>1. CASE low + (n + 1) <= Cells
    <3>1. low + n \in 0 .. Cells - 1 /\ sums[low] <= sums[low + n]
      BY <1>2, <1>4, <2>1
    <3>2. sums[(low + n) + 1] = sums[low + n] + counts[low + n] /\ counts[low + n] \in Nat
      BY <1>1, <3>1
    <3>3. sums[low] \in Nat /\ sums[low + n] \in Nat /\ low + (n + 1) = (low + n) + 1
      BY <1>1, <1>2, <3>1
    <3>4. sums[low] <= sums[low + (n + 1)]
      BY <3>1, <3>2, <3>3
    <3> QED
      BY <3>4
  <2> QED
    BY <2>1
<1>5. Nat \subseteq S
  <2> HIDE DEF S
  <2> QED
    BY <1>3, <1>4, SetInduction
<1>6. high - low \in S /\ low + (high - low) = high
  BY <1>2, <1>5
<1> QED
  BY <1>6 DEF sums

-----------------------------------------------------------------------------

(* A column is what is to go into one cell: bodies paired with its number. *)
IsColumn(T, k) ==
  IsFiniteSet(T) /\ \A pair \in T : pair = <<pair[1], k>> /\ pair[1] \in Int
Before(T, pair) == {other \in T : other[1] < pair[1]}

(* Counting those before is numbering from zero, in order.                 *)
LEMMA RanksFill ==
  ASSUME NEW T, NEW k, IsColumn(T, k)
  PROVE  /\ Cardinality(T) \in Nat
         /\ \A pair \in T : Cardinality(Before(T, pair)) \in 0 .. Cardinality(T) - 1
         /\ \A a, b \in T : a[1] < b[1] => Cardinality(Before(T, a)) < Cardinality(Before(T, b))
         /\ \A n \in 0 .. Cardinality(T) - 1 : \E pair \in T : Cardinality(Before(T, pair)) = n
<1> DEFINE size == Cardinality(T)
           rank == [pair \in T |-> Cardinality(Before(T, pair))]
<1>1. size \in Nat
  BY FS_CardinalityType DEF IsColumn
<1>2. ASSUME NEW pair \in T
      PROVE  IsFiniteSet(Before(T, pair)) /\ Cardinality(Before(T, pair)) \in 0 .. size - 1
  <2> DEFINE B == Before(T, pair)
  <2>1. B \in SUBSET T /\ pair \notin B /\ IsFiniteSet(T)
    BY DEF Before, IsColumn
  <2> HIDE DEF B
  <2>2. IsFiniteSet(B) /\ Cardinality(B) <= size /\ (size = Cardinality(B) => T = B)
    BY <2>1, FS_Subset
  <2>3. Cardinality(B) \in Nat
    BY <2>2, FS_CardinalityType
  <2>4. size # Cardinality(B)
    BY <2>1, <2>2
  <2> HIDE DEF size
  <2>5. Cardinality(B) \in 0 .. size - 1
    BY <1>1, <2>2, <2>3, <2>4
  <2> QED
    BY <2>2, <2>5 DEF B
<1>3. ASSUME NEW a \in T, NEW b \in T, a[1] < b[1]
      PROVE  Cardinality(Before(T, a)) < Cardinality(Before(T, b))
  <2> DEFINE A == Before(T, a)
             B == Before(T, b)
  <2>1. A \in SUBSET B /\ a \notin A /\ a \in B
    BY <1>3 DEF Before, IsColumn
  <2>2. IsFiniteSet(B) /\ Cardinality(A) \in 0 .. size - 1 /\ Cardinality(B) \in 0 .. size - 1
    BY <1>2
  <2> HIDE DEF A, B, size
  <2>3. Cardinality(A) <= Cardinality(B) /\ (Cardinality(B) = Cardinality(A) => B = A)
    BY <2>1, <2>2, FS_Subset
  <2>4. Cardinality(A) # Cardinality(B)
    BY <2>1, <2>3
  <2>5. Cardinality(A) < Cardinality(B)
    BY <1>1, <2>2, <2>3, <2>4
  <2> QED
    BY <2>5 DEF A, B
<1>4. ASSUME NEW a \in T, NEW b \in T, rank[a] = rank[b]
      PROVE  a = b
  <2>1. a[1] \in Int /\ b[1] \in Int /\ a = <<a[1], k>> /\ b = <<b[1], k>>
    BY DEF IsColumn
  <2>2. Cardinality(Before(T, a)) \in Int /\ Cardinality(Before(T, a)) = Cardinality(Before(T, b))
    BY <1>1, <1>2, <1>4
  <2>3. ~(a[1] < b[1]) /\ ~(b[1] < a[1])
    BY <1>3, <2>2
  <2> QED
    BY <2>1, <2>3
<1>5. rank \in Injection(T, 0 .. size - 1)
  BY <1>2, <1>4 DEF Injection, IsInjective
<1>6. IsFiniteSet(0 .. size - 1) /\ Cardinality(0 .. size - 1) = size
  BY SMTT(30), <1>1, FS_Interval
<1>7. rank \in Surjection(T, 0 .. size - 1)
  <2> HIDE DEF rank, size
  <2>1. Cardinality(T) = Cardinality(0 .. size - 1)
    BY <1>6 DEF size
  <2> QED
    BY <1>5, <1>6, <2>1, FS_Injection
<1>8. \A n \in 0 .. size - 1 : \E pair \in T : Cardinality(Before(T, pair)) = n
  BY <1>7 DEF Surjection
<1> QED
  BY <1>1, <1>2, <1>3, <1>8

-----------------------------------------------------------------------------

IsCoverage(coverage) ==
  /\ IsFiniteSet(coverage)
  /\ \A pair \in coverage :
       pair = <<pair[1], pair[2]>> /\ pair[1] \in Body /\ pair[2] \in 0 .. Cells - 1
ColumnOf(coverage, k) == {pair \in coverage : pair[2] = k}
CountsOf(coverage) == [index \in 0 .. Cells - 1 |-> Cardinality(ColumnOf(coverage, index))]
OffsetsOf(coverage) == PrefixSums(CountsOf(coverage))
PlaceOf(coverage, pair) ==
  1 + OffsetsOf(coverage)[pair[2]] + Cardinality(Before(ColumnOf(coverage, pair[2]), pair))

LEMMA ColumnsAre ==
  ASSUME NEW coverage, IsCoverage(coverage), NEW k
  PROVE  IsColumn(ColumnOf(coverage, k), k)
<1>1. ColumnOf(coverage, k) \in SUBSET coverage /\ IsFiniteSet(coverage)
  BY DEF ColumnOf, IsCoverage
<1>2. IsFiniteSet(ColumnOf(coverage, k))
  BY <1>1, FS_Subset
<1>3. ASSUME NEW pair \in ColumnOf(coverage, k)
      PROVE  pair = <<pair[1], k>> /\ pair[1] \in Int
  <2>1. pair \in coverage /\ pair[2] = k
    BY DEF ColumnOf
  <2>2. pair = <<pair[1], pair[2]>> /\ pair[1] \in Body
    BY <2>1 DEF IsCoverage
  <2> QED
    BY <2>1, <2>2, GridFacts DEF Body
<1> QED
  BY <1>2, <1>3 DEF IsColumn

LEMMA CountsAre ==
  ASSUME NEW coverage, IsCoverage(coverage)
  PROVE  /\ CountsOf(coverage) \in [0 .. Cells - 1 -> Nat]
         /\ OffsetsOf(coverage) \in [0 .. Cells -> Nat]
         /\ \A k \in 0 .. Cells - 1 :
              OffsetsOf(coverage)[k + 1] = OffsetsOf(coverage)[k] + Cardinality(ColumnOf(coverage, k))
<1>1. \A k : Cardinality(ColumnOf(coverage, k)) \in Nat
  BY ColumnsAre, RanksFill
<1>2. CountsOf(coverage) \in [0 .. Cells - 1 -> Nat]
  BY <1>1 DEF CountsOf
<1>3. /\ OffsetsOf(coverage) \in [0 .. Cells -> Nat]
      /\ \A k \in 0 .. Cells - 1 :
           OffsetsOf(coverage)[k + 1] = OffsetsOf(coverage)[k] + CountsOf(coverage)[k]
  BY <1>2, SumsAddUp DEF OffsetsOf
<1> QED
  BY <1>2, <1>3 DEF CountsOf

(* A pair's place lies among its cell's.                                   *)
LEMMA PlaceInCell ==
  ASSUME NEW coverage, IsCoverage(coverage), NEW pair \in coverage
  PROVE  /\ PlaceOf(coverage, pair) \in
              OffsetsOf(coverage)[pair[2]] + 1 .. OffsetsOf(coverage)[pair[2] + 1]
         /\ OffsetsOf(coverage)[pair[2]] \in Nat
         /\ OffsetsOf(coverage)[pair[2] + 1] \in Nat
         /\ OffsetsOf(coverage)[pair[2] + 1] <= OffsetsOf(coverage)[Cells]
         /\ OffsetsOf(coverage)[Cells] \in Nat
<1> DEFINE k == pair[2]
           start == OffsetsOf(coverage)[k]
           stop == OffsetsOf(coverage)[k + 1]
           size == Cardinality(ColumnOf(coverage, k))
           rank == Cardinality(Before(ColumnOf(coverage, k), pair))
<1>1. k \in 0 .. Cells - 1 /\ pair \in ColumnOf(coverage, k)
  BY DEF IsCoverage, ColumnOf
<1>2. Cells \in Nat \ {0}
  BY CellsAreSome
<1>3. k \in 0 .. Cells /\ k + 1 \in 0 .. Cells /\ k + 1 <= Cells /\ Cells \in 0 .. Cells
  BY <1>1, <1>2
<1>4. start \in Nat /\ stop = start + size /\ stop \in Nat /\ OffsetsOf(coverage)[Cells] \in Nat
  BY <1>1, <1>3, CountsAre
<1>5. size \in Nat /\ rank \in 0 .. size - 1
  BY <1>1, ColumnsAre, RanksFill
<1>6. stop <= OffsetsOf(coverage)[Cells]
  BY <1>3, CountsAre, SumsKeepOrder DEF OffsetsOf
<1>7. PlaceOf(coverage, pair) = (1 + start) + rank
  BY DEF PlaceOf
<1> HIDE DEF k, start, stop, size, rank
<1>8. (1 + start) + rank \in start + 1 .. stop
  BY <1>4, <1>5
<1> QED
  BY <1>4, <1>6, <1>7, <1>8 DEF k, start, stop

(* No two pairs share a place.                                             *)
LEMMA PlacesDiffer ==
  ASSUME NEW coverage, IsCoverage(coverage), NEW a \in coverage, NEW b \in coverage,
         PlaceOf(coverage, a) = PlaceOf(coverage, b)
  PROVE  a = b
<1> DEFINE place == PlaceOf(coverage, a)
           start(p) == OffsetsOf(coverage)[p[2]]
           stop(p) == OffsetsOf(coverage)[p[2] + 1]
<1>1. /\ place \in start(a) + 1 .. stop(a) /\ start(a) \in Nat /\ stop(a) \in Nat
      /\ place \in start(b) + 1 .. stop(b) /\ start(b) \in Nat /\ stop(b) \in Nat
  BY PlaceInCell
<1>2. a[2] \in 0 .. Cells - 1 /\ b[2] \in 0 .. Cells - 1 /\ Cells \in Nat \ {0}
  BY CellsAreSome DEF IsCoverage
<1>3. ASSUME NEW p \in coverage, NEW q \in coverage, p[2] < q[2]
      PROVE  stop(p) <= start(q)
  <2>1. p[2] \in 0 .. Cells - 1 /\ q[2] \in 0 .. Cells - 1
    BY DEF IsCoverage
  <2>2. p[2] + 1 \in 0 .. Cells /\ q[2] \in 0 .. Cells /\ p[2] + 1 <= q[2]
    BY <1>2, <1>3, <2>1
  <2> QED
    BY <2>2, CountsAre, SumsKeepOrder DEF OffsetsOf
<1>4. a[2] = b[2]
  <2>1. a[2] < b[2] => stop(a) <= start(b)
    BY <1>3
  <2>2. b[2] < a[2] => stop(b) <= start(a)
    BY <1>3
  <2> HIDE DEF place, start, stop
  <2> QED
    BY <1>1, <1>2, <2>1, <2>2
<1> DEFINE T == ColumnOf(coverage, a[2])
           ranka == Cardinality(Before(T, a))
           rankb == Cardinality(Before(T, b))
<1>5. a \in T /\ b \in T /\ IsColumn(T, a[2])
  BY <1>4, ColumnsAre DEF ColumnOf
<1>6. /\ Cardinality(T) \in Nat
      /\ ranka \in 0 .. Cardinality(T) - 1 /\ rankb \in 0 .. Cardinality(T) - 1
      /\ a[1] < b[1] => ranka < rankb
      /\ b[1] < a[1] => rankb < ranka
  <2> HIDE DEF T
  <2> QED
    BY <1>5, RanksFill
<1>7. (1 + start(a)) + ranka = (1 + start(a)) + rankb
  BY <1>4 DEF PlaceOf
<1>8. ranka = rankb
  <2> HIDE DEF ranka, rankb, start, stop, place, T
  <2> QED
    BY <1>1, <1>6, <1>7
<1>9. a[1] \in Int /\ b[1] \in Int /\ a = <<a[1], a[2]>> /\ b = <<b[1], a[2]>>
  BY <1>5 DEF IsColumn
<1>10. ~(a[1] < b[1]) /\ ~(b[1] < a[1])
  <2> HIDE DEF ranka, rankb, T
  <2> QED
    BY <1>6, <1>8
<1> QED
  BY <1>9, <1>10

MembersOfAll(coverage) == Scattered(OffsetsOf(coverage), coverage)

(* Every pair's body is in the pair's place.                               *)
LEMMA ScatterFills ==
  ASSUME NEW coverage, IsCoverage(coverage)
  PROVE  /\ MembersOfAll(coverage) \in [1 .. OffsetsOf(coverage)[Cells] -> Body]
         /\ \A pair \in coverage : MembersOfAll(coverage)[PlaceOf(coverage, pair)] = pair[1]
<1> DEFINE starts == OffsetsOf(coverage)
           places == {<<pair[1], PlaceOf(coverage, pair)>> : pair \in coverage}
           Taking(place) == {taken \in places : taken[2] = place}
           all == [place \in 1 .. starts[Cells] |->
                     IF Taking(place) = {} THEN 0 ELSE (CHOOSE taken \in Taking(place) : TRUE)[1]]
<1>1. MembersOfAll(coverage) = all
  <2> DEFINE Earlier(pair) == {other \in coverage : other[2] = pair[2] /\ other[1] < pair[1]}
             spots == {<<pair[1], 1 + starts[pair[2]] + Cardinality(Earlier(pair))>> : pair \in coverage}
             TakingSpot(place) == {pair \in spots : pair[2] = place}
  <2>1. MembersOfAll(coverage)
          = [place \in 1 .. starts[Cells] |->
               IF TakingSpot(place) = {} THEN 0 ELSE (CHOOSE pair \in TakingSpot(place) : TRUE)[1]]
    BY DEF MembersOfAll, Scattered
  <2>2. ASSUME NEW pair
        PROVE  Earlier(pair) = Before(ColumnOf(coverage, pair[2]), pair)
    BY DEF Before, ColumnOf
  <2>3. ASSUME NEW pair \in coverage
        PROVE  1 + starts[pair[2]] + Cardinality(Earlier(pair)) = PlaceOf(coverage, pair)
    BY <2>2 DEF PlaceOf
  <2> HIDE DEF Earlier
  <2>4. spots = places
    BY <2>3
  <2> HIDE DEF spots, places
  <2> QED
    BY <2>1, <2>4
<1>2. ASSUME NEW pair \in coverage
      PROVE  Taking(PlaceOf(coverage, pair)) = {<<pair[1], PlaceOf(coverage, pair)>>}
  <2> DEFINE place == PlaceOf(coverage, pair)
  <2>1. <<pair[1], place>> \in Taking(place)
    OBVIOUS
  <2>2. ASSUME NEW taken \in Taking(place)
        PROVE  taken = <<pair[1], place>>
    <3>1. PICK other \in coverage : taken = <<other[1], PlaceOf(coverage, other)>>
      OBVIOUS
    <3>2. PlaceOf(coverage, other) = PlaceOf(coverage, pair)
      BY <3>1
    <3>3. other = pair
      BY <3>2, PlacesDiffer
    <3> QED
      BY <3>1, <3>3
  <2> HIDE DEF Taking, place
  <2>3. Taking(place) = {<<pair[1], place>>}
    BY <2>1, <2>2
  <2> QED
    BY <2>3 DEF place
<1>3. ASSUME NEW pair \in coverage
      PROVE  all[PlaceOf(coverage, pair)] = pair[1]
  <2> DEFINE place == PlaceOf(coverage, pair)
  <2>1. place \in 1 .. starts[Cells]
    <3> DEFINE start == starts[pair[2]]
               stop == starts[pair[2] + 1]
    <3>1. /\ place \in start + 1 .. stop /\ start \in Nat /\ stop \in Nat
          /\ stop <= starts[Cells] /\ starts[Cells] \in Nat
      BY PlaceInCell
    <3> HIDE DEF place, start, stop, starts
    <3> QED
      BY <3>1
  <2>2. Taking(place) = {<<pair[1], place>>}
    BY <1>2
  <2> DEFINE chosen == CHOOSE taken \in Taking(place) : TRUE
  <2>3. chosen = <<pair[1], place>>
    <3> HIDE DEF Taking, place, starts
    <3> QED
      BY <2>2
  <2>4. all[place] = chosen[1]
    <3> HIDE DEF Taking, place, starts
    <3> QED
      BY <2>1, <2>2
  <2> HIDE DEF all, chosen, place
  <2>5. all[place] = pair[1]
    BY <2>3, <2>4
  <2> QED
    BY <2>5 DEF place
<1>4. ASSUME NEW place \in 1 .. starts[Cells]
      PROVE  all[place] \in Body
  <2>1. CASE Taking(place) = {}
    <3>1. 0 \in Body
      BY GridFacts DEF Body
    <3> QED
      BY <2>1, <3>1
  <2>2. CASE Taking(place) # {}
    <3>1. PICK taken \in places : taken = (CHOOSE t \in Taking(place) : TRUE)
      BY <2>2
    <3>2. PICK pair \in coverage : taken = <<pair[1], PlaceOf(coverage, pair)>>
      BY <3>1
    <3>3. taken[1] \in Body
      BY <3>2 DEF IsCoverage
    <3> HIDE DEF Taking, starts
    <3> QED
      BY <2>2, <3>1, <3>3
  <2> QED
    BY <2>1, <2>2
<1>5. all \in [1 .. starts[Cells] -> Body]
  <2> HIDE DEF Taking
  <2> QED
    BY <1>4
<1> QED
  BY <1>1, <1>3, <1>5

BucketOf(coverage, k) ==
  SubSeq(MembersOfAll(coverage), 1 + OffsetsOf(coverage)[k], OffsetsOf(coverage)[k + 1])

(* A cell's bucket holds the bodies of its column, in increasing order.    *)
LEMMA BucketSorts ==
  ASSUME NEW coverage, IsCoverage(coverage), NEW k \in 0 .. Cells - 1
  PROVE  LET bucket == BucketOf(coverage, k)
         IN  /\ {bucket[i] : i \in DOMAIN bucket} = {pair[1] : pair \in ColumnOf(coverage, k)}
             /\ \A i, j \in DOMAIN bucket : i < j => bucket[i] < bucket[j]
<1> DEFINE bucket == BucketOf(coverage, k)
           all == MembersOfAll(coverage)
           starts == OffsetsOf(coverage)
           start == starts[k]
           T == ColumnOf(coverage, k)
           size == Cardinality(T)
           Rank(pair) == Cardinality(Before(T, pair))
<1>1. Cells \in Nat \ {0}
  BY CellsAreSome
<1>2. /\ start \in Nat /\ starts[k + 1] = start + size /\ starts[Cells] \in Nat
      /\ start + size <= starts[Cells]
  <2>1. k \in 0 .. Cells /\ k + 1 \in 0 .. Cells /\ Cells \in 0 .. Cells /\ k + 1 <= Cells
    BY <1>1
  <2>2. starts[k + 1] <= starts[Cells]
    BY <2>1, CountsAre, SumsKeepOrder DEF OffsetsOf
  <2> QED
    BY <2>1, <2>2, CountsAre
<1>3. IsColumn(T, k)
  BY ColumnsAre
<1>4. /\ size \in Nat
      /\ \A pair \in T : Rank(pair) \in 0 .. size - 1
      /\ \A a, b \in T : a[1] < b[1] => Rank(a) < Rank(b)
      /\ \A n \in 0 .. size - 1 : \E pair \in T : Rank(pair) = n
  <2> HIDE DEF T
  <2> QED
    BY <1>3, RanksFill
<1>5. \A place \in 1 .. starts[Cells] : all[place] \in Body
  BY ScatterFills
<1>6. ASSUME NEW pair \in T
      PROVE  all[(1 + start) + Rank(pair)] = pair[1]
  <2>1. pair \in coverage /\ pair[2] = k
    BY DEF ColumnOf
  <2>2. PlaceOf(coverage, pair) = (1 + start) + Rank(pair)
    BY <2>1 DEF PlaceOf
  <2> QED
    BY <2>1, <2>2, ScatterFills
<1>7. bucket = SubSeq(all, 1 + start, start + size)
  BY <1>2 DEF BucketOf
<1>8. ASSUME NEW pair \in T
      PROVE  pair[1] \in Int /\ pair = <<pair[1], k>>
  BY <1>3 DEF IsColumn
<1> HIDE DEF bucket, all, starts, start, T, size, Rank
<1>9. /\ bucket \in Seq(Body) /\ Len(bucket) = size
      /\ \A i \in 1 .. size : bucket[i] = all[start + i]
  <2>1. \A i \in 1 + start .. start + size : all[i] \in Body
    BY <1>2, <1>4, <1>5
  <2>2. 1 + start \in Int /\ start + size \in Int
    BY <1>2, <1>4
  <2>3. /\ bucket \in Seq(Body)
        /\ Len(bucket) = IF 1 + start <= start + size THEN ((start + size) - (1 + start)) + 1 ELSE 0
        /\ \A i \in 1 .. ((start + size) - (1 + start)) + 1 : bucket[i] = all[((1 + start) + i) - 1]
    <3> DEFINE m == 1 + start
               n == start + size
    <3>1. m \in Int /\ n \in Int /\ (\A i \in m .. n : all[i] \in Body) /\ bucket = SubSeq(all, m, n)
      BY <1>7, <2>1, <2>2
    <3> HIDE DEF m, n
    <3>2. /\ SubSeq(all, m, n) \in Seq(Body)
          /\ Len(SubSeq(all, m, n)) = IF m <= n THEN (n - m) + 1 ELSE 0
          /\ \A i \in 1 .. (n - m) + 1 : SubSeq(all, m, n)[i] = all[(m + i) - 1]
      BY <3>1, SubSeqProperties
    <3> QED
      BY <3>1, <3>2 DEF m, n
  <2>4. Len(bucket) = size /\ ((start + size) - (1 + start)) + 1 = size
    BY <1>2, <1>4, <2>3
  <2>5. \A i \in 1 .. size : ((1 + start) + i) - 1 = start + i
    BY <1>2, <1>4
  <2> QED
    BY <2>3, <2>4, <2>5
<1>10. DOMAIN bucket = 1 .. size
  BY <1>9
<1>11. ASSUME NEW i \in 1 .. size
       PROVE  \E pair \in T : Rank(pair) = i - 1 /\ bucket[i] = pair[1]
  <2>1. i - 1 \in 0 .. size - 1
    BY <1>4
  <2>2. PICK pair \in T : Rank(pair) = i - 1
    BY <1>4, <2>1
  <2>3. (1 + start) + Rank(pair) = start + i
    BY <1>2, <2>1, <2>2
  <2> QED
    BY <1>6, <1>9, <2>2, <2>3
<1>12. ASSUME NEW pair \in T
       PROVE  Rank(pair) + 1 \in 1 .. size /\ bucket[Rank(pair) + 1] = pair[1]
  <2>1. Rank(pair) \in 0 .. size - 1
    BY <1>4
  <2>2. Rank(pair) + 1 \in 1 .. size /\ start + (Rank(pair) + 1) = (1 + start) + Rank(pair)
    BY <1>2, <1>4, <2>1
  <2> QED
    BY <1>6, <1>9, <2>2
<1>13. {bucket[i] : i \in DOMAIN bucket} = {pair[1] : pair \in T}
  BY <1>10, <1>11, <1>12
<1>14. ASSUME NEW i \in 1 .. size, NEW j \in 1 .. size, i < j
       PROVE  bucket[i] < bucket[j]
  <2>1. PICK a \in T : Rank(a) = i - 1 /\ bucket[i] = a[1]
    BY <1>11
  <2>2. PICK b \in T : Rank(b) = j - 1 /\ bucket[j] = b[1]
    BY <1>11
  <2>3. Rank(a) < Rank(b)
    BY <1>4, <1>14, <2>1, <2>2
  <2>4. ~(b[1] < a[1])
    <3>1. b[1] < a[1] => Rank(b) < Rank(a)
      BY <1>4
    <3> QED
      BY <1>4, <2>1, <2>2, <2>3, <3>1
  <2>5. a # b
    BY <1>4, <2>1, <2>2, <2>3
  <2>6. a[1] # b[1]
    BY <1>8, <2>5
  <2> QED
    BY <1>8, <2>1, <2>2, <2>4, <2>6
<1>15. \A i, j \in DOMAIN bucket : i < j => bucket[i] < bucket[j]
  BY <1>10, <1>14
<1> QED
  BY <1>13, <1>15 DEF bucket, T

-----------------------------------------------------------------------------

Standing(at) == \A body \in Body : Placeable(at[body])

LEMMA CoverageIs ==
  ASSUME NEW at, Standing(at)
  PROVE  /\ IsCoverage(Coverage(at))
         /\ \A body \in Body : \A k : <<body, k>> \in Coverage(at)
              <=> \E cell \in CoveredCells(at[body]) : k = CellIndex(cell)
<1> DEFINE covers == Coverage(at)
<1>1. ASSUME NEW pair \in covers
      PROVE  /\ pair = <<pair[1], pair[2]>> /\ pair[1] \in Body /\ pair[2] \in 0 .. Cells - 1
             /\ \E cell \in CoveredCells(at[pair[1]]) : pair[2] = CellIndex(cell)
  <2>0. PICK body \in Body : pair \in {<<body, CellIndex(cell)>> : cell \in CoveredCells(at[body])}
    BY DEF Coverage
  <2>1. PICK cell \in CoveredCells(at[body]) : pair = <<body, CellIndex(cell)>>
    BY <2>0
  <2>2. Placeable(at[body])
    BY DEF Standing
  <2>3. InGrid(cell) /\ IsCell(cell)
    BY <2>2, CoveredInGrid
  <2>4. CellIndex(cell) \in 0 .. Cells - 1
    BY <2>3, IndexIsOneToOne
  <2> QED
    BY <2>1, <2>4
<1>2. ASSUME NEW body \in Body, NEW cell \in CoveredCells(at[body])
      PROVE  <<body, CellIndex(cell)>> \in covers
  BY DEF Coverage
<1> HIDE DEF covers
<1>3. IsFiniteSet(covers)
  <2>1. IsFiniteSet(Body) /\ IsFiniteSet(0 .. Cells - 1)
    <3>1. 0 \in Int /\ Bodies - 1 \in Int /\ Cells - 1 \in Int
      BY GridFacts, CellsAreSome
    <3> QED
      BY <3>1, FS_Interval DEF Body
  <2>2. IsFiniteSet(Body \X (0 .. Cells - 1))
    BY <2>1, FS_Product
  <2>3. covers \in SUBSET (Body \X (0 .. Cells - 1))
    BY <1>1
  <2> QED
    BY <2>2, <2>3, FS_Subset
<1>4. IsCoverage(covers)
  BY <1>1, <1>3 DEF IsCoverage
<1>5. ASSUME NEW body \in Body, NEW k, <<body, k>> \in covers
      PROVE  \E cell \in CoveredCells(at[body]) : k = CellIndex(cell)
  BY <1>1, <1>5
<1> QED
  BY <1>2, <1>4, <1>5 DEF covers

LEMMA RebuiltIs ==
  ASSUME NEW at, NEW held
  PROVE  /\ Rebuilt(held, at).offsets = OffsetsOf(Coverage(at))
         /\ Rebuilt(held, at).members = MembersOfAll(Coverage(at))
  BY DEF Rebuilt, Counted, OffsetsOf, CountsOf, ColumnOf, MembersOfAll

(* A rebuilt cell holds the bodies whose box reaches it, in order.         *)
LEMMA CellHolds ==
  ASSUME NEW at, NEW held, Standing(at), NEW cell, IsCell(cell), InGrid(cell)
  PROVE  LET members == CellMembers(Rebuilt(held, at), cell)
         IN  /\ {members[i] : i \in DOMAIN members} = {body \in Body : cell \in CoveredCells(at[body])}
             /\ \A i, j \in DOMAIN members : i < j => members[i] < members[j]
<1> DEFINE k == CellIndex(cell)
           covers == Coverage(at)
           members == CellMembers(Rebuilt(held, at), cell)
<1>1. IsCoverage(covers) /\ k \in 0 .. Cells - 1
  BY CoverageIs, IndexIsOneToOne
<1>2. members = BucketOf(covers, k)
  BY RebuiltIs DEF CellMembers, BucketOf
<1>3. {pair[1] : pair \in ColumnOf(covers, k)} = {body \in Body : cell \in CoveredCells(at[body])}
  <2>1. ASSUME NEW pair \in ColumnOf(covers, k)
        PROVE  pair[1] \in Body /\ cell \in CoveredCells(at[pair[1]])
    <3>1. pair \in covers /\ pair[2] = k /\ pair = <<pair[1], k>> /\ pair[1] \in Body
      BY <1>1 DEF ColumnOf, IsCoverage
    <3>2. PICK other \in CoveredCells(at[pair[1]]) : k = CellIndex(other)
      BY <3>1, CoverageIs
    <3>3. Placeable(at[pair[1]])
      BY <3>1 DEF Standing
    <3>4. InGrid(other) /\ IsCell(other)
      BY <3>3, CoveredInGrid
    <3>5. other = cell
      BY <3>2, <3>4, IndexIsOneToOne
    <3> QED
      BY <3>1, <3>5
  <2>2. ASSUME NEW body \in Body, cell \in CoveredCells(at[body])
        PROVE  \E pair \in ColumnOf(covers, k) : body = pair[1]
    <3>1. <<body, k>> \in covers
      BY <2>2, CoverageIs
    <3>2. <<body, k>> \in ColumnOf(covers, k)
      BY <3>1 DEF ColumnOf
    <3> QED
      BY <3>2
  <2> HIDE DEF covers, k
  <2> QED
    BY <2>1, <2>2
<1> HIDE DEF covers, k, members
<1>4. /\ {members[i] : i \in DOMAIN members} = {pair[1] : pair \in ColumnOf(covers, k)}
      /\ \A i, j \in DOMAIN members : i < j => members[i] < members[j]
  BY <1>1, <1>2, BucketSorts
<1> QED
  BY <1>3, <1>4 DEF members

LEMMA MembersAre ==
  ASSUME NEW at, NEW held, Standing(at), NEW cell, IsCell(cell), InGrid(cell)
  PROVE  MembersOf(Rebuilt(held, at), cell) = {body \in Body : cell \in CoveredCells(at[body])}
  BY CellHolds DEF MembersOf

-----------------------------------------------------------------------------

LEMMA CountOfTwo ==
  ASSUME NEW S, NEW T, IsFiniteSet(S), IsFiniteSet(T), S \cap T = {}
  PROVE  Cardinality(S \cup T) = Cardinality(S) + Cardinality(T)
<1>1. Cardinality(S \cap T) = 0
  BY FS_EmptySet
<1>2. Cardinality(S) \in Nat /\ Cardinality(T) \in Nat
  BY FS_CardinalityType
<1>3. Cardinality(S \cup T) = Cardinality(S) + Cardinality(T) - Cardinality(S \cap T)
  BY FS_Union
<1> QED
  BY <1>1, <1>2, <1>3

(* The last prefix sum is the number of pairs.                             *)
LEMMA SumsCount ==
  ASSUME NEW coverage, IsCoverage(coverage)
  PROVE  OffsetsOf(coverage)[Cells] = Cardinality(coverage)
<1> DEFINE starts == OffsetsOf(coverage)
           Below(n) == {pair \in coverage : pair[2] < n}
           S == {n \in Nat : n <= Cells => starts[n] = Cardinality(Below(n))}
<1>1. Cells \in Nat \ {0}
  BY CellsAreSome
<1>2. ASSUME NEW n
      PROVE  IsFiniteSet(Below(n)) /\ Cardinality(Below(n)) \in Nat
  <2>1. Below(n) \in SUBSET coverage /\ IsFiniteSet(coverage)
    BY DEF IsCoverage
  <2> HIDE DEF Below
  <2>2. IsFiniteSet(Below(n))
    BY <2>1, FS_Subset
  <2> QED
    BY <2>2, FS_CardinalityType
<1>3. 0 \in S
  <2>1. Below(0) = {}
    BY DEF IsCoverage
  <2>2. Cardinality(Below(0)) = 0
    BY <2>1, FS_EmptySet
  <2>3. starts[0] = 0
    BY CountsAre, SumsAddUp DEF OffsetsOf
  <2> HIDE DEF Below, starts
  <2> QED
    BY <2>2, <2>3
<1>4. ASSUME NEW n \in Nat, n \in S
      PROVE  n + 1 \in S
  <2>1. CASE n + 1 <= Cells
    <3> DEFINE column == ColumnOf(coverage, n)
    <3>1. n \in 0 .. Cells - 1 /\ starts[n] = Cardinality(Below(n))
      BY <1>1, <1>4, <2>1
    <3>2. starts[n + 1] = starts[n] + Cardinality(column)
      BY <3>1, CountsAre
    <3>3. Below(n + 1) = Below(n) \cup column
      <4>1. \A pair \in coverage : pair[2] \in Int
        BY <1>1 DEF IsCoverage
      <4> QED
        BY <4>1 DEF ColumnOf
    <3>4. Below(n) \cap column = {}
      BY DEF ColumnOf
    <3>5. IsFiniteSet(column) /\ Cardinality(column) \in Nat
      <4>1. IsColumn(column, n)
        BY ColumnsAre
      <4> HIDE DEF column
      <4> QED
        BY <4>1, RanksFill DEF IsColumn
    <3>6. Cardinality(Below(n)) \in Nat /\ IsFiniteSet(Below(n))
      BY <1>2
    <3> HIDE DEF Below, column, starts
    <3>7. Cardinality(Below(n) \cup column) = Cardinality(Below(n)) + Cardinality(column)
      BY <3>4, <3>5, <3>6, CountOfTwo
    <3>8. starts[n + 1] = Cardinality(Below(n + 1))
      BY <3>1, <3>2, <3>3, <3>7
    <3> QED
      BY <3>8
  <2> QED
    BY <2>1
<1>5. Nat \subseteq S
  <2> HIDE DEF S
  <2> QED
    BY <1>3, <1>4, SetInduction
<1>6. Below(Cells) = coverage
  BY <1>1 DEF IsCoverage
<1>7. starts[Cells] = Cardinality(Below(Cells))
  <2> HIDE DEF Below, starts
  <2> QED
    BY <1>1, <1>5
<1> HIDE DEF Below
<1> QED
  BY <1>6, <1>7

(* A box of a cell or less reaches two cells at most along an axis.        *)
LEMMA TwoCellsAcross ==
  ASSUME NEW axis \in Axis, NEW way \in Int
  PROVE  CellOf(axis, way + Radius) <= CellOf(axis, way - Radius) + 1
<1> DEFINE low == CellOf(axis, way - Radius)
           high == CellOf(axis, way + Radius)
<1>1. Radius \in Nat /\ One \in Nat \ {0} /\ 2 * Radius <= One /\ Last(axis) \in Nat
  BY GridFacts
<1>2. /\ low \in 0 .. Last(axis) /\ high \in 0 .. Last(axis)
      /\ \A c \in 0 .. Last(axis) : c <= low <=> (c = 0 \/ c * One <= way - Radius)
      /\ \A c \in 0 .. Last(axis) : c <= high <=> (c = 0 \/ c * One <= way + Radius)
  <2>1. way - Radius \in Int /\ way + Radius \in Int
    BY <1>1
  <2> QED
    BY <2>1, CellReached
<1> HIDE DEF low, high
<1>3. SUFFICES ASSUME high # 0 PROVE high <= low + 1
  BY <1>1, <1>2 DEF low, high
<1>4. high * One <= way + Radius
  <2>1. high <= high
    BY <1>1, <1>2
  <2> QED
    BY <1>2, <1>3, <2>1
<1>5. (high - 1) * One = (high * One) - One /\ high * One \in Int
  BY <1>1, <1>2
<1>6. (high - 1) * One <= way - Radius
  BY <1>1, <1>4, <1>5
<1>7. high - 1 \in 0 .. Last(axis)
  BY <1>1, <1>2, <1>3
<1>8. high - 1 <= low
  BY <1>2, <1>6, <1>7
<1> QED
  BY <1>1, <1>2, <1>8

LEMMA EightCells ==
  ASSUME NEW at, Standing(at), NEW body \in Body
  PROVE  LET own == {pair \in Coverage(at) : pair[1] = body}
         IN  IsFiniteSet(own) /\ Cardinality(own) <= 8
<1> DEFINE p == at[body]
           Low(axis) == CellOf(axis, Way(p, axis) - Radius)
           Corner(n) == [axis \in Axis |-> Low(axis) +
                          (IF axis = "x" THEN n % 2 ELSE IF axis = "y" THEN (n \div 2) % 2 ELSE n \div 4)]
           own == {pair \in Coverage(at) : pair[1] = body}
           f == [n \in 0 .. 7 |-> <<body, CellIndex(Corner(n))>>]
           corners == {f[n] : n \in 0 .. 7}
<1>1. Placeable(p)
  BY DEF Standing
<1>2. ASSUME NEW cell \in CoveredCells(p)
      PROVE  \E n \in 0 .. 7 : cell = Corner(n)
  <2>1. ASSUME NEW axis \in Axis
        PROVE  cell[axis] \in {Low(axis), Low(axis) + 1} /\ Low(axis) \in Int
    <3> DEFINE high == CellOf(axis, Way(p, axis) + Radius)
    <3>1. Low(axis) \in Int /\ high \in Int /\ high <= Low(axis) + 1
      <4>1. Way(p, axis) \in Int /\ Radius \in Int /\ Last(axis) \in Nat
        BY <1>1, WayFacts, GridFacts
      <4>2. Low(axis) \in 0 .. Last(axis) /\ high \in 0 .. Last(axis)
        BY <4>1, CellReached
      <4> QED
        BY <4>1, <4>2, TwoCellsAcross
    <3>2. cell[axis] \in Low(axis) .. high
      BY <1>1, CoveredIsBoxed
    <3> HIDE DEF Low, high
    <3> QED
      BY <3>1, <3>2
  <2>2. IsCell(cell)
    BY <1>1, CoveredInGrid
  <2> HIDE DEF Low
  <2> DEFINE dx == cell["x"] - Low("x")
             dy == cell["y"] - Low("y")
             dz == cell["z"] - Low("z")
             n == dx + 2 * dy + 4 * dz
  <2>3. /\ dx \in {0, 1} /\ dy \in {0, 1} /\ dz \in {0, 1}
        /\ cell["x"] = Low("x") + dx /\ cell["y"] = Low("y") + dy /\ cell["z"] = Low("z") + dz
    BY <2>1 DEF Axis
  <2> HIDE DEF dx, dy, dz
  <2>4. n \in 0 .. 7 /\ n % 2 = dx /\ (n \div 2) % 2 = dy /\ n \div 4 = dz
    BY <2>3
  <2> HIDE DEF n
  <2>5. ASSUME NEW axis \in Axis
        PROVE  cell[axis] = Corner(n)[axis]
    BY <2>3, <2>4 DEF Axis
  <2>6. cell = Corner(n)
    BY <2>2, <2>5 DEF IsCell
  <2> QED
    BY <2>4, <2>6
<1>3. own \in SUBSET corners
  <2>1. ASSUME NEW pair \in own
        PROVE  pair \in corners
    <3>1. pair \in Coverage(at) /\ pair[1] = body /\ pair = <<body, pair[2]>>
      BY CoverageIs DEF IsCoverage
    <3>2. PICK cell \in CoveredCells(p) : pair[2] = CellIndex(cell)
      BY <3>1, CoverageIs
    <3>3. PICK n \in 0 .. 7 : cell = Corner(n)
      BY <1>2
    <3> HIDE DEF Corner
    <3> QED
      BY <3>1, <3>2, <3>3
  <2> QED
    BY <2>1
<1>4. f \in Surjection(0 .. 7, corners)
  <2> HIDE DEF Corner
  <2>1. f \in [0 .. 7 -> corners]
    OBVIOUS
  <2> QED
    BY <2>1 DEF Surjection
<1>5. IsFiniteSet(0 .. 7) /\ Cardinality(0 .. 7) = 8
  <2>1. ASSUME NEW count \in Nat
        PROVE  Cardinality(0 .. count - 1) = count
    BY FS_Interval
  <2>2. Cardinality(0 .. 8 - 1) = 8
    BY <2>1
  <2>3. 8 - 1 = 7
    OBVIOUS
  <2>4. IsFiniteSet(0 .. 7)
    <3>1. 0 \in Int /\ 7 \in Int
      OBVIOUS
    <3> QED
      BY <3>1, FS_Interval
  <2> QED
    BY <2>2, <2>3, <2>4
<1> HIDE DEF f, corners, own
<1>6. IsFiniteSet(corners) /\ Cardinality(corners) <= 8
  BY <1>4, <1>5, FS_Surjection
<1>7. IsFiniteSet(own) /\ Cardinality(own) <= Cardinality(corners)
  BY <1>3, <1>6, FS_Subset
<1>8. Cardinality(own) \in Nat /\ Cardinality(corners) \in Nat
  BY <1>6, <1>7, FS_CardinalityType
<1>9. IsFiniteSet(own) /\ Cardinality(own) <= 8
  BY <1>6, <1>7, <1>8
<1> QED
  BY <1>9 DEF own

LEMMA EightCellsEach ==
  ASSUME NEW at, Standing(at)
  PROVE  Cardinality(Coverage(at)) <= 8 * Bodies
<1> DEFINE covers == Coverage(at)
           Below(n) == {pair \in covers : pair[1] < n}
           Own(n) == {pair \in covers : pair[1] = n}
           S == {n \in Nat : n <= Bodies => Cardinality(Below(n)) <= 8 * n}
<1>1. Bodies \in Nat \ {0}
  BY GridFacts
<1>2. IsCoverage(covers)
  BY CoverageIs
<1> HIDE DEF covers
<1>3. \A pair \in covers : pair[1] \in 0 .. Bodies - 1
  BY <1>2 DEF IsCoverage, Body
<1>4. ASSUME NEW n
      PROVE  IsFiniteSet(Below(n)) /\ Cardinality(Below(n)) \in Nat
  <2>1. Below(n) \in SUBSET covers /\ IsFiniteSet(covers)
    BY <1>2 DEF IsCoverage
  <2> HIDE DEF Below
  <2>2. IsFiniteSet(Below(n))
    BY <2>1, FS_Subset
  <2> QED
    BY <2>2, FS_CardinalityType
<1>5. 0 \in S
  <2>1. Below(0) = {}
    BY <1>1, <1>3
  <2>2. Cardinality(Below(0)) = 0
    BY <2>1, FS_EmptySet
  <2> HIDE DEF Below
  <2> QED
    BY <2>2
<1>6. ASSUME NEW n \in Nat, n \in S
      PROVE  n + 1 \in S
  <2>1. CASE n + 1 <= Bodies
    <3>1. n \in Body /\ Cardinality(Below(n)) <= 8 * n
      BY <1>1, <1>6, <2>1 DEF Body
    <3>2. IsFiniteSet(Own(n)) /\ Cardinality(Own(n)) <= 8
      BY <3>1, EightCells DEF covers
    <3>3. Below(n + 1) = Below(n) \cup Own(n) /\ Below(n) \cap Own(n) = {}
      BY <1>1, <1>3
    <3>4. Cardinality(Below(n)) \in Nat /\ IsFiniteSet(Below(n))
      BY <1>4
    <3> HIDE DEF Below, Own
    <3>5. Cardinality(Own(n)) \in Nat
      BY <3>2, FS_CardinalityType
    <3>6. Cardinality(Below(n + 1)) = Cardinality(Below(n)) + Cardinality(Own(n))
      BY <3>2, <3>3, <3>4, CountOfTwo
    <3>7. Cardinality(Below(n + 1)) <= 8 * (n + 1)
      BY <3>1, <3>2, <3>4, <3>5, <3>6
    <3> QED
      BY <3>7
  <2> QED
    BY <2>1
<1>7. Nat \subseteq S
  <2> HIDE DEF S
  <2> QED
    BY <1>5, <1>6, SetInduction
<1>8. Below(Bodies) = covers
  BY <1>1, <1>3
<1>9. Cardinality(Below(Bodies)) <= 8 * Bodies
  <2> HIDE DEF Below
  <2> QED
    BY <1>1, <1>7
<1> HIDE DEF Below
<1> QED
  BY <1>8, <1>9 DEF covers

-----------------------------------------------------------------------------

LEMMA ScaledOrder ==
  ASSUME NEW n \in Nat \ {0}, NEW x \in Int, NEW y \in Int
  PROVE  (n * x < n * y <=> x < y) /\ (n * x <= n * y <=> x <= y)
<1>1. n * x \in Int /\ n * y \in Int
  OBVIOUS
<1>2. x < y => n * x < n * y
  <2>1. ASSUME NEW d \in Nat \ {0}
        PROVE  n * (x + d) = (n * x) + (n * d) /\ n * d \in Nat \ {0}
    OBVIOUS
  <2>2. x < y => y - x \in Nat \ {0} /\ x + (y - x) = y
    OBVIOUS
  <2> QED
    BY <1>1, <2>1, <2>2
<1>3. y < x => n * y < n * x
  <2>1. ASSUME NEW d \in Nat \ {0}
        PROVE  n * (y + d) = (n * y) + (n * d) /\ n * d \in Nat \ {0}
    OBVIOUS
  <2>2. y < x => x - y \in Nat \ {0} /\ y + (x - y) = x
    OBVIOUS
  <2> QED
    BY <1>1, <2>1, <2>2
<1> QED
  BY <1>1, <1>2, <1>3

(* What a vector deviates by from its projection on a ray, along an axis:  *)
(* as many times as much as the ray's square, to be exact.                 *)
Deviation(ray, other, axis) == (RawDot(ray, ray) * other[axis]) - (ray[axis] * RawDot(other, ray))
SquareOf(x) == x * x
DeviationSquare(ray, other) ==
  SquareOf(Deviation(ray, other, "x")) + SquareOf(Deviation(ray, other, "y"))
    + SquareOf(Deviation(ray, other, "z"))

LEMMA DeviationsSquared ==
  ASSUME NEW ray, NEW other, IsVector(ray), IsVector(other)
  PROVE  DeviationSquare(ray, other)
           = RawDot(ray, ray) * ((RawDot(other, other) * RawDot(ray, ray))
                                   - (RawDot(other, ray) * RawDot(other, ray)))
<1> DEFINE r1 == ray.x
           r2 == ray.y
           r3 == ray.z
           o1 == other.x
           o2 == other.y
           o3 == other.z
           n == RawDot(ray, ray)
           m == RawDot(other, ray)
           k == RawDot(other, other)
<1>0. /\ r1 \in Int /\ r2 \in Int /\ r3 \in Int /\ o1 \in Int /\ o2 \in Int /\ o3 \in Int
      /\ n = (r1 * r1) + (r2 * r2) + (r3 * r3)
      /\ m = (o1 * r1) + (o2 * r2) + (o3 * r3)
      /\ k = (o1 * o1) + (o2 * o2) + (o3 * o3)
      /\ r1 = ray["x"] /\ r2 = ray["y"] /\ r3 = ray["z"]
      /\ o1 = other["x"] /\ o2 = other["y"] /\ o3 = other["z"]
  BY DEF IsVector, RawDot
<1> HIDE DEF r1, r2, r3, o1, o2, o3, n, m, k
<1>1. n \in Int /\ m \in Int /\ k \in Int
  <2>1. /\ r1 * r1 \in Int /\ r2 * r2 \in Int /\ r3 * r3 \in Int
        /\ o1 * r1 \in Int /\ o2 * r2 \in Int /\ o3 * r3 \in Int
        /\ o1 * o1 \in Int /\ o2 * o2 \in Int /\ o3 * o3 \in Int
    BY <1>0
  <2> QED
    BY <1>0, <2>1
<1>2. ASSUME NEW o \in Int, NEW r \in Int
      PROVE  ((n * o) - (r * m)) * ((n * o) - (r * m))
               = ((n * n) * (o * o)) - (2 * ((n * m) * (o * r))) + ((m * m) * (r * r))
  BY <1>1
<1> DEFINE nn == n * n
           nm == n * m
           mm == m * m
<1>3. nn \in Int /\ nm \in Int /\ mm \in Int
  BY <1>1
<1> HIDE DEF nn, nm, mm
<1>4. /\ (nn * (o1 * o1)) + (nn * (o2 * o2)) + (nn * (o3 * o3)) = nn * k
      /\ (nm * (o1 * r1)) + (nm * (o2 * r2)) + (nm * (o3 * r3)) = nm * m
      /\ (mm * (r1 * r1)) + (mm * (r2 * r2)) + (mm * (r3 * r3)) = mm * n
  <2>1. ASSUME NEW a \in Int, NEW x \in Int, NEW y \in Int, NEW z \in Int
        PROVE  (a * x) + (a * y) + (a * z) = a * (x + y + z)
    OBVIOUS
  <2>2. /\ r1 * r1 \in Int /\ r2 * r2 \in Int /\ r3 * r3 \in Int
        /\ o1 * r1 \in Int /\ o2 * r2 \in Int /\ o3 * r3 \in Int
        /\ o1 * o1 \in Int /\ o2 * o2 \in Int /\ o3 * o3 \in Int
    BY <1>0
  <2>3. (nn * (o1 * o1)) + (nn * (o2 * o2)) + (nn * (o3 * o3)) = nn * k
    <3> DEFINE x == o1 * o1
               y == o2 * o2
               z == o3 * o3
    <3>1. x \in Int /\ y \in Int /\ z \in Int /\ k = x + y + z
      BY <1>0, <2>2
    <3> HIDE DEF x, y, z
    <3>2. (nn * x) + (nn * y) + (nn * z) = nn * k
      BY <1>3, <2>1, <3>1
    <3> QED
      BY <3>2 DEF x, y, z
  <2>4. (nm * (o1 * r1)) + (nm * (o2 * r2)) + (nm * (o3 * r3)) = nm * m
    <3> DEFINE x == o1 * r1
               y == o2 * r2
               z == o3 * r3
    <3>1. x \in Int /\ y \in Int /\ z \in Int /\ m = x + y + z
      BY <1>0, <2>2
    <3> HIDE DEF x, y, z
    <3>2. (nm * x) + (nm * y) + (nm * z) = nm * m
      BY <1>3, <2>1, <3>1
    <3> QED
      BY <3>2 DEF x, y, z
  <2>5. (mm * (r1 * r1)) + (mm * (r2 * r2)) + (mm * (r3 * r3)) = mm * n
    <3> DEFINE x == r1 * r1
               y == r2 * r2
               z == r3 * r3
    <3>1. x \in Int /\ y \in Int /\ z \in Int /\ n = x + y + z
      BY <1>0, <2>2
    <3> HIDE DEF x, y, z
    <3>2. (mm * x) + (mm * y) + (mm * z) = mm * n
      BY <1>3, <2>1, <3>1
    <3> QED
      BY <3>2 DEF x, y, z
  <2> QED
    BY <2>3, <2>4, <2>5
<1>5. (nn * k) - (2 * (nm * m)) + (mm * n) = n * ((k * n) - mm)
  <2>1. nn * k = n * (k * n) /\ nm * m = n * mm /\ mm * n = n * mm
    BY <1>1 DEF nn, nm, mm
  <2>2. n * ((k * n) - mm) = (n * (k * n)) - (n * mm) /\ n * (k * n) \in Int /\ n * mm \in Int
    BY <1>1, <1>3
  <2> QED
    BY <2>1, <2>2
<1> QED
  <2> DEFINE A(o, r) == nn * (o * o)
             B(o, r) == nm * (o * r)
             C(o, r) == mm * (r * r)
             D(o, r) == (n * o) - (r * m)
  <2>1. ASSUME NEW o \in Int, NEW r \in Int
        PROVE  /\ D(o, r) * D(o, r) = A(o, r) - (2 * B(o, r)) + C(o, r)
               /\ A(o, r) \in Int /\ B(o, r) \in Int /\ C(o, r) \in Int
    <3>1. D(o, r) * D(o, r) = A(o, r) - (2 * B(o, r)) + C(o, r)
      BY <1>2 DEF nn, nm, mm
    <3>2. A(o, r) \in Int /\ B(o, r) \in Int /\ C(o, r) \in Int
      BY <1>3
    <3> QED
      BY <3>1, <3>2
  <2>2. /\ A(o1, r1) + A(o2, r2) + A(o3, r3) = nn * k
        /\ B(o1, r1) + B(o2, r2) + B(o3, r3) = nm * m
        /\ C(o1, r1) + C(o2, r2) + C(o3, r3) = mm * n
    BY <1>4
  <2> HIDE DEF A, B, C
  <2> DEFINE d1 == D(o1, r1) * D(o1, r1)
             d2 == D(o2, r2) * D(o2, r2)
             d3 == D(o3, r3) * D(o3, r3)
  <2>5. /\ d1 = A(o1, r1) - (2 * B(o1, r1)) + C(o1, r1)
        /\ A(o1, r1) \in Int /\ B(o1, r1) \in Int /\ C(o1, r1) \in Int
    BY ZenonT(40), <1>0, <2>1
  <2>6. /\ d2 = A(o2, r2) - (2 * B(o2, r2)) + C(o2, r2)
        /\ A(o2, r2) \in Int /\ B(o2, r2) \in Int /\ C(o2, r2) \in Int
    BY ZenonT(40), <1>0, <2>1
  <2>7. /\ d3 = A(o3, r3) - (2 * B(o3, r3)) + C(o3, r3)
        /\ A(o3, r3) \in Int /\ B(o3, r3) \in Int /\ C(o3, r3) \in Int
    BY <1>0, <2>1
  <2> HIDE DEF d1, d2, d3, D
  <2>8. d1 + d2 + d3
          = (A(o1, r1) + A(o2, r2) + A(o3, r3)) - (2 * (B(o1, r1) + B(o2, r2) + B(o3, r3)))
              + (C(o1, r1) + C(o2, r2) + C(o3, r3))
    BY <2>5, <2>6, <2>7
  <2>3. (D(o1, r1) * D(o1, r1)) + (D(o2, r2) * D(o2, r2)) + (D(o3, r3) * D(o3, r3))
          = (nn * k) - (2 * (nm * m)) + (mm * n)
    BY <2>2, <2>8 DEF d1, d2, d3
  <2>4. (D(o1, r1) * D(o1, r1)) + (D(o2, r2) * D(o2, r2)) + (D(o3, r3) * D(o3, r3))
          = n * ((k * n) - (m * m))
    BY <2>3, <1>5 DEF mm
  <2> QED
    BY <1>0, <2>4 DEF D, DeviationSquare, Deviation, SquareOf, n, m, k

LEMMA SquaresBound ==
  ASSUME NEW x \in Int, NEW y \in Nat, x * x <= y * y
  PROVE  x <= y /\ -x <= y
<1>1. ASSUME NEW z \in Nat, z * z <= y * y
      PROVE  z <= y
  <2>1. SUFFICES ASSUME z >= y + 1 PROVE FALSE
    OBVIOUS
  <2>2. z * z >= (y + 1) * (y + 1)
    BY <2>1
  <2>3. (y + 1) * (y + 1) = (y * y) + (2 * y) + 1 /\ y * y \in Nat /\ z * z \in Nat
    OBVIOUS
  <2> QED
    BY <1>1, <2>2, <2>3
<1>2. CASE x >= 0
  BY <1>1, <1>2
<1>3. CASE x < 0
  <2>1. -x \in Nat /\ (-x) * (-x) = x * x
    BY <1>3
  <2>2. -x <= y
    BY <1>1, <2>1
  <2> QED
    BY <1>3, <2>2
<1> QED
  BY <1>2, <1>3

LEMMA WithinRadius ==
  ASSUME NEW n \in Nat \ {0}, NEW m \in Nat \ {0}, NEW k \in Nat, NEW sum \in Nat,
         sum = n * ((k * n) - (m * m)),
         k < n, (k * n) - (m * m) <= (Radius * Radius) * n
  PROVE  m < n /\ sum <= (n * Radius) * (n * Radius)
<1> DEFINE gap == (k * n) - (m * m)
           top == (Radius * Radius) * n
<1>1. gap \in Int /\ k * n \in Nat /\ m * m \in Nat /\ n * n \in Nat /\ top \in Nat
  <2>1. k * n \in Nat /\ m * m \in Nat /\ n * n \in Nat /\ Radius * Radius \in Nat
    BY GridFacts
  <2>2. (Radius * Radius) * n \in Nat
    BY <2>1
  <2> QED
    BY <2>1, <2>2
<1>2. gap = (k * n) - (m * m) /\ gap <= top /\ sum = n * gap
  OBVIOUS
<1>3. n * top = (n * Radius) * (n * Radius)
  BY GridFacts
<1> HIDE DEF gap, top
<1>4. gap >= 0
  <2>1. n * gap >= n * 0
    BY <1>2
  <2> QED
    BY <1>1, <2>1, ScaledOrder
<1>5. sum <= n * top
  BY <1>1, <1>2, ScaledOrder
<1>6. n * k < n * n /\ n * k = k * n
  BY ScaledOrder
<1>7. m * m < n * n
  BY <1>1, <1>2, <1>4, <1>6
<1>8. m < n
  <2>1. m <= n
    BY <1>7, SquaresBound
  <2> QED
    BY <1>7, <2>1
<1> QED
  BY <1>3, <1>5, <1>8

(* A body that blocks is passed on the way to the target, within a radius  *)
(* along every axis, and within it along one alone if it only grazes.      *)
LEMMA BlockersAreNear ==
  ASSUME NEW ray, NEW other, IsVector(ray), IsVector(other),
         RawDot(other, other) < RawDot(ray, ray), RawDot(other, ray) > 0,
         (RawDot(other, other) * RawDot(ray, ray)) - (RawDot(other, ray) * RawDot(other, ray))
           <= (Radius * Radius) * RawDot(ray, ray)
  PROVE  /\ RawDot(ray, ray) \in Nat \ {0} /\ RawDot(other, ray) \in Nat \ {0}
         /\ RawDot(other, ray) < RawDot(ray, ray)
         /\ DeviationSquare(ray, other) <= (RawDot(ray, ray) * Radius) * (RawDot(ray, ray) * Radius)
         /\ \A axis \in Axis : Deviation(ray, other, axis) \in Int
<1> DEFINE n == RawDot(ray, ray)
           m == RawDot(other, ray)
           k == RawDot(other, other)
           sum == DeviationSquare(ray, other)
<1>1. \A x \in Int : x * x \in Nat
  OBVIOUS
<1>2. n \in Nat \ {0} /\ k \in Nat /\ m \in Nat \ {0}
  <2>1. k \in Nat /\ n \in Nat
    BY LengthIsFloor
  <2>2. m \in Int
    <3>1. other.x * ray.x \in Int /\ other.y * ray.y \in Int /\ other.z * ray.z \in Int
      BY DEF IsVector
    <3> QED
      BY <3>1 DEF RawDot
  <2> QED
    BY <2>1, <2>2
<1>3. sum = n * ((k * n) - (m * m))
  BY DeviationsSquared
<1>4. sum \in Nat /\ \A axis \in Axis : Deviation(ray, other, axis) \in Int
  <2>1. ASSUME NEW axis \in Axis
        PROVE  Deviation(ray, other, axis) \in Int /\ SquareOf(Deviation(ray, other, axis)) \in Nat
    <3>1. other[axis] \in Int /\ ray[axis] \in Int
      BY DEF IsVector, Axis
    <3>2. n * other[axis] \in Int /\ ray[axis] * m \in Int
      <4> HIDE DEF n, m
      <4> QED
        BY <1>2, <3>1
    <3>3. Deviation(ray, other, axis) \in Int
      BY <3>2 DEF Deviation
    <3> QED
      BY <1>1, <3>3 DEF SquareOf
  <2> QED
    BY <2>1 DEF DeviationSquare, Axis
<1>5. k < n /\ (k * n) - (m * m) <= (Radius * Radius) * n
  OBVIOUS
<1> HIDE DEF sum, n, m, k
<1>6. m < n /\ sum <= (n * Radius) * (n * Radius)
  BY <1>2, <1>3, <1>4, <1>5, WithinRadius
<1> QED
  BY <1>2, <1>4, <1>6 DEF sum, n, m, k

-----------------------------------------------------------------------------

LEMMA OffsetIs ==
  ASSUME NEW at, Standing(at), NEW one \in Body, NEW other \in Body
  PROVE  /\ IsVector(Offset(at, one, other))
         /\ \A axis \in Axis :
              /\ Offset(at, one, other)[axis] = Way(at[other], axis) - Way(at[one], axis)
              /\ Way(at[other], axis) \in Int /\ Way(at[one], axis) \in Int
<1>1. Placeable(at[one]) /\ Placeable(at[other])
  BY DEF Standing
<1>2. ASSUME NEW axis \in Axis
      PROVE  /\ Wrap(at[other][axis] - at[one][axis]) = Way(at[other], axis) - Way(at[one], axis)
             /\ Way(at[other], axis) \in Int /\ Way(at[one], axis) \in Int
  <2> DEFINE v == at[other][axis]
             w == at[one][axis]
             u == Origin[axis]
  <2>1. /\ v \in Int /\ w \in Int /\ u \in Int
        /\ 4 * AbsOf(v) < WordLimit /\ 4 * AbsOf(w) < WordLimit
        /\ Way(at[other], axis) \in Int /\ Way(at[one], axis) \in Int
    BY <1>1, WayFacts
  <2>2. Way(at[other], axis) = v - u /\ Way(at[one], axis) = w - u
    BY DEF Way
  <2> HIDE DEF v, w, u
  <2>3. Wrap(v - w) = v - w
    BY <2>1, NothingWraps
  <2>4. Wrap(v - w) = Way(at[other], axis) - Way(at[one], axis)
    BY <2>1, <2>2, <2>3
  <2> QED
    BY <2>1, <2>4 DEF v, w
<1>3. ASSUME NEW axis \in Axis
      PROVE  Offset(at, one, other)[axis] = Wrap(at[other][axis] - at[one][axis])
  BY DEF Offset, Minus, Vec, Axis
<1>4. \A axis \in Axis : Offset(at, one, other)[axis] = Way(at[other], axis) - Way(at[one], axis)
  BY <1>2, <1>3
<1>5. \A axis \in Axis : Offset(at, one, other)[axis] \in Int
  BY <1>2, <1>4
<1>6. IsVector(Offset(at, one, other))
  BY <1>5 DEF IsVector, Offset, Minus, Vec, Axis
<1> QED
  BY <1>2, <1>4, <1>6

(* What a blocker is to a walk: how far along the ray, and how far from it *)
(* along each axis, in multiples of the ray's square.                      *)
Span(at, one, other) == RawDot(Offset(at, one, other), Offset(at, one, other))
Along(at, one, other, body) == RawDot(Offset(at, one, body), Offset(at, one, other))

(* The way along an axis where the ray passes the blocker.                 *)
Passing(n, m, from, to) == (n * from) + ((to - from) * m)
PassedAt(at, one, other, body, axis) ==
  Passing(Span(at, one, other), Along(at, one, other, body), Way(at[one], axis), Way(at[other], axis))

LEMMA PassedWithinRadius ==
  ASSUME NEW at, Standing(at), NEW one \in Body, NEW other \in Body, NEW body \in Body,
         BlocksRay(at, one, other, body)
  PROVE  LET n == Span(at, one, other)
             m == Along(at, one, other, body)
             Gap(axis) == (n * Way(at[body], axis)) - PassedAt(at, one, other, body, axis)
         IN  /\ n \in Nat \ {0} /\ m \in Nat \ {0} /\ m < n
             /\ \A axis \in Axis :
                  /\ PassedAt(at, one, other, body, axis) \in Int
                  /\ Gap(axis) \in Int /\ Gap(axis) <= n * Radius /\ -Gap(axis) <= n * Radius
                  /\ Gap(axis) = n * Radius => \A a \in Axis : a # axis => Gap(a) = 0
<1> DEFINE ray == Offset(at, one, other)
           rest == Offset(at, one, body)
           n == Span(at, one, other)
           m == Along(at, one, other, body)
           Gap(axis) == (n * Way(at[body], axis)) - PassedAt(at, one, other, body, axis)
           top == n * Radius
<1>1. /\ IsVector(ray) /\ IsVector(rest)
      /\ n = RawDot(ray, ray) /\ m = RawDot(rest, ray)
  BY OffsetIs DEF Span, Along
<1>2. /\ RawDot(rest, rest) < RawDot(ray, ray) /\ RawDot(rest, ray) > 0
      /\ (RawDot(rest, rest) * RawDot(ray, ray)) - (RawDot(rest, ray) * RawDot(rest, ray))
           <= (Radius * Radius) * RawDot(ray, ray)
  BY DEF BlocksRay
<1> HIDE DEF ray, rest, n, m
<1>3. /\ n \in Nat \ {0} /\ m \in Nat \ {0} /\ m < n
      /\ DeviationSquare(ray, rest) <= top * top
      /\ \A axis \in Axis : Deviation(ray, rest, axis) \in Int
  BY <1>1, <1>2, BlockersAreNear
<1>4. ASSUME NEW axis \in Axis
      PROVE  /\ PassedAt(at, one, other, body, axis) \in Int
             /\ Gap(axis) = Deviation(ray, rest, axis)
  <2> DEFINE from == Way(at[one], axis)
             to == Way(at[other], axis)
             way == Way(at[body], axis)
  <2>1. /\ from \in Int /\ to \in Int /\ way \in Int
        /\ ray[axis] = to - from /\ rest[axis] = way - from
    BY OffsetIs DEF ray, rest
  <2>2. PassedAt(at, one, other, body, axis) = (n * from) + ((to - from) * m)
    BY DEF PassedAt, Passing, n, m
  <2>3. Deviation(ray, rest, axis) = (n * (way - from)) - ((to - from) * m)
    BY <1>1, <2>1 DEF Deviation
  <2>4. Gap(axis) = (n * way) - PassedAt(at, one, other, body, axis)
    OBVIOUS
  <2> HIDE DEF from, to, way, Gap
  <2>5. /\ n * from \in Int /\ n * way \in Int /\ (to - from) * m \in Int
        /\ n * (way - from) = (n * way) - (n * from)
    BY <1>3, <2>1
  <2> QED
    BY <2>2, <2>3, <2>4, <2>5
<1> HIDE DEF Gap
<1>5. top \in Nat
  BY <1>3, GridFacts
<1> HIDE DEF top
<1>6. \A axis \in Axis : Gap(axis) \in Int
  BY <1>3, <1>4
<1>7. SquareOf(Gap("x")) + SquareOf(Gap("y")) + SquareOf(Gap("z")) <= SquareOf(top)
  BY <1>3, <1>4 DEF DeviationSquare, SquareOf, Axis
<1>8. \A x \in Int : SquareOf(x) \in Nat /\ (SquareOf(x) = 0 => x = 0)
  BY DEF SquareOf
<1>9. ASSUME NEW axis \in Axis
      PROVE  SquareOf(Gap(axis)) <= SquareOf(top)
  <2>1. /\ SquareOf(Gap("x")) \in Nat /\ SquareOf(Gap("y")) \in Nat /\ SquareOf(Gap("z")) \in Nat
        /\ SquareOf(top) \in Nat
    BY <1>5, <1>6, <1>8 DEF Axis
  <2> QED
    BY <1>7, <2>1 DEF Axis
<1>10. ASSUME NEW axis \in Axis
       PROVE  Gap(axis) <= top /\ -Gap(axis) <= top
  BY <1>5, <1>6, <1>9, SquaresBound DEF SquareOf
<1>11. ASSUME NEW axis \in Axis, Gap(axis) = top, NEW a \in Axis, a # axis
       PROVE  Gap(a) = 0
  <2>1. /\ SquareOf(Gap("x")) \in Nat /\ SquareOf(Gap("y")) \in Nat /\ SquareOf(Gap("z")) \in Nat
        /\ SquareOf(Gap(axis)) = SquareOf(top)
    BY <1>6, <1>8, <1>11 DEF Axis
  <2>2. SquareOf(Gap(a)) = 0
    BY <1>7, <1>11, <2>1 DEF Axis
  <2> QED
    BY <1>6, <1>8, <2>2
<1> QED
  BY <1>3, <1>4, <1>6, <1>10, <1>11 DEF Gap, top, n, m

-----------------------------------------------------------------------------

(* Along one axis, for a walk by r from cell s to cell e that is in cell c: *)
(* it is on its way, it has not passed the blocker, and the next boundary   *)
(* comes no earlier than the blocker.                                       *)
Between(r, c, s, e) ==
  /\ r > 0 => s <= c /\ c <= e
  /\ r < 0 => e <= c /\ c <= s
  /\ r = 0 => c = s /\ c = e
NotPassed(r, c, s, n, passed, way) ==
  c # s => /\ r > 0 => n * (c * One) <= passed
           /\ r < 0 => passed <= n * ((c + 1) * One) /\ way - Radius < (c + 1) * One
NotBefore(r, c, e, n, passed) ==
  c # e => /\ r > 0 => passed <= n * ((c + 1) * One)
           /\ r < 0 => n * (c * One) <= passed

LEMMA NextInRange ==
  ASSUME NEW last \in Nat, NEW c \in 0 .. last
  PROVE  c + 1 \in 0 .. last \/ c = last
  OBVIOUS

LEMMA CoveredAlong ==
  ASSUME NEW axis \in Axis, NEW n \in Nat \ {0}, NEW m \in Nat \ {0}, m < n,
         NEW from \in Int, NEW to \in Int, NEW way \in Int,
         NEW passed \in Int, passed = Passing(n, m, from, to),
         (n * way) - passed <= n * Radius, passed - (n * way) <= n * Radius,
         NEW c \in Int,
         Between(to - from, c, CellOf(axis, from), CellOf(axis, to)),
         NotPassed(to - from, c, CellOf(axis, from), n, passed, way),
         NotBefore(to - from, c, CellOf(axis, to), n, passed),
         \/ to - from <= 0 \/ c = CellOf(axis, to)
         \/ passed < n * ((c + 1) * One) \/ (n * way) - passed < n * Radius
  PROVE  c \in CellOf(axis, way - Radius) .. CellOf(axis, way + Radius)
<1> DEFINE s == CellOf(axis, from)
           e == CellOf(axis, to)
           low == c * One
           high == (c + 1) * One
           r == to - from
<1>1. /\ Radius \in Nat \ {0} /\ One \in Nat \ {0} /\ Last(axis) \in Nat
  BY GridFacts
<1>2. /\ s \in 0 .. Last(axis) /\ e \in 0 .. Last(axis)
      /\ \A d \in 0 .. Last(axis) : d <= s <=> (d = 0 \/ d * One <= from)
      /\ \A d \in 0 .. Last(axis) : d <= e <=> (d = 0 \/ d * One <= to)
  BY CellReached
<1>3. r \in Int /\ low \in Int /\ high \in Int /\ high = low + One
  BY <1>1
<1>4. /\ Between(r, c, s, e) /\ NotPassed(r, c, s, n, passed, way) /\ NotBefore(r, c, e, n, passed)
      /\ r <= 0 \/ c = e \/ passed < n * high \/ (n * way) - passed < n * Radius
  OBVIOUS
<1>5. c \in 0 .. Last(axis)
  <2> HIDE DEF s, e, r
  <2> QED
    BY <1>1, <1>2, <1>3, <1>4 DEF Between
<1>6. /\ c = s => (c = 0 \/ low <= from) /\ (c = Last(axis) \/ from < high)
      /\ c = e => (c = 0 \/ low <= to) /\ (c = Last(axis) \/ to < high)
  <2>1. c + 1 \in 0 .. Last(axis) \/ c = Last(axis)
    BY <1>1, <1>5, NextInRange
  <2> HIDE DEF s, e
  <2>2. /\ c = s => (c = 0 \/ c * One <= from)
        /\ c = s => (c = Last(axis) \/ ~((c + 1) * One <= from))
        /\ c = e => (c = 0 \/ c * One <= to)
        /\ c = e => (c = Last(axis) \/ ~((c + 1) * One <= to))
    BY <1>1, <1>2, <1>5, <2>1
  <2> QED
    BY <1>1, <1>3, <2>2
<1>7. /\ r > 0 => n * from < passed /\ passed < n * to
      /\ r < 0 => n * to < passed /\ passed < n * from
      /\ r = 0 => passed = n * from
  <2>1. /\ n * from \in Int /\ r * m \in Int /\ r * n \in Int /\ passed = (n * from) + (r * m)
        /\ n * to = (n * from) + (r * n)
    BY DEF Passing
  <2> HIDE DEF r
  <2>2. r > 0 => r * m > 0 /\ r * m < r * n
    <3>1. r > 0 => r * m > r * 0 /\ r * m < r * n
      BY <1>3, ScaledOrder
    <3> QED
      BY <1>3, <3>1
  <2>3. r < 0 => r * m < 0 /\ r * n < r * m
    <3>1. r < 0 => (-r) * m > (-r) * 0 /\ (-r) * m < (-r) * n
      <4>1. r < 0 => -r \in Nat \ {0}
        BY <1>3
      <4> QED
        BY <4>1, ScaledOrder
    <3>2. (-r) * m = -(r * m) /\ (-r) * n = -(r * n)
      BY <1>3
    <3> QED
      BY <1>3, <2>1, <3>1, <3>2
  <2> QED
    BY <1>3, <2>1, <2>2, <2>3
<1>8. /\ n * (way - Radius) = (n * way) - (n * Radius)
      /\ n * (way + Radius) = (n * way) + (n * Radius)
      /\ n * way \in Int /\ n * Radius \in Nat \ {0} /\ n * low \in Int /\ n * high \in Int
      /\ n * from \in Int /\ n * to \in Int
  BY <1>1, <1>3
<1>9. /\ n * (way - Radius) <= passed /\ passed <= n * (way + Radius)
      /\ r <= 0 \/ c = e \/ passed < n * high \/ n * (way - Radius) < passed
  BY <1>4, <1>8
<1>10. /\ low <= from => n * low <= n * from
       /\ from < high => n * from < n * high
       /\ low <= to => n * low <= n * to
       /\ to < high => n * to < n * high
  BY <1>3, ScaledOrder
<1>11. /\ n * low <= n * (way + Radius) <=> low <= way + Radius
       /\ n * (way - Radius) < n * high <=> way - Radius < high
  <2>1. way + Radius \in Int /\ way - Radius \in Int
    BY <1>1
  <2> QED
    BY <1>3, <2>1, ScaledOrder
<1>12. /\ r > 0 => (c = s \/ n * low <= passed) /\ (c = e \/ passed <= n * high)
       /\ r < 0 => (c = s \/ way - Radius < high) /\ (c = e \/ n * low <= passed)
       /\ r = 0 => c = s /\ c = e
  BY <1>4 DEF Between, NotPassed, NotBefore
<1>20. n * (way - Radius) \in Int /\ n * (way + Radius) \in Int
  BY <1>8
<1> DEFINE nl == n * low
           nh == n * high
           nb == n * (way - Radius)
           na == n * (way + Radius)
           nf == n * from
           nt == n * to
<1>21. /\ nl \in Int /\ nh \in Int /\ nb \in Int /\ na \in Int /\ nf \in Int /\ nt \in Int
       /\ nb <= passed /\ passed <= na
       /\ r <= 0 \/ c = e \/ passed < nh \/ nb < passed
       /\ r > 0 => nf < passed /\ passed < nt
       /\ r < 0 => nt < passed /\ passed < nf
       /\ r = 0 => passed = nf
       /\ low <= from => nl <= nf
       /\ from < high => nf < nh
       /\ low <= to => nl <= nt
       /\ to < high => nt < nh
       /\ nl <= na <=> low <= way + Radius
       /\ nb < nh <=> way - Radius < high
       /\ r > 0 => (c = s \/ nl <= passed) /\ (c = e \/ passed <= nh)
       /\ r < 0 => (c = s \/ way - Radius < high) /\ (c = e \/ nl <= passed)
       /\ r = 0 => c = s /\ c = e
  BY <1>7, <1>8, <1>9, <1>10, <1>11, <1>12, <1>20
<1> HIDE DEF s, e, low, high, r, nl, nh, nb, na, nf, nt
<1>13. c = 0 \/ nl <= na
  <2>1. CASE r > 0
    BY <1>6, <1>21, <2>1
  <2>2. CASE r < 0
    BY <1>6, <1>21, <2>2
  <2>3. CASE r = 0
    BY <1>6, <1>21, <2>3
  <2> QED
    BY <1>3, <2>1, <2>2, <2>3
<1>14. c = Last(axis) \/ nb < nh \/ way - Radius < high
  <2>1. CASE r > 0
    BY <1>3, <1>6, <1>21, <2>1
  <2>2. CASE r < 0
    BY <1>6, <1>21, <2>2
  <2>3. CASE r = 0
    BY <1>6, <1>21, <2>3
  <2> QED
    BY <1>3, <2>1, <2>2, <2>3
<1>15. c <= CellOf(axis, way + Radius)
  <2>1. way + Radius \in Int
    BY <1>1
  <2> QED
    BY <1>5, <1>21, <1>13, <2>1, CellReached DEF low
<1>16. CellOf(axis, way - Radius) <= c
  <2>1. way - Radius \in Int
    BY <1>1
  <2>2. CellOf(axis, way - Radius) \in 0 .. Last(axis)
    BY <2>1, CellReached
  <2>3. CASE c = Last(axis)
    BY <1>1, <2>2, <2>3
  <2>4. CASE c # Last(axis)
    <3>1. c + 1 \in 0 .. Last(axis) /\ c + 1 # 0
      <4>1. c + 1 \in 0 .. Last(axis)
        BY <1>1, <1>5, <2>4, NextInRange
      <4> QED
        BY <1>5, <4>1
    <3>2. ~(high <= way - Radius)
      BY <1>3, <1>14, <1>21, <2>1, <2>4
    <3>3. ~(c + 1 <= CellOf(axis, way - Radius))
      BY <2>1, <3>1, <3>2, CellReached DEF high
    <3> QED
      BY <1>1, <1>5, <2>2, <3>3
  <2> QED
    BY <2>3, <2>4
<1>17. CellOf(axis, way + Radius) \in Int /\ CellOf(axis, way - Radius) \in Int
  BY <1>1, CellReached
<1> QED
  BY <1>5, <1>15, <1>16, <1>17

-----------------------------------------------------------------------------

(* A walk from one body to another: along each axis it is in a cell on the *)
(* way, and its next boundary is that cell's.                              *)
From(at, one, axis) == CellOf(axis, Way(at[one], axis))
OnAxis(at, one, other, w, axis) ==
  LET r == Way(at[other], axis) - Way(at[one], axis)
  IN  /\ w.ray[axis] = r /\ w.end[axis] = From(at, other, axis)
      /\ w.cell[axis] \in Int
      /\ w.boundary[axis] \in Int
      /\ Between(r, w.cell[axis], From(at, one, axis), From(at, other, axis))
      /\ r > 0 => w.boundary[axis] = ((w.cell[axis] + 1) * One) - Way(at[one], axis)
      /\ r < 0 => w.boundary[axis] = Way(at[one], axis) - (w.cell[axis] * One)
IsWalk(w) ==
  /\ w = [cell |-> w.cell, end |-> w.end, ray |-> w.ray, boundary |-> w.boundary]
  /\ IsCell(w.cell) /\ IsCell(w.end)
OnWay(at, one, other, w) ==
  IsWalk(w) /\ \A axis \in Axis : OnAxis(at, one, other, w, axis)

LEMMA WalkStarts ==
  ASSUME NEW at, Standing(at), NEW one \in Body, NEW other \in Body
  PROVE  /\ OnWay(at, one, other, WalkFrom(at, one, other))
         /\ \A axis \in Axis : WalkFrom(at, one, other).cell[axis] = From(at, one, axis)
<1> DEFINE w == WalkFrom(at, one, other)
           cell == CellCoordinates(at[one])
<1>1. /\ w.cell = cell /\ w.end = CellCoordinates(at[other])
      /\ w.ray = Offset(at, one, other)
      /\ w.boundary = [axis \in Axis |->
           IF w.ray[axis] > 0 THEN Origin[axis] + cell[axis] * One + One - at[one][axis]
           ELSE IF w.ray[axis] < 0 THEN at[one][axis] - (Origin[axis] + cell[axis] * One) ELSE 0]
      /\ w = [cell |-> w.cell, end |-> w.end, ray |-> w.ray, boundary |-> w.boundary]
  BY DEF WalkFrom
<1>2. Placeable(at[one]) /\ Placeable(at[other])
  BY DEF Standing
<1>3. /\ cell = [axis \in Axis |-> From(at, one, axis)]
      /\ CellCoordinates(at[other]) = [axis \in Axis |-> From(at, other, axis)]
  BY <1>2, CellOfPlace DEF From
<1> HIDE DEF w, cell
<1>4. IsWalk(w)
  BY <1>1, <1>3 DEF IsWalk, IsCell
<1>5. ASSUME NEW axis \in Axis
      PROVE  OnAxis(at, one, other, w, axis)
  <2> DEFINE from == Way(at[one], axis)
             to == Way(at[other], axis)
             s == From(at, one, axis)
             e == From(at, other, axis)
             place == at[one][axis]
             corner == Origin[axis]
  <2>1. /\ from \in Int /\ to \in Int /\ place \in Int /\ corner \in Int /\ from = place - corner
        /\ w.ray[axis] = to - from
    BY <1>1, <1>2, OffsetIs, WayFacts DEF Way
  <2>2. /\ s \in 0 .. Last(axis) /\ e \in 0 .. Last(axis) /\ Last(axis) \in Nat /\ One \in Nat \ {0}
    BY <2>1, CellReached, GridFacts DEF From
  <2>3. from <= to => s <= e
    BY <2>1, CellsKeepOrder DEF From
  <2>4. to <= from => e <= s
    BY <2>1, CellsKeepOrder DEF From
  <2>5. w.cell[axis] = s /\ w.end[axis] = e
    BY <1>1, <1>3
  <2>6. w.boundary[axis] =
          IF w.ray[axis] > 0 THEN corner + s * One + One - place
          ELSE IF w.ray[axis] < 0 THEN place - (corner + s * One) ELSE 0
    BY <1>1, <1>3
  <2> HIDE DEF from, to, s, e, place, corner
  <2>7. s * One \in Int /\ (s + 1) * One = (s * One) + One
    BY <2>2
  <2>8. /\ w.boundary[axis] \in Int
        /\ to - from > 0 => w.boundary[axis] = ((s + 1) * One) - from
        /\ to - from < 0 => w.boundary[axis] = from - (s * One)
    <3> DEFINE so == s * One
               b == w.boundary[axis]
               r == w.ray[axis]
    <3>1. /\ so \in Int /\ (s + 1) * One = so + One
          /\ b = IF r > 0 THEN corner + so + One - place ELSE IF r < 0 THEN place - (corner + so) ELSE 0
          /\ r = to - from
      BY <2>1, <2>6, <2>7
    <3> HIDE DEF so, b, r
    <3>2. /\ b \in Int
          /\ r > 0 => b = (so + One) - from
          /\ r < 0 => b = from - so
      BY <2>1, <2>2, <3>1
    <3>3. /\ b \in Int
          /\ to - from > 0 => b = ((s + 1) * One) - from
          /\ to - from < 0 => b = from - so
      BY <3>1, <3>2
    <3> QED
      BY <3>3 DEF b, so
  <2>9. Between(to - from, s, s, e)
    BY <2>1, <2>2, <2>3, <2>4 DEF Between
  <2>10. s \in Int
    BY <2>2
  <2> QED
    BY <2>1, <2>5, <2>8, <2>9, <2>10 DEF OnAxis, from, to, s, e
<1> QED
  BY <1>1, <1>3, <1>4, <1>5 DEF OnWay, w

LEMMA StepIs ==
  ASSUME NEW w, IsWalk(w)
  PROVE  /\ IsWalk(WalkStep(w))
         /\ WalkStep(w).ray = w.ray /\ WalkStep(w).end = w.end
         /\ \A axis \in Axis :
              /\ WalkStep(w).cell[axis] =
                   w.cell[axis] + (IF Crossed(w, axis) THEN SignOf(w.ray[axis]) ELSE 0)
              /\ WalkStep(w).boundary[axis] =
                   w.boundary[axis] + (IF Crossed(w, axis) THEN One ELSE 0)
<1> DEFINE cell == [axis \in Axis |-> w.cell[axis] + (IF Crossed(w, axis) THEN SignOf(w.ray[axis]) ELSE 0)]
           boundary == [axis \in Axis |-> w.boundary[axis] + (IF Crossed(w, axis) THEN One ELSE 0)]
<1>1. WalkStep(w) = [w EXCEPT !.cell = cell, !.boundary = boundary]
  BY DEF WalkStep, IsWalk
<1>2. /\ IsCell(cell)
      /\ \A axis \in Axis :
           /\ cell[axis] = w.cell[axis] + (IF Crossed(w, axis) THEN SignOf(w.ray[axis]) ELSE 0)
           /\ boundary[axis] = w.boundary[axis] + (IF Crossed(w, axis) THEN One ELSE 0)
  BY DEF IsCell
<1> HIDE DEF cell, boundary
<1>3. WalkStep(w) = [cell |-> cell, end |-> w.end, ray |-> w.ray, boundary |-> boundary]
  BY <1>1 DEF IsWalk
<1>4. IsWalk(WalkStep(w))
  BY <1>2, <1>3 DEF IsWalk
<1> QED
  BY <1>2, <1>3, <1>4

LEMMA StepStaysOnWay ==
  ASSUME NEW at, Standing(at), NEW one \in Body, NEW other \in Body, NEW w, OnWay(at, one, other, w)
  PROVE  OnWay(at, one, other, WalkStep(w))
<1>1. IsWalk(w)
  BY DEF OnWay
<1>2. ASSUME NEW axis \in Axis
      PROVE  OnAxis(at, one, other, WalkStep(w), axis)
  <2> DEFINE from == Way(at[one], axis)
             to == Way(at[other], axis)
             s == From(at, one, axis)
             e == From(at, other, axis)
             r == to - from
             c == w.cell[axis]
             b == w.boundary[axis]
             next == WalkStep(w).cell[axis]
             far == WalkStep(w).boundary[axis]
             over == Crossed(w, axis)
  <2>1. /\ from \in Int /\ to \in Int /\ s \in Int /\ e \in Int /\ One \in Nat \ {0}
    <3>1. from \in Int /\ to \in Int
      BY OffsetIs
    <3>2. s \in 0 .. Last(axis) /\ e \in 0 .. Last(axis)
      BY <3>1, CellReached DEF From
    <3> QED
      BY <3>1, <3>2, GridFacts
  <2>2. /\ w.ray[axis] = r /\ w.end[axis] = e /\ c \in Int /\ b \in Int
        /\ Between(r, c, s, e)
        /\ r > 0 => b = ((c + 1) * One) - from
        /\ r < 0 => b = from - (c * One)
    BY DEF OnWay, OnAxis
  <2>3. over => r # 0 /\ c # e
    BY <2>2 DEF Crossed, Open
  <2>4. next = c + (IF over THEN SignOf(r) ELSE 0) /\ far = b + (IF over THEN One ELSE 0)
    BY <1>1, <2>2, StepIs
  <2>5. WalkStep(w).ray[axis] = r /\ WalkStep(w).end[axis] = e
    BY <1>1, <2>2, StepIs
  <2>6. r \in Int
    BY <2>1
  <2> HIDE DEF from, to, s, e, r, c, b, next, far, over
  <2>7. CASE ~over
    <3>1. next = c /\ far = b
      BY <2>2, <2>4, <2>7
    <3> QED
      BY <2>2, <2>5, <3>1 DEF OnAxis, from, to, s, e, r, next, far
  <2>8. CASE over /\ r > 0
    <3>1. next = c + 1 /\ far = b + One
      BY <2>4, <2>8, <2>6 DEF SignOf
    <3>2. ((c + 1) + 1) * One = ((c + 1) * One) + One /\ (c + 1) * One \in Int
      BY <2>1, <2>2
    <3>3. next \in Int /\ far \in Int /\ far = ((next + 1) * One) - from
      BY <2>1, <2>2, <2>8, <3>1, <3>2
    <3>4. Between(r, next, s, e)
      BY <2>1, <2>2, <2>3, <2>6, <2>8, <3>1 DEF Between
    <3>5. ~(r < 0)
      BY <2>6, <2>8
    <3> QED
      BY <2>5, <3>3, <3>4, <3>5 DEF OnAxis, from, to, s, e, r, next, far
  <2>9. CASE over /\ r < 0
    <3>1. next = c - 1 /\ far = b + One
      BY <2>2, <2>4, <2>9, <2>6 DEF SignOf
    <3>2. (c - 1) * One = (c * One) - One /\ c * One \in Int
      BY <2>1, <2>2
    <3>3. next \in Int /\ far \in Int /\ far = from - (next * One)
      BY <2>1, <2>2, <2>9, <3>1, <3>2
    <3>4. Between(r, next, s, e)
      BY <2>1, <2>2, <2>3, <2>6, <2>9, <3>1 DEF Between
    <3>5. ~(r > 0)
      BY <2>6, <2>9
    <3> QED
      BY <2>5, <3>3, <3>4, <3>5 DEF OnAxis, from, to, s, e, r, next, far
  <2> QED
    BY <2>3, <2>6, <2>7, <2>8, <2>9
<1> QED
  BY <1>1, <1>2, StepIs DEF OnWay

(* How much later than the blocker the next boundary along an axis comes.  *)
Lead(at, one, other, body, w, axis) ==
  (w.boundary[axis] * Span(at, one, other)) - (AbsOf(w.ray[axis]) * Along(at, one, other, body))

LEMMA LeadIs ==
  ASSUME NEW at, Standing(at), NEW one \in Body, NEW other \in Body, NEW body \in Body,
         BlocksRay(at, one, other, body),
         NEW w, OnWay(at, one, other, w), NEW axis \in Axis
  PROVE  LET n == Span(at, one, other)
             lead == Lead(at, one, other, body, w, axis)
             passed == PassedAt(at, one, other, body, axis)
             c == w.cell[axis]
         IN  /\ lead \in Int
             /\ w.ray[axis] > 0 => lead = (n * ((c + 1) * One)) - passed
             /\ w.ray[axis] < 0 => lead = passed - (n * (c * One))
<1> DEFINE n == Span(at, one, other)
           m == Along(at, one, other, body)
           lead == Lead(at, one, other, body, w, axis)
           passed == PassedAt(at, one, other, body, axis)
           from == Way(at[one], axis)
           to == Way(at[other], axis)
           r == w.ray[axis]
           b == w.boundary[axis]
           low == w.cell[axis] * One
           high == (w.cell[axis] + 1) * One
<1>1. /\ from \in Int /\ to \in Int /\ r = to - from
      /\ b \in Int /\ w.cell[axis] \in Int
      /\ r > 0 => b = high - from
      /\ r < 0 => b = from - low
  BY OffsetIs DEF OnWay, OnAxis
<1>2. n \in Nat \ {0} /\ m \in Nat \ {0} /\ passed \in Int
  BY PassedWithinRadius
<1>3. lead = (b * n) - (AbsOf(r) * m) /\ passed = (n * from) + ((to - from) * m)
  BY DEF Lead, PassedAt, Passing
<1>4. low \in Int /\ high \in Int
  BY <1>1, GridFacts
<1> HIDE DEF n, m, lead, passed, from, to, r, b, low, high
<1>5. passed = (n * from) + (r * m) /\ r \in Int /\ r * m \in Int /\ n * from \in Int
      /\ n * low \in Int /\ n * high \in Int
  BY <1>1, <1>2, <1>3, <1>4
<1>6. AbsOf(r) \in Int /\ (r > 0 => AbsOf(r) = r) /\ (r < 0 => AbsOf(r) = -r)
  BY <1>5 DEF AbsOf
<1>7. lead \in Int
  BY <1>1, <1>2, <1>3, <1>6
<1>8. r > 0 => lead = (n * high) - passed
  <2>1. (high - from) * n = (n * high) - (n * from)
    BY <1>1, <1>2, <1>4
  <2> QED
    BY <1>1, <1>3, <1>5, <1>6, <2>1
<1>9. r < 0 => lead = passed - (n * low)
  <2>1. (from - low) * n = (n * from) - (n * low) /\ (-r) * m = -(r * m)
    BY <1>1, <1>2, <1>4, <1>5
  <2> QED
    BY <1>1, <1>3, <1>5, <1>6, <2>1
<1> QED
  BY <1>7, <1>8, <1>9 DEF n, lead, passed, r, low, high

(* Whatever comes before the next boundary comes before the others.        *)
LEMMA RatioOrder ==
  ASSUME NEW n \in Nat \ {0}, NEW m \in Nat \ {0}, NEW ra \in Nat \ {0}, NEW rb \in Nat \ {0},
         NEW ba \in Int, NEW bb \in Int, ba * rb <= bb * ra
  PROVE  /\ (ba * n) - (ra * m) >= 0 => (bb * n) - (rb * m) >= 0
         /\ (ba * n) - (ra * m) > 0 => (bb * n) - (rb * m) > 0
<1> DEFINE la == (ba * n) - (ra * m)
           lb == (bb * n) - (rb * m)
<1>1. /\ ba * n \in Int /\ ra * m \in Int /\ bb * n \in Int /\ rb * m \in Int
      /\ ba * rb \in Int /\ bb * ra \in Int
  OBVIOUS
<1>2. la \in Int /\ lb \in Int
  BY <1>1
<1>3. rb * la <= ra * lb
  <2>1. /\ rb * la = (rb * (ba * n)) - (rb * (ra * m))
        /\ ra * lb = (ra * (bb * n)) - (ra * (rb * m))
    BY <1>1
  <2>2. /\ rb * (ba * n) = n * (ba * rb) /\ ra * (bb * n) = n * (bb * ra)
        /\ ra * (rb * m) = rb * (ra * m)
    OBVIOUS
  <2>3. n * (ba * rb) <= n * (bb * ra)
    BY <1>1, ScaledOrder
  <2>4. n * (ba * rb) \in Int /\ n * (bb * ra) \in Int /\ rb * (ra * m) \in Int
    BY <1>1
  <2> DEFINE x == n * (ba * rb)
             y == n * (bb * ra)
             z == rb * (ra * m)
  <2>5. rb * la = x - z /\ ra * lb = y - z /\ x <= y /\ x \in Int /\ y \in Int /\ z \in Int
    BY <2>1, <2>2, <2>3, <2>4
  <2> HIDE DEF x, y, z, la, lb
  <2> QED
    BY <2>5
<1>4. rb * la \in Int /\ ra * lb \in Int
  BY <1>2
<1> HIDE DEF la, lb
<1>5. la >= 0 => lb >= 0
  <2>1. la >= 0 => rb * la >= rb * 0
    BY <1>2, ScaledOrder
  <2>2. ra * 0 <= ra * lb => 0 <= lb
    BY <1>2, ScaledOrder
  <2> QED
    BY <1>2, <1>3, <1>4, <2>1, <2>2
<1>6. la > 0 => lb > 0
  <2>1. la > 0 => rb * la > rb * 0
    BY <1>2, ScaledOrder
  <2>2. ra * 0 < ra * lb => 0 < lb
    BY <1>2, ScaledOrder
  <2> QED
    BY <1>2, <1>3, <1>4, <2>1, <2>2
<1> QED
  BY <1>5, <1>6 DEF la, lb

(* The walk has not passed the blocker's cells.                            *)
Ahead(at, one, other, body, w) ==
  \A axis \in Axis :
    NotPassed(Way(at[other], axis) - Way(at[one], axis), w.cell[axis], From(at, one, axis),
              Span(at, one, other), PassedAt(at, one, other, body, axis), Way(at[body], axis))

(* Where no boundary comes before the blocker, the cell is the blocker's,  *)
(* unless the walk is due over one as it grazes the blocker.               *)
LEMMA CoveredUnlessDue ==
  ASSUME NEW at, Standing(at), NEW one \in Body, NEW other \in Body, NEW body \in Body,
         BlocksRay(at, one, other, body),
         NEW w, OnWay(at, one, other, w), Ahead(at, one, other, body, w),
         \A axis \in Axis : Open(w, axis) =>
           /\ Lead(at, one, other, body, w, axis) >= 0
           /\ \/ w.ray[axis] < 0
              \/ Lead(at, one, other, body, w, axis) > 0
              \/ (Span(at, one, other) * Way(at[body], axis)) - PassedAt(at, one, other, body, axis)
                   < Span(at, one, other) * Radius
  PROVE  w.cell \in CoveredCells(at[body])
<1> DEFINE n == Span(at, one, other)
           m == Along(at, one, other, body)
<1>1. ASSUME NEW axis \in Axis
      PROVE  w.cell[axis] \in CellOf(axis, Way(at[body], axis) - Radius)
                                .. CellOf(axis, Way(at[body], axis) + Radius)
  <2> DEFINE from == Way(at[one], axis)
             to == Way(at[other], axis)
             way == Way(at[body], axis)
             passed == PassedAt(at, one, other, body, axis)
             c == w.cell[axis]
             e == From(at, other, axis)
             lead == Lead(at, one, other, body, w, axis)
             r == w.ray[axis]
             low == n * (c * One)
             high == n * ((c + 1) * One)
             gap == (n * way) - passed
             top == n * Radius
  <2>1. from \in Int /\ to \in Int /\ way \in Int
    BY OffsetIs
  <2>2. /\ n \in Nat \ {0} /\ m \in Nat \ {0} /\ m < n
        /\ passed \in Int /\ passed = Passing(n, m, from, to)
        /\ gap \in Int /\ gap <= top /\ -gap <= top
    BY PassedWithinRadius DEF PassedAt
  <2>3. /\ c \in Int /\ r = to - from
        /\ Between(to - from, c, CellOf(axis, from), CellOf(axis, to))
        /\ c # e <=> w.cell[axis] # w.end[axis]
    BY DEF OnWay, OnAxis, From
  <2>4. NotPassed(to - from, c, CellOf(axis, from), n, passed, way)
    BY DEF Ahead, From
  <2>5. lead \in Int /\ (r > 0 => lead = high - passed) /\ (r < 0 => lead = passed - low)
    BY LeadIs
  <2>6. /\ low \in Int /\ high \in Int
        /\ passed - (n * way) <= top
    <3>1. c * One \in Int /\ (c + 1) * One \in Int /\ n * way \in Int
      BY <2>1, <2>2, <2>3, GridFacts
    <3> QED
      BY <2>2, <3>1
  <2>7. r # 0 /\ c # e => /\ lead >= 0
                          /\ r < 0 \/ lead > 0 \/ gap < top
    BY <2>3 DEF Open
  <2>8. NotBefore(to - from, c, CellOf(axis, to), n, passed)
    <3> HIDE DEF lead, r, low, high, gap, top
    <3>1. e = CellOf(axis, to)
      BY DEF From
    <3>2. c # e => /\ r > 0 => passed <= high
                   /\ r < 0 => low <= passed
      BY <2>1, <2>2, <2>3, <2>5, <2>6, <2>7
    <3> QED
      BY <2>3, <3>1, <3>2 DEF NotBefore, low, high
  <2>9. r <= 0 \/ c = e \/ passed < high \/ gap < top
    <3> HIDE DEF lead, r, low, high, gap, top, from, to, passed, e
    <3> QED
      BY <2>1, <2>2, <2>3, <2>5, <2>6, <2>7
  <2>10. to - from <= 0 \/ c = CellOf(axis, to) \/ passed < n * ((c + 1) * One) \/ (n * way) - passed < n * Radius
    BY <2>3, <2>9 DEF From
  <2>11. (n * way) - passed <= n * Radius /\ passed - (n * way) <= n * Radius
    BY <2>2, <2>6
  <2> HIDE DEF from, to, way, passed, c, n, m, gap, top
  <2>12. c \in CellOf(axis, way - Radius) .. CellOf(axis, way + Radius)
    BY <2>1, <2>2, <2>3, <2>4, <2>8, <2>10, <2>11, CoveredAlong
  <2> QED
    BY <2>12 DEF c, way
<1>2. IsCell(w.cell) /\ Placeable(at[body])
  BY DEF OnWay, IsWalk, Standing
<1> QED
  BY <1>1, <1>2, CoveredIsBoxed

(* At its end a walk is in a cell of every blocker it has not passed.      *)
LEMMA EndIsCovered ==
  ASSUME NEW at, Standing(at), NEW one \in Body, NEW other \in Body, NEW body \in Body,
         BlocksRay(at, one, other, body),
         NEW w, OnWay(at, one, other, w), Ahead(at, one, other, body, w), w.cell = w.end
  PROVE  w.cell \in CoveredCells(at[body])
<1>1. \A axis \in Axis : ~Open(w, axis)
  BY DEF Open
<1> QED
  BY <1>1, CoveredUnlessDue

(* A step passes no blocker whose cell it does not leave.                  *)
LEMMA StepPassesNobody ==
  ASSUME NEW at, Standing(at), NEW one \in Body, NEW other \in Body, NEW body \in Body,
         BlocksRay(at, one, other, body),
         NEW w, OnWay(at, one, other, w), Ahead(at, one, other, body, w),
         w.cell \notin CoveredCells(at[body])
  PROVE  Ahead(at, one, other, body, WalkStep(w))
<1> DEFINE n == Span(at, one, other)
           m == Along(at, one, other, body)
           lead(axis) == Lead(at, one, other, body, w, axis)
           passed(axis) == PassedAt(at, one, other, body, axis)
           gap(axis) == (n * Way(at[body], axis)) - passed(axis)
           top == n * Radius
<1>1. IsWalk(w) /\ n \in Nat \ {0} /\ m \in Nat \ {0}
  BY PassedWithinRadius DEF OnWay
<1>2. top \in Nat \ {0} /\ Radius \in Nat \ {0} /\ One \in Nat \ {0}
  BY <1>1, GridFacts
<1>3. ASSUME NEW a \in Axis, Crossed(w, a), NEW b \in Axis, Open(w, b)
      PROVE  (lead(a) >= 0 => lead(b) >= 0) /\ (lead(a) > 0 => lead(b) > 0)
  <2> DEFINE ra == AbsOf(w.ray[a])
             rb == AbsOf(w.ray[b])
             ba == w.boundary[a]
             bb == w.boundary[b]
  <2>1. ra \in Nat \ {0} /\ rb \in Nat \ {0} /\ ba \in Int /\ bb \in Int
    <3>1. /\ w.ray[a] \in Int /\ w.ray[b] \in Int /\ ba \in Int /\ bb \in Int
          /\ w.ray[a] # 0 /\ w.ray[b] # 0
      BY <1>3, OffsetIs DEF OnWay, OnAxis, Crossed, Open
    <3> QED
      BY <3>1 DEF AbsOf
  <2>2. ba * rb <= bb * ra
    BY <1>3 DEF Crossed, NoLater
  <2>3. lead(a) = (ba * n) - (ra * m) /\ lead(b) = (bb * n) - (rb * m)
    BY DEF Lead
  <2> HIDE DEF ra, rb, ba, bb, lead, n, m
  <2> QED
    BY <1>1, <2>1, <2>2, <2>3, RatioOrder
<1>4. ASSUME NEW axis \in Axis
      PROVE  lead(axis) \in Int /\ gap(axis) \in Int /\ gap(axis) <= top
             /\ (gap(axis) = top => \A a \in Axis : a # axis => gap(a) = 0)
  BY LeadIs, PassedWithinRadius
<1>5. ASSUME NEW a \in Axis, Crossed(w, a)
      PROVE  /\ lead(a) <= 0
             /\ w.ray[a] < 0 /\ lead(a) = 0 => gap(a) < top
  <2>1. ASSUME lead(a) > 0
        PROVE  FALSE
    <3>1. \A axis \in Axis : Open(w, axis) => lead(axis) > 0 /\ lead(axis) >= 0
      <4> HIDE DEF lead
      <4> QED
        BY <1>3, <1>4, <1>5, <2>1
    <3> QED
      BY <3>1, CoveredUnlessDue
  <2>2. ASSUME w.ray[a] < 0, lead(a) = 0, ~(gap(a) < top)
        PROVE  FALSE
    <3> HIDE DEF lead, gap, top
    <3>1. gap(a) = top
      BY <1>2, <1>4, <2>2
    <3>2. ASSUME NEW axis \in Axis, Open(w, axis)
          PROVE  lead(axis) >= 0 /\ (w.ray[axis] < 0 \/ lead(axis) > 0 \/ gap(axis) < top)
      <4>1. lead(axis) >= 0
        BY <1>3, <1>5, <2>2, <3>2
      <4>2. axis # a => gap(axis) = 0 /\ gap(axis) < top
        BY <1>2, <1>4, <3>1
      <4> QED
        BY <2>2, <4>1, <4>2
    <3>3. w.cell \in CoveredCells(at[body])
      BY <3>2, CoveredUnlessDue DEF lead, gap, top
    <3> QED
      BY <3>3
  <2> QED
    <3> HIDE DEF lead, gap, top
    <3> QED
      BY <1>4, <2>1, <2>2
<1>6. ASSUME NEW axis \in Axis
      PROVE  NotPassed(Way(at[other], axis) - Way(at[one], axis), WalkStep(w).cell[axis],
                       From(at, one, axis), n, passed(axis), Way(at[body], axis))
  <2> DEFINE r == w.ray[axis]
             c == w.cell[axis]
             s == From(at, one, axis)
             way == Way(at[body], axis)
             next == WalkStep(w).cell[axis]
             low == c * One
             high == (c + 1) * One
             p == passed(axis)
             l == lead(axis)
             g == gap(axis)
  <2>1. /\ r = Way(at[other], axis) - Way(at[one], axis) /\ r \in Int /\ c \in Int /\ way \in Int
        /\ low \in Int /\ high \in Int
    BY <1>2, OffsetIs DEF OnWay, OnAxis
  <2>2. next = c + (IF Crossed(w, axis) THEN SignOf(r) ELSE 0)
    BY <1>1, StepIs
  <2>3. NotPassed(r, c, s, n, p, way)
    BY <2>1 DEF Ahead
  <2>4. /\ l \in Int /\ p \in Int
        /\ r > 0 => l = (n * high) - p
        /\ r < 0 => l = p - (n * low)
    BY LeadIs, PassedWithinRadius
  <2>5. g = (n * way) - p /\ g \in Int /\ g <= top
    BY <1>4
  <2>6. Crossed(w, axis) => /\ r # 0 /\ l <= 0
                            /\ r < 0 /\ l = 0 => g < top
    BY <1>5 DEF Crossed, Open
  <2> HIDE DEF r, c, s, way, next, p, l, g, n, lead, passed, gap, top
  <2>7. CASE ~Crossed(w, axis)
    <3>1. next = c
      BY <2>1, <2>2, <2>7
    <3> QED
      BY <2>1, <2>3, <3>1 DEF s, way, next, p, n
  <2>8. CASE Crossed(w, axis) /\ r > 0
    <3>1. next = c + 1 /\ ~(r < 0)
      BY <2>1, <2>2, <2>8 DEF SignOf
    <3>2. n * (next * One) <= p
      <4>1. n * high \in Int
        BY <1>1, <2>1
      <4> HIDE DEF high
      <4>2. n * high <= p
        BY <2>4, <2>6, <2>8, <4>1
      <4> QED
        BY <3>1, <4>2 DEF high
    <3>3. NotPassed(r, next, s, n, p, way)
      BY <3>1, <3>2 DEF NotPassed
    <3> QED
      BY <2>1, <3>3 DEF s, way, next, p, n
  <2>9. CASE Crossed(w, axis) /\ r < 0
    <3>1. next = c - 1 /\ ~(r > 0) /\ next + 1 = c
      BY <2>1, <2>2, <2>9 DEF SignOf
    <3>2. /\ n * low \in Int /\ n * way \in Int /\ top \in Int
          /\ n * (way - Radius) = (n * way) - top /\ way - Radius \in Int
      BY <1>1, <1>2, <2>1 DEF top
    <3> HIDE DEF low
    <3>3. p <= n * low /\ (n * way) - top < n * low
      BY <2>4, <2>5, <2>6, <2>9, <3>2
    <3>4. n * (way - Radius) < n * low
      BY <3>2, <3>3
    <3>5. way - Radius < low
      BY <1>1, <2>1, <3>2, <3>4, ScaledOrder
    <3>6. NotPassed(r, next, s, n, p, way)
      BY <3>1, <3>3, <3>5 DEF NotPassed, low
    <3> QED
      BY <2>1, <3>6 DEF s, way, next, p, n
  <2> QED
    BY <2>1, <2>6, <2>7, <2>8, <2>9
<1> QED
  BY <1>6 DEF Ahead, n, passed

-----------------------------------------------------------------------------

(* The inductive invariant.  Bodies stand where the grid can tell them     *)
(* apart; between a rebuild and the next move the grid is theirs; a walk   *)
(* under way has passed no blocker; and the verdicts so far are exactly    *)
(* the pairs a blocker comes between.                                      *)
Placed == positions \in [Body -> Vector] /\ Standing(positions)

Walking == stage \in {"walking", "clear"}
Looping ==
  /\ stage \in {"moved", "indexed", "walking", "clear", "built"}
  /\ observer \in 0 .. Bodies /\ target \in 0 .. Bodies
  /\ Walking => observer \in Body /\ target \in Body /\ target # observer /\ TeamOf[observer] # "none"
  /\ ~Walking => walk = NoWalk

Indexed == stage # "moved" => grid = Rebuilt(EmptyIndex, positions)

Blocked(one, other) == \E body \in Body : BlocksRay(positions, one, other, body)
PassedNobody ==
  /\ Walking => OnWay(positions, observer, target, walk)
  /\ stage = "walking" =>
       \A body \in Body : BlocksRay(positions, observer, target, body)
                            => Ahead(positions, observer, target, body, walk)
  /\ stage = "clear" => ~Blocked(observer, target)

Done(one, other) == one < observer \/ (one = observer /\ other < target)
Told ==
  /\ hidden \subseteq Body \X Body
  /\ stage # "moved" =>
       \A one, other \in Body :
         <<one, other>> \in hidden
           <=> Done(one, other) /\ one # other /\ TeamOf[one] # "none" /\ Blocked(one, other)

IsSequence(s) == \E S : s \in Seq(S)
Batched ==
  /\ offsets \in Seq(Nat) /\ Len(offsets) \in 1 .. Bodies + 1
  /\ stage # "moved" => Len(offsets) = observer + 1
  /\ IsSequence(rays) /\ offsets[Len(offsets)] <= Len(rays)

Sighted == Placed /\ Looping /\ Indexed /\ PassedNobody /\ Told /\ Batched /\ MembersFitCapacity

LEMMA PlacedAtFirst == Init => Placed
  BY PlacementAssumption DEF Init, Placed, Standing

LEMMA PlacedKept == Placed /\ [Next]_vars => Placed'
<1> SUFFICES ASSUME Placed, [Next]_vars PROVE Placed'
  OBVIOUS
<1>1. CASE Move
  <2>0. PICK body \in Body : \E place \in Moves[body] : positions' = [positions EXCEPT ![body] = place]
    BY <1>1 DEF Move
  <2>1. PICK place \in Moves[body] : positions' = [positions EXCEPT ![body] = place]
    BY <2>0
  <2>2. Placeable(place) /\ place \in Vector
    BY PlacementAssumption DEF Placeable
  <2> QED
    BY <2>1, <2>2 DEF Placed, Standing
<1>2. CASE UNCHANGED positions
  BY <1>2 DEF Placed, Standing
<1> QED
  BY <1>1, <1>2 DEF Next, vars, Rebuild, SkipObjective, SkipSelf, StartWalk, Walk, Advance, FoundBlocker,
     ReachedTarget, Emit, NextTarget, CloseObserver, Finish

LEMMA LoopingKept == Looping /\ [Next]_vars => Looping'
<1> SUFFICES ASSUME Looping, [Next]_vars PROVE Looping'
  OBVIOUS
<1> USE DEF Looping, Walking
<1>1. Bodies \in Nat \ {0} /\ Body = 0 .. Bodies - 1
  BY GridFacts DEF Body
<1>2. CASE Rebuild
  BY <1>1, <1>2 DEF Rebuild
<1>3. CASE SkipObjective
  BY <1>1, <1>3 DEF SkipObjective
<1>4. CASE SkipSelf
  BY <1>1, <1>4 DEF SkipSelf
<1>5. CASE StartWalk
  BY <1>1, <1>5 DEF StartWalk
<1>6. CASE Advance
  BY <1>1, <1>6 DEF Advance
<1>7. CASE FoundBlocker
  BY <1>1, <1>7 DEF FoundBlocker, NextTarget
<1>8. CASE ReachedTarget
  BY <1>1, <1>8 DEF ReachedTarget
<1>9. CASE Emit
  BY <1>1, <1>9 DEF Emit, NextTarget
<1>10. CASE CloseObserver
  BY <1>1, <1>10 DEF CloseObserver
<1>11. CASE Finish
  BY <1>1, <1>11 DEF Finish
<1>12. CASE Move
  BY <1>1, <1>12 DEF Move
<1>13. CASE UNCHANGED vars
  BY <1>13 DEF vars
<1> QED
  BY <1>2, <1>3, <1>4, <1>5, <1>6, <1>7, <1>8, <1>9, <1>10, <1>11, <1>12, <1>13 DEF Next, Walk

(* A rebuild starts from nothing, whatever the last one left.              *)
LEMMA RebuiltForgets ==
  ASSUME NEW held, NEW at
  PROVE  Rebuilt(held, at) = Rebuilt(EmptyIndex, at)
  BY DEF Rebuilt, Counted

LEMMA IndexedKept == Indexed /\ [Next]_vars => Indexed'
<1> SUFFICES ASSUME Indexed, [Next]_vars PROVE Indexed'
  OBVIOUS
<1>1. CASE Rebuild
  <2>1. grid' = Rebuilt(EmptyIndex, positions) /\ positions' = positions
    BY <1>1, RebuiltForgets DEF Rebuild
  <2> QED
    BY <2>1 DEF Indexed
<1>2. CASE Move
  BY <1>2 DEF Move, Indexed
<1>3. CASE UNCHANGED <<grid, positions>> /\ (stage' # "moved" => stage # "moved")
  BY <1>3 DEF Indexed
<1> QED
  BY <1>1, <1>2, <1>3 DEF Next, vars, SkipObjective, SkipSelf, StartWalk, Walk, Advance, FoundBlocker,
     ReachedTarget, Emit, NextTarget, CloseObserver, Finish

LEMMA RebuiltFits ==
  ASSUME NEW at, NEW held, Standing(at)
  PROVE  Len(Rebuilt(held, at).members) <= 8 * Bodies
<1> DEFINE covers == Coverage(at)
           members == MembersOfAll(covers)
           size == OffsetsOf(covers)[Cells]
<1>1. IsCoverage(covers)
  BY CoverageIs
<1>2. members \in [1 .. size -> Body]
  BY <1>1, ScatterFills
<1>3. size = Cardinality(covers) /\ size \in Nat /\ Cardinality(covers) <= 8 * Bodies
  <2>1. size = Cardinality(covers)
    BY <1>1, SumsCount
  <2>2. size \in Nat
    BY <1>1, CountsAre, CellsAreSome
  <2>3. Cardinality(covers) <= 8 * Bodies
    BY EightCellsEach
  <2> QED
    BY <2>1, <2>2, <2>3
<1> HIDE DEF members, size, covers
<1>4. members \in Seq(Body) /\ Len(members) = size
  BY <1>2, <1>3
<1> QED
  BY <1>3, <1>4, RebuiltIs DEF members, covers

LEMMA CapacityKept == Placed /\ MembersFitCapacity /\ [Next]_vars => MembersFitCapacity'
<1> SUFFICES ASSUME Placed, MembersFitCapacity, [Next]_vars PROVE MembersFitCapacity'
  OBVIOUS
<1>1. CASE Rebuild
  <2>1. grid' = Rebuilt(grid, positions) /\ Standing(positions)
    BY <1>1 DEF Rebuild, Placed
  <2> QED
    BY <2>1, RebuiltFits DEF MembersFitCapacity
<1>2. CASE UNCHANGED grid
  BY <1>2 DEF MembersFitCapacity
<1> QED
  BY <1>1, <1>2 DEF Next, vars, SkipObjective, SkipSelf, StartWalk, Walk, Advance, FoundBlocker,
     ReachedTarget, Emit, NextTarget, CloseObserver, Finish, Move

-----------------------------------------------------------------------------

(* A walk keeps to the grid.                                               *)
LEMMA WalkInGrid ==
  ASSUME NEW at, Standing(at), NEW one \in Body, NEW other \in Body, NEW w, OnWay(at, one, other, w)
  PROVE  InGrid(w.cell) /\ IsCell(w.cell)
<1>1. ASSUME NEW axis \in Axis
      PROVE  w.cell[axis] \in 0 .. Last(axis)
  <2> DEFINE r == Way(at[other], axis) - Way(at[one], axis)
             s == From(at, one, axis)
             e == From(at, other, axis)
             c == w.cell[axis]
  <2>1. /\ Way(at[one], axis) \in Int /\ Way(at[other], axis) \in Int
    BY OffsetIs
  <2>2. s \in 0 .. Last(axis) /\ e \in 0 .. Last(axis) /\ Last(axis) \in Nat /\ r \in Int
    BY <2>1, CellReached, GridFacts DEF From
  <2>3. Between(r, c, s, e) /\ c \in Int
    BY DEF OnWay, OnAxis
  <2> HIDE DEF r, s, e, c
  <2>4. c \in 0 .. Last(axis)
    BY <2>2, <2>3 DEF Between
  <2> QED
    BY <2>4 DEF c
<1> QED
  BY <1>1 DEF InGrid, Last, OnWay, IsWalk

(* The bodies looked at in a cell are those that cover it.                 *)
LEMMA LooksAtCovering ==
  ASSUME Placed, Looping, Indexed, PassedNobody, Walking
  PROVE  /\ observer \in Body /\ target \in Body /\ Standing(positions)
         /\ OnWay(positions, observer, target, walk)
         /\ MembersOf(grid, walk.cell) = {body \in Body : walk.cell \in CoveredCells(positions[body])}
<1>1. observer \in Body /\ target \in Body /\ Standing(positions)
      /\ OnWay(positions, observer, target, walk)
  BY DEF Looping, Placed, PassedNobody
<1>2. InGrid(walk.cell) /\ IsCell(walk.cell)
  BY <1>1, WalkInGrid
<1>3. grid = Rebuilt(EmptyIndex, positions)
  BY DEF Walking, Indexed
<1> QED
  BY <1>1, <1>2, <1>3, MembersAre

LEMMA PassedNobodyKept ==
  Placed /\ Looping /\ Indexed /\ PassedNobody /\ [Next]_vars => PassedNobody'
<1> SUFFICES ASSUME Placed, Looping, Indexed, PassedNobody, [Next]_vars PROVE PassedNobody'
  OBVIOUS
<1>1. CASE StartWalk
  <2>1. /\ observer \in Body /\ target \in Body /\ Standing(positions)
        /\ walk' = WalkFrom(positions, observer, target)
        /\ stage' = "walking" /\ UNCHANGED <<positions, observer, target>>
    BY <1>1, GridFacts DEF StartWalk, Looping, Placed, Body
  <2>2. OnWay(positions, observer, target, walk')
    BY <2>1, WalkStarts
  <2>3. ASSUME NEW body
        PROVE  Ahead(positions, observer, target, body, walk')
    <3>1. \A axis \in Axis : walk'.cell[axis] = From(positions, observer, axis)
      BY <2>1, WalkStarts
    <3> QED
      BY <3>1 DEF Ahead, NotPassed
  <2> QED
    BY <2>1, <2>2, <2>3 DEF PassedNobody, Walking
<1>2. CASE Advance
  <2>1. /\ stage = "walking" /\ ~BlockedHere /\ walk' = WalkStep(walk)
        /\ UNCHANGED <<positions, observer, target, stage>>
    BY <1>2 DEF Advance
  <2>2. /\ observer \in Body /\ target \in Body /\ Standing(positions)
        /\ OnWay(positions, observer, target, walk)
        /\ MembersOf(grid, walk.cell) = {body \in Body : walk.cell \in CoveredCells(positions[body])}
    BY <2>1, LooksAtCovering DEF Walking
  <2>3. OnWay(positions, observer, target, walk')
    BY <2>1, <2>2, StepStaysOnWay
  <2>4. ASSUME NEW body \in Body, BlocksRay(positions, observer, target, body)
        PROVE  Ahead(positions, observer, target, body, walk')
    <3>1. walk.cell \notin CoveredCells(positions[body])
      BY <2>1, <2>2, <2>4 DEF BlockedHere
    <3>2. Ahead(positions, observer, target, body, walk)
      BY <2>1, <2>4 DEF PassedNobody
    <3> QED
      BY <2>1, <2>2, <2>4, <3>1, <3>2, StepPassesNobody
  <2> QED
    BY <2>1, <2>3, <2>4 DEF PassedNobody, Walking
<1>3. CASE ReachedTarget
  <2>1. /\ stage = "walking" /\ ~BlockedHere /\ walk.cell = walk.end /\ stage' = "clear"
        /\ UNCHANGED <<positions, observer, target, walk>>
    BY <1>3 DEF ReachedTarget, AtEnd
  <2>2. /\ observer \in Body /\ target \in Body /\ Standing(positions)
        /\ OnWay(positions, observer, target, walk)
        /\ MembersOf(grid, walk.cell) = {body \in Body : walk.cell \in CoveredCells(positions[body])}
    BY <2>1, LooksAtCovering DEF Walking
  <2>3. ASSUME NEW body \in Body, BlocksRay(positions, observer, target, body)
        PROVE  FALSE
    <3>1. walk.cell \notin CoveredCells(positions[body])
      BY <2>1, <2>2, <2>3 DEF BlockedHere
    <3>2. Ahead(positions, observer, target, body, walk)
      BY <2>1, <2>3 DEF PassedNobody
    <3> QED
      BY <2>1, <2>2, <2>3, <3>1, <3>2, EndIsCovered
  <2> QED
    BY <2>1, <2>2, <2>3 DEF PassedNobody, Walking, Blocked
<1>4. CASE stage' \notin {"walking", "clear"}
  BY <1>4 DEF PassedNobody, Walking
<1>5. CASE UNCHANGED vars
  BY <1>5 DEF vars, PassedNobody, Walking, Blocked
<1> QED
  BY <1>1, <1>2, <1>3, <1>4, <1>5 DEF Next, Walk, Rebuild, SkipObjective, SkipSelf, FoundBlocker, Emit,
     NextTarget, CloseObserver, Finish, Move

-----------------------------------------------------------------------------

(* A verdict given adds the pair to those done, and nothing else.          *)
LEMMA ToldKept == Placed /\ Looping /\ Indexed /\ PassedNobody /\ Told /\ [Next]_vars => Told'
<1> SUFFICES ASSUME Placed, Looping, Indexed, PassedNobody, Told, [Next]_vars PROVE Told'
  OBVIOUS
<1>1. Bodies \in Nat \ {0} /\ Body = 0 .. Bodies - 1
  BY GridFacts DEF Body
<1> DEFINE Counts(one, other) == one # other /\ TeamOf[one] # "none" /\ Blocked(one, other)
<1>2. /\ hidden \subseteq Body \X Body
      /\ stage # "moved" =>
           \A one, other \in Body : <<one, other>> \in hidden <=> Done(one, other) /\ Counts(one, other)
  BY DEF Told
<1>3. ASSUME UNCHANGED <<positions, hidden>>, stage # "moved",
             \A one, other \in Body : Counts(one, other) => (Done(one, other)' <=> Done(one, other))
      PROVE  Told'
  <2>1. \A one, other : Blocked(one, other)' <=> Blocked(one, other)
    BY <1>3 DEF Blocked
  <2> QED
    BY <1>2, <1>3, <2>1 DEF Told
<1>4. ASSUME UNCHANGED <<positions, observer>>, stage # "moved", target' = target + 1,
             observer \in Body, target \in Body,
             hidden' = IF Counts(observer, target) THEN hidden \cup {<<observer, target>>} ELSE hidden
      PROVE  Told'
  <2>1. \A one, other : Blocked(one, other)' <=> Blocked(one, other)
    BY <1>4 DEF Blocked
  <2>2. \A one, other \in Body :
          Done(one, other)' <=> Done(one, other) \/ (one = observer /\ other = target)
    BY <1>1, <1>4 DEF Done
  <2>3. hidden' \subseteq Body \X Body
    BY <1>2, <1>4
  <2>4. ASSUME NEW one \in Body, NEW other \in Body
        PROVE  <<one, other>> \in hidden' <=> Done(one, other)' /\ Counts(one, other)
    <3>1. <<one, other>> \in hidden'
            <=> <<one, other>> \in hidden \/ (one = observer /\ other = target /\ Counts(one, other))
      BY <1>4
    <3> HIDE DEF Counts
    <3> QED
      BY <1>2, <1>4, <2>2, <3>1
  <2> QED
    BY <2>1, <2>3, <2>4 DEF Told
<1>5. CASE Rebuild
  <2>1. \A one, other \in Body : ~Done(one, other)'
    BY <1>1, <1>5 DEF Rebuild, Done
  <2> QED
    BY <1>5, <2>1 DEF Rebuild, Told
<1>6. CASE SkipObjective
  <2>1. \A one, other \in Body : TeamOf[one] # "none" => (Done(one, other)' <=> Done(one, other))
    <3>1. observer \in Int /\ target \in Int
      BY DEF Looping
    <3>2. TeamOf[observer] = "none" /\ observer' = observer + 1 /\ target' = 0
      BY <1>6 DEF SkipObjective
    <3> QED
      BY <1>1, <3>1, <3>2 DEF Done
  <2>2. UNCHANGED <<positions, hidden>> /\ stage # "moved"
    BY <1>6 DEF SkipObjective
  <2> QED
    BY <1>3, <2>1, <2>2
<1>7. CASE SkipSelf
  <2>1. \A one, other \in Body : one # other => (Done(one, other)' <=> Done(one, other))
    <3>1. observer \in Int /\ target \in Int
      BY DEF Looping
    <3>2. target = observer /\ target' = target + 1 /\ observer' = observer
      BY <1>7 DEF SkipSelf
    <3> QED
      BY <1>1, <3>1, <3>2 DEF Done
  <2>2. UNCHANGED <<positions, hidden>> /\ stage # "moved"
    BY <1>7 DEF SkipSelf
  <2> QED
    BY <1>3, <2>1, <2>2
<1>8. CASE StartWalk \/ Advance \/ ReachedTarget \/ Finish
  <2>1. UNCHANGED <<positions, hidden, observer, target>> /\ stage # "moved"
    BY <1>8 DEF StartWalk, Advance, ReachedTarget, Finish
  <2>2. \A one, other \in Body : Done(one, other)' <=> Done(one, other)
    BY <2>1 DEF Done
  <2> QED
    BY <1>3, <2>1, <2>2
<1>9. CASE FoundBlocker
  <2>1. /\ stage = "walking" /\ BlockedHere /\ hidden' = hidden \cup {<<observer, target>>}
        /\ UNCHANGED <<positions, observer>> /\ target' = target + 1
    BY <1>9 DEF FoundBlocker, NextTarget
  <2>2. /\ observer \in Body /\ target \in Body
        /\ MembersOf(grid, walk.cell) = {body \in Body : walk.cell \in CoveredCells(positions[body])}
    BY <2>1, LooksAtCovering DEF Walking
  <2>3. Blocked(observer, target)
    BY <2>1, <2>2 DEF BlockedHere, Blocked
  <2>4. Counts(observer, target)
    BY <2>1, <2>3 DEF Looping, Walking
  <2> QED
    BY <1>4, <2>1, <2>2, <2>4
<1>10. CASE Emit
  <2>1. /\ stage = "clear" /\ hidden' = hidden
        /\ UNCHANGED <<positions, observer>> /\ target' = target + 1
    BY <1>10 DEF Emit, NextTarget
  <2>2. observer \in Body /\ target \in Body /\ ~Blocked(observer, target)
    BY <2>1 DEF Looping, Walking, PassedNobody
  <2> QED
    BY <1>4, <2>1, <2>2
<1>11. CASE CloseObserver
  <2>1. /\ observer' = observer + 1 /\ target' = 0 /\ target = Bodies /\ stage # "moved"
        /\ UNCHANGED <<positions, hidden>>
    BY <1>11 DEF CloseObserver
  <2>2. \A one, other \in Body : Done(one, other)' <=> Done(one, other)
    <3>1. observer \in Int
      BY DEF Looping
    <3> QED
      BY <1>1, <2>1, <3>1 DEF Done
  <2> QED
    BY <1>3, <2>1, <2>2
<1>12. CASE Move
  BY <1>12 DEF Move, Told
<1>13. CASE UNCHANGED vars
  <2>1. UNCHANGED <<positions, hidden, observer, target, stage>>
    BY <1>13 DEF vars
  <2>2. \A one, other : (Blocked(one, other)' <=> Blocked(one, other)) /\ (Done(one, other)' <=> Done(one, other))
    BY <2>1 DEF Blocked, Done
  <2> QED
    BY <2>1, <2>2 DEF Told
<1> QED
  BY <1>5, <1>6, <1>7, <1>8, <1>9, <1>10, <1>11, <1>12, <1>13 DEF Next, Walk

-----------------------------------------------------------------------------

LEMMA SequencesGrow ==
  ASSUME NEW s, IsSequence(s), NEW t, IsSequence(t)
  PROVE  IsSequence(s \o t) /\ Len(s \o t) = Len(s) + Len(t) /\ Len(s) \in Nat /\ Len(t) \in Nat
<1>1. PICK S : s \in Seq(S)
  BY DEF IsSequence
<1>2. PICK T : t \in Seq(T)
  BY DEF IsSequence
<1>3. s \in Seq(S \cup T) /\ t \in Seq(S \cup T)
  BY <1>1, <1>2, SeqDef
<1> DEFINE U == S \cup T
<1>4. s \in Seq(U) /\ t \in Seq(U)
  BY <1>3
<1> HIDE DEF U
<1>5. s \o t \in Seq(U) /\ Len(s \o t) = Len(s) + Len(t) /\ Len(s) \in Nat /\ Len(t) \in Nat
  BY <1>4
<1> QED
  BY <1>5 DEF IsSequence

LEMMA SequenceAppends ==
  ASSUME NEW s, IsSequence(s), NEW e
  PROVE  IsSequence(Append(s, e)) /\ Len(Append(s, e)) = Len(s) + 1 /\ Len(s) \in Nat
<1>1. PICK S : s \in Seq(S)
  BY DEF IsSequence
<1>2. s \in Seq(S \cup {e})
  BY <1>1, SeqDef
<1> DEFINE U == S \cup {e}
<1>3. s \in Seq(U) /\ e \in U
  BY <1>2
<1> HIDE DEF U
<1>4. Append(s, e) \in Seq(U) /\ Len(Append(s, e)) = Len(s) + 1 /\ Len(s) \in Nat
  BY <1>3
<1> QED
  BY <1>4 DEF IsSequence

LEMMA EnvironmentIsSequence == IsSequence(EnvironmentRays)
<1> DEFINE axis == AttackAxis(TeamOf[observer])
           Kept(direction, depth, relation) ==
             IF Dot(direction, Forward(observer)) >= 0
             THEN <<[direction |-> direction, depth |-> depth, relation |-> relation, target |-> NoBody]>>
             ELSE <<>>
<1>1. EnvironmentRays =
        Kept(UnitX, Arena.halfLength, "arena") \o Kept(Negated(UnitX), Arena.halfLength, "arena")
          \o Kept(Vec(0, One, 0), Arena.halfWidth, "arena") \o Kept(Vec(0, -One, 0), Arena.halfWidth, "arena")
          \o Kept(UnitZ, Arena.height, "arena") \o Kept(Negated(UnitZ), One, "arena")
          \o Kept(axis, Arena.halfLength, "goal") \o Kept(Negated(axis), Arena.halfLength, "goal")
  BY DEF EnvironmentRays
<1>2. ASSUME NEW direction, NEW depth, NEW relation
      PROVE  IsSequence(Kept(direction, depth, relation))
  <2> DEFINE ray == [direction |-> direction, depth |-> depth, relation |-> relation, target |-> NoBody]
  <2>1. <<ray>> \in Seq({ray}) /\ <<>> \in Seq({ray})
    <3> HIDE DEF ray
    <3> QED
      OBVIOUS
  <2> QED
    BY <2>1 DEF IsSequence
<1> HIDE DEF Kept
<1> QED
  BY <1>1, <1>2, SequencesGrow

LEMMA BatchedKept == Looping /\ Batched /\ [Next]_vars => Batched'
<1> SUFFICES ASSUME Looping, Batched, [Next]_vars PROVE Batched'
  OBVIOUS
<1>1. Bodies \in Nat \ {0} /\ Body = 0 .. Bodies - 1 /\ observer \in 0 .. Bodies
  BY GridFacts DEF Body, Looping
<1>2. /\ offsets \in Seq(Nat) /\ Len(offsets) \in 1 .. Bodies + 1
      /\ stage # "moved" => Len(offsets) = observer + 1
      /\ IsSequence(rays) /\ offsets[Len(offsets)] <= Len(rays)
  BY DEF Batched
<1>3. Len(rays) \in Nat /\ offsets[Len(offsets)] \in Nat
  <2>1. Len(rays) \in Nat
    BY <1>2, SequenceAppends
  <2>2. offsets[Len(offsets)] \in Nat
    BY <1>1, <1>2, ElementOfSeq
  <2> QED
    BY <2>1, <2>2
<1>4. ASSUME NEW more, IsSequence(more), rays' = rays \o more,
             offsets' = Append(offsets, Len(rays')), observer' = observer + 1,
             observer < Bodies, stage # "moved"
      PROVE  Batched'
  <2>1. IsSequence(rays') /\ Len(rays') \in Nat
    BY <1>2, <1>4, SequencesGrow
  <2>2. /\ offsets' \in Seq(Nat) /\ Len(offsets') = Len(offsets) + 1
        /\ offsets'[Len(offsets) + 1] = Len(rays')
    BY <1>2, <1>4, <2>1, AppendProperties
  <2> QED
    BY <1>1, <1>2, <1>4, <2>1, <2>2 DEF Batched
<1>5. CASE Rebuild
  <2>1. offsets' = <<0>> /\ rays' = <<>> /\ observer' = 0
    BY <1>5 DEF Rebuild
  <2>2. <<0>> \in Seq(Nat) /\ Len(<<0>>) = 1 /\ <<0>>[1] = 0 /\ Len(<<>>) = 0 /\ <<>> \in Seq(Nat)
    OBVIOUS
  <2> QED
    BY <1>1, <2>1, <2>2 DEF Batched, IsSequence
<1>6. CASE SkipObjective
  <2>1. IsSequence(<<>>) /\ rays \o <<>> = rays
    <3>1. PICK S : rays \in Seq(S)
      BY <1>2 DEF IsSequence
    <3>2. <<>> \in Seq(S) /\ rays \o <<>> = rays
      BY <3>1, ConcatEmptySeq
    <3> QED
      BY <3>2 DEF IsSequence
  <2>2. /\ rays' = rays /\ offsets' = Append(offsets, Len(rays)) /\ observer' = observer + 1
        /\ observer < Bodies /\ stage # "moved"
    BY <1>6 DEF SkipObjective
  <2> QED
    BY <1>4, <2>1, <2>2
<1>7. CASE CloseObserver
  <2>1. /\ rays' = rays \o EnvironmentRays /\ offsets' = Append(offsets, Len(rays'))
        /\ observer' = observer + 1 /\ observer < Bodies /\ stage # "moved"
    BY <1>7 DEF CloseObserver
  <2> QED
    BY <1>4, <2>1, EnvironmentIsSequence
<1>8. CASE Emit
  <2>1. IsSequence(rays') /\ Len(rays) <= Len(rays') /\ Len(rays') \in Nat
    <3>1. rays' = rays \/ rays' = Append(rays, RayTo(target))
      BY <1>8 DEF Emit
    <3>2. IsSequence(Append(rays, RayTo(target))) /\ Len(Append(rays, RayTo(target))) = Len(rays) + 1
      BY <1>2, SequenceAppends
    <3>3. CASE rays' = rays
      BY <1>2, <1>3, <3>3
    <3>4. CASE rays' = Append(rays, RayTo(target))
      <4> DEFINE longer == Append(rays, RayTo(target))
      <4>1. rays' = longer /\ IsSequence(longer) /\ Len(longer) = Len(rays) + 1
        BY <3>2, <3>4
      <4> HIDE DEF longer
      <4> QED
        BY <1>3, <4>1
    <3> QED
      BY <3>1, <3>3, <3>4
  <2>2. UNCHANGED <<offsets, observer>> /\ stage # "moved"
    BY <1>8 DEF Emit, NextTarget
  <2> QED
    BY <1>2, <1>3, <2>1, <2>2 DEF Batched
<1>9. CASE UNCHANGED <<offsets, rays, observer>> /\ (stage' # "moved" => stage # "moved")
  BY <1>9 DEF Batched
<1> QED
  BY <1>5, <1>6, <1>7, <1>8, <1>9 DEF Next, Walk, SkipSelf, StartWalk, Advance, FoundBlocker, ReachedTarget,
     NextTarget, Finish, Move, vars

-----------------------------------------------------------------------------

LEMMA SightedAtFirst == Init => Sighted
<1> SUFFICES ASSUME Init PROVE Sighted
  OBVIOUS
<1>1. Bodies \in Nat \ {0}
  BY GridFacts
<1>2. Placed
  BY PlacedAtFirst
<1>3. Looping
  BY <1>1 DEF Init, Looping, Walking
<1>4. Indexed /\ PassedNobody /\ Told
  BY DEF Init, Indexed, PassedNobody, Walking, Told
<1>5. Batched
  <2>1. <<0>> \in Seq(Nat) /\ Len(<<0>>) = 1 /\ <<0>>[1] = 0 /\ Len(<<>>) = 0 /\ <<>> \in Seq(Nat)
    OBVIOUS
  <2> QED
    BY <1>1, <2>1 DEF Init, Batched, IsSequence
<1>6. MembersFitCapacity
  BY <1>1 DEF Init, MembersFitCapacity, EmptyIndex
<1> QED
  BY <1>2, <1>3, <1>4, <1>5, <1>6 DEF Sighted

LEMMA SightedAlways == Spec => []Sighted
<1>1. Sighted /\ [Next]_vars => Sighted'
  BY PlacedKept, LoopingKept, IndexedKept, CapacityKept, PassedNobodyKept, ToldKept, BatchedKept DEF Sighted
<1> QED
  BY <1>1, SightedAtFirst, PTL DEF Spec

(* The observation build keeps its types: the loop indices stay in range,  *)
(* a walk never leaves the grid, and the CSR offsets never run ahead of    *)
(* the rays (ObservationBatch::build, SpatialIndex::occluded).             *)
THEOREM TypeCorrect == Spec => []TypeOK
<1>1. Sighted => TypeOK
  <2> SUFFICES ASSUME Sighted PROVE TypeOK
    OBVIOUS
  <2>1. /\ Placed /\ Looping /\ PassedNobody /\ Told /\ Batched
    BY DEF Sighted
  <2>2. walk # NoWalk => InGrid(walk.cell)
    <3>1. CASE Walking
      <4>1. /\ observer \in Body /\ target \in Body /\ Standing(positions)
            /\ OnWay(positions, observer, target, walk)
        BY <2>1, <3>1 DEF Looping, Placed, PassedNobody
      <4> QED
        BY <4>1, WalkInGrid
    <3>2. CASE ~Walking
      BY <2>1, <3>2 DEF Looping
    <3> QED
      BY <3>1, <3>2
  <2>3. Len(offsets) <= Bodies + 1 /\ offsets[Len(offsets)] <= Len(rays)
    BY <2>1, GridFacts DEF Batched
  <2> QED
    BY <2>1, <2>2, <2>3 DEF TypeOK, Placed, Looping, Told
<1> QED
  BY <1>1, SightedAlways, PTL

(* Whenever the index is rebuilt, each cell of any grid holds exactly the  *)
(* bodies whose box reaches it, in canonical order, whatever the arrays    *)
(* held before (SpatialIndex::rebuild).                                    *)
THEOREM IndexIsFresh == Spec => []BucketsFresh
<1>1. Sighted => BucketsFresh
  <2> SUFFICES ASSUME Sighted, stage \in {"indexed", "built"},
                      NEW cell \in [x : 0 .. Dimensions.x - 1, y : 0 .. Dimensions.y - 1, z : 0 .. Dimensions.z - 1]
               PROVE  LET members == CellMembers(grid, cell)
                      IN  /\ {members[i] : i \in DOMAIN members} = {body \in Body : cell \in CoveredCells(positions[body])}
                          /\ \A i, j \in DOMAIN members : i < j => members[i] < members[j]
    BY DEF BucketsFresh
  <2>1. grid = Rebuilt(EmptyIndex, positions) /\ Standing(positions)
    BY DEF Sighted, Indexed, Placed
  <2>2. InGrid(cell) /\ IsCell(cell)
    BY DEF InGrid, IsCell, Axis
  <2> QED
    BY <2>1, <2>2, CellHolds
<1> QED
  BY <1>1, SightedAlways, PTL

(* The members never outgrow the eight cells a body set aside for them,    *)
(* for any grid and any number of bodies narrower than a cell: no rebuild  *)
(* reallocates (SpatialIndex::new).                                        *)
THEOREM CapacitySuffices == Spec => []MembersFitCapacity
<1>1. Sighted => MembersFitCapacity
  BY DEF Sighted
<1> QED
  BY <1>1, SightedAlways, PTL

(* The grid walk and the brute-force oracle agree on every pair, wherever  *)
(* the bodies stand: no blocker is walked past, through faces, edges,      *)
(* corners and border cells, and nothing that does not block is taken for  *)
(* a blocker (SpatialIndex::occluded, occluded_brute_force).               *)
THEOREM WalkAgreesWithBruteForce == Spec => []WalkFindsOccluders
<1>1. Sighted => WalkFindsOccluders
  <2> SUFFICES ASSUME Sighted, NEW one \in Body, NEW other \in Body,
                      one # other, TeamOf[one] # "none", stage \in {"indexed", "built"},
                      one < observer \/ (one = observer /\ other < target)
               PROVE  <<one, other>> \in hidden <=> OccludedBruteForce(positions, one, other)
    BY DEF WalkFindsOccluders
  <2>1. <<one, other>> \in hidden <=> Blocked(one, other)
    BY DEF Sighted, Told, Done
  <2>2. ASSUME NEW body \in Body, BlocksRay(positions, one, other, body)
        PROVE  Depth2(positions, one, body) < Depth2(positions, one, other)
    BY <2>2 DEF BlocksRay, Depth2
  <2> QED
    BY <2>1, <2>2 DEF OccludedBruteForce, Blocked
<1> QED
  BY <1>1, SightedAlways, PTL

(* Whoever is hidden has a strictly nearer body in plain sight, of any     *)
(* number of bodies: the nearest blocker hides others and is itself seen   *)
(* (blocks_ray).                                                           *)
THEOREM SomebodyIsSeen == Spec => []HiddenBehindSeen
<1>1. Sighted => HiddenBehindSeen
  <2> SUFFICES ASSUME Sighted, stage = "built", NEW pair \in hidden
               PROVE  \E body \in Body \ {pair[1]} :
                        /\ Depth2(positions, pair[1], body) < Depth2(positions, pair[1], pair[2])
                        /\ <<pair[1], body>> \notin hidden
    BY DEF HiddenBehindSeen
  <2> DEFINE one == pair[1]
             Depth(body) == Depth2(positions, one, body)
             Nearer == {body \in Body \ {one} : Depth(body) < Depth(pair[2])}
             depths == {Depth(body) : body \in Nearer}
  <2>1. /\ Standing(positions)
        /\ one \in Body /\ pair[2] \in Body /\ pair = <<one, pair[2]>>
    BY DEF Sighted, Told, Placed
  <2>2. ASSUME NEW body \in Body, <<one, body>> \in hidden
        PROVE  \E b \in Body \ {one} : Depth(b) < Depth(body)
    <3>1. PICK b \in Body : BlocksRay(positions, one, body, b)
      BY <2>1, <2>2 DEF Sighted, Told, Blocked
    <3> QED
      BY <3>1 DEF BlocksRay, Depth2
  <2>3. \A body \in Body : Depth(body) \in Nat
    BY <2>1, OffsetIs, LengthIsFloor DEF Depth2
  <2> HIDE DEF Depth, one
  <2>4. depths \in SUBSET Nat /\ depths # {}
    BY <2>1, <2>2, <2>3
  <2>5. PICK least \in depths : \A depth \in depths : least <= depth
    BY <2>4, LeastElement
  <2>6. PICK nearest \in Nearer : Depth(nearest) = least
    BY <2>5
  <2>7. <<one, nearest>> \notin hidden
    <3>1. SUFFICES ASSUME <<one, nearest>> \in hidden PROVE FALSE
      OBVIOUS
    <3>2. PICK b \in Body \ {one} : Depth(b) < Depth(nearest)
      BY <2>2, <2>6, <3>1
    <3>3. b \in Nearer
      BY <2>1, <2>3, <2>6, <3>2
    <3>4. least <= Depth(b)
      BY <2>5, <3>3
    <3> QED
      BY <2>3, <2>6, <3>2, <3>4
  <2>8. nearest \in Body \ {one} /\ Depth(nearest) < Depth(pair[2])
    BY <2>6
  <2> QED
    BY <2>7, <2>8 DEF Depth, one
<1> QED
  BY <1>1, SightedAlways, PTL

-----------------------------------------------------------------------------

(* Comparing crossings by their products is transitive, on any distances. *)
LEMMA CrossingsInOrder ==
  ASSUME NEW ra \in Nat \ {0}, NEW rb \in Nat \ {0}, NEW rc \in Nat \ {0},
         NEW ba \in Int, NEW bb \in Int, NEW bc \in Int,
         ba * rb <= bb * ra, bb * rc <= bc * rb
  PROVE  ba * rc <= bc * ra
<1> DEFINE p == ba * rb
           q == bb * ra
           s == bb * rc
           t == bc * rb
           left == ba * rc
           right == bc * ra
<1>1. p \in Int /\ q \in Int /\ s \in Int /\ t \in Int /\ left \in Int /\ right \in Int
  OBVIOUS
<1>2. rc * p <= rc * q
  <2> HIDE DEF p, q
  <2> QED
    BY <1>1, ScaledOrder DEF p, q
<1>3. ra * s <= ra * t
  <2> HIDE DEF s, t
  <2> QED
    BY <1>1, ScaledOrder DEF s, t
<1>4. rb * left = rc * p /\ rc * q = ra * s /\ ra * t = rb * right
  OBVIOUS
<1>5. rb * left <= rb * right
  <2> HIDE DEF p, q, s, t, left, right
  <2>1. rc * p \in Int /\ rc * q \in Int /\ ra * t \in Int
    BY <1>1
  <2> QED
    BY <1>2, <1>3, <1>4, <2>1
<1> HIDE DEF left, right
<1>6. left <= right
  BY <1>1, <1>5, ScaledOrder
<1> QED
  BY <1>6 DEF left, right

(* Short of the end some axis is still to go, and of those the one whose   *)
(* boundary is nearest is crossed.                                         *)
LEMMA SomeAxisCrosses ==
  ASSUME NEW at, Standing(at), NEW one \in Body, NEW other \in Body, NEW w, OnWay(at, one, other, w),
         w.cell # w.end
  PROVE  \E axis \in Axis : Crossed(w, axis)
<1>1. \A axis \in Axis : Open(w, axis) <=> w.cell[axis] # w.end[axis]
  <2> SUFFICES ASSUME NEW axis \in Axis, w.cell[axis] # w.end[axis] PROVE w.ray[axis] # 0
    BY DEF Open
  <2> QED
    BY DEF OnWay, OnAxis, Between
<1>2. \E axis \in Axis : Open(w, axis)
  BY <1>1 DEF OnWay, IsWalk, IsCell
<1>3. \A axis \in Axis : Open(w, axis) =>
        /\ AbsOf(w.ray[axis]) \in Nat \ {0}
        /\ w.boundary[axis] \in Int
  <2> SUFFICES ASSUME NEW axis \in Axis, Open(w, axis)
               PROVE  AbsOf(w.ray[axis]) \in Nat \ {0} /\ w.boundary[axis] \in Int
    OBVIOUS
  <2>1. w.boundary[axis] \in Int /\ w.ray[axis] = Way(at[other], axis) - Way(at[one], axis)
    BY DEF OnWay, OnAxis
  <2>2. w.ray[axis] \in Int /\ w.ray[axis] # 0
    BY <2>1, OffsetIs DEF Open
  <2> QED
    BY <2>1, <2>2 DEF AbsOf
<1>4. \A a, b \in Axis : Open(w, a) /\ Open(w, b) => NoLater(w, a, b) \/ NoLater(w, b, a)
  <2> SUFFICES ASSUME NEW a \in Axis, NEW b \in Axis, Open(w, a), Open(w, b)
               PROVE  NoLater(w, a, b) \/ NoLater(w, b, a)
    OBVIOUS
  <2> DEFINE p == w.boundary[a] * AbsOf(w.ray[b])
             q == w.boundary[b] * AbsOf(w.ray[a])
  <2>1. p \in Int /\ q \in Int
    BY <1>3
  <2>2. (NoLater(w, a, b) <=> p <= q) /\ (NoLater(w, b, a) <=> q <= p)
    BY DEF NoLater
  <2> HIDE DEF p, q
  <2> QED
    BY <2>1, <2>2
<1>5. \A a, b, c \in Axis :
        (Open(w, a) /\ Open(w, b) /\ Open(w, c) /\ NoLater(w, a, b) /\ NoLater(w, b, c))
          => NoLater(w, a, c)
  BY <1>3, CrossingsInOrder DEF NoLater
<1> QED
  BY <1>2, <1>4, <1>5 DEF Crossed, Axis

(* An axis that crosses comes one nearer, and the others stay: no axis     *)
(* goes past the end.                                                      *)
LEMMA AxisComesNearer ==
  ASSUME NEW at, Standing(at), NEW one \in Body, NEW other \in Body, NEW w, OnWay(at, one, other, w),
         NEW axis \in Axis
  PROVE  LET from == w.end[axis] - w.cell[axis]
             left == w.end[axis] - WalkStep(w).cell[axis]
         IN  /\ AbsOf(from) \in Nat
             /\ AbsOf(left) = AbsOf(from) - (IF Crossed(w, axis) THEN 1 ELSE 0)
<1> DEFINE r == w.ray[axis]
           c == w.cell[axis]
           e == w.end[axis]
           next == WalkStep(w).cell[axis]
           over == Crossed(w, axis)
<1>1. r \in Int /\ c \in Int /\ e \in Int /\ Between(r, c, From(at, one, axis), e)
  <2>1. /\ r = Way(at[other], axis) - Way(at[one], axis) /\ c \in Int /\ e = From(at, other, axis)
        /\ Between(r, c, From(at, one, axis), e)
    BY DEF OnWay, OnAxis
  <2>2. Way(at[other], axis) \in Int /\ Way(at[one], axis) \in Int
    BY OffsetIs
  <2>3. e \in 0 .. Last(axis)
    BY <2>1, <2>2, CellReached DEF From
  <2>4. Last(axis) \in Nat
    BY GridFacts
  <2> QED
    BY <2>1, <2>2, <2>3, <2>4
<1>2. next = c + (IF over THEN SignOf(r) ELSE 0)
  BY StepIs DEF OnWay
<1>3. over => r # 0 /\ c # e
  BY DEF Crossed, Open
<1> HIDE DEF r, c, e, next, over
<1>4. (r > 0 => c <= e) /\ (r < 0 => e <= c)
  BY <1>1 DEF Between
<1>5. /\ AbsOf(e - c) \in Nat
      /\ AbsOf(e - next) = AbsOf(e - c) - (IF over THEN 1 ELSE 0)
  <2>1. CASE ~over
    BY <1>1, <1>2, <2>1 DEF AbsOf
  <2>2. CASE over /\ r > 0
    BY <1>1, <1>2, <1>3, <1>4, <2>2 DEF AbsOf, SignOf
  <2>3. CASE over /\ r < 0
    BY <1>1, <1>2, <1>3, <1>4, <2>3 DEF AbsOf, SignOf
  <2> QED
    BY <1>1, <1>3, <2>1, <2>2, <2>3
<1> QED
  BY <1>5 DEF c, e, next, over

(* Every walk short of its target's cell crosses a boundary and comes      *)
(* nearer, of any bodies on any grid: with a natural number that falls at  *)
(* each step the loop of SpatialIndex::occluded has no more passes than    *)
(* the two cells are apart.                                                *)
THEOREM WalkGetsThere == Spec => []StepComesNearer
<1>1. Sighted => StepComesNearer
  <2> SUFFICES ASSUME Sighted, stage = "walking", ~AtEnd
               PROVE  Distance(WalkStep(walk).cell, walk.end) < Distance(walk.cell, walk.end)
    BY DEF StepComesNearer
  <2>1. /\ Standing(positions) /\ observer \in Body /\ target \in Body
        /\ OnWay(positions, observer, target, walk) /\ walk.cell # walk.end
    BY DEF Sighted, Placed, Looping, PassedNobody, Walking, AtEnd
  <2> DEFINE before == [axis \in Axis |-> AbsOf(walk.end[axis] - walk.cell[axis])]
             after == [axis \in Axis |-> AbsOf(walk.end[axis] - WalkStep(walk).cell[axis])]
  <2>2. \A axis \in Axis :
          before[axis] \in Nat /\ after[axis] = before[axis] - (IF Crossed(walk, axis) THEN 1 ELSE 0)
    BY <2>1, AxisComesNearer
  <2>3. \E axis \in Axis : Crossed(walk, axis)
    BY <2>1, SomeAxisCrosses
  <2>4. /\ Distance(walk.cell, walk.end) = before["x"] + before["y"] + before["z"]
        /\ Distance(WalkStep(walk).cell, walk.end) = after["x"] + after["y"] + after["z"]
    BY DEF Distance, Axis
  <2> HIDE DEF before, after
  <2> QED
    BY <2>2, <2>3, <2>4 DEF Axis
<1> QED
  BY <1>1, SightedAlways, PTL

====
