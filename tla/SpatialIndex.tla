---------------------------- MODULE SpatialIndex ----------------------------
(***************************************************************************)
(* The uniform grid of zoomieball-core/src/perception.rs: which cells a    *)
(* body covers, how rebuild sorts bodies into cells by counting, which     *)
(* cells a ray visits, and when one body blocks the ray to another.        *)
(*                                                                         *)
(* Bodies are numbered from zero in the canonical order.  A cell is named  *)
(* by its three coordinates, and cells are numbered as in the code.        *)
(***************************************************************************)
EXTENDS FixedPoint, Sequences, FiniteSets

CONSTANTS
  Bodies,       \* number of bodies, the objective's included
  Radius,       \* every sphere's radius, raw
  Dimensions,   \* cells along each axis
  Origin        \* corner of cell (0, 0, 0); a cell is One on a side

Axis == {"x", "y", "z"}

(* Near enough for no difference of two places, and no box about one, to   *)
(* leave the word.                                                         *)
Placeable(position) ==
  position \in Vector /\ \A axis \in Axis : 4 * AbsOf(position[axis]) < WordLimit

(* As in SpatialIndex::new and World::new: a body is narrower than a cell. *)
ASSUME GridAssumption ==
  /\ Bodies \in Nat \ {0}
  /\ Radius \in Nat \ {0} /\ 2 * Radius <= One /\ 4 * Radius < WordLimit
  /\ Dimensions \in [x : Nat \ {0}, y : Nat \ {0}, z : Nat \ {0}]
  /\ Placeable(Origin)

Body == 0 .. Bodies - 1

Cells == Dimensions.x * Dimensions.y * Dimensions.z
CellIndex(cell) == (cell.z * Dimensions.y + cell.y) * Dimensions.x + cell.x
InGrid(cell) == \A axis \in Axis : cell[axis] \in 0 .. Dimensions[axis] - 1

(* The cell a position is in; one outside the grid counts in its border.   *)
CellCoordinates(position) ==
  [axis \in Axis |->
    LET raw == Wrap(position[axis] - Origin[axis])
    IN  ClampTo((IF raw < 0 THEN 0 ELSE raw) \div One, 0, Dimensions[axis] - 1)]

Splat(value) == Vec(value, value, value)

(* Mutant: a body in one cell only. *)
CoveredByCentre(position) == {CellCoordinates(position)}

(* Every cell the body's bounding box touches. *)
CoveredCells(position) ==
  LET low  == CellCoordinates(Minus(position, Splat(Radius)))
      high == CellCoordinates(Plus(position, Splat(Radius)))
  IN  {[x |-> x, y |-> y, z |-> z] :
         x \in low.x .. high.x, y \in low.y .. high.y, z \in low.z .. high.z}

-----------------------------------------------------------------------------

EmptyIndex ==
  [counts  |-> [index \in 0 .. Cells - 1 |-> 0],
   offsets |-> [index \in 0 .. Cells |-> 0],
   members |-> <<>>]

(* Bodies with the number of each cell they cover. *)
Coverage(at) == UNION {{<<body, CellIndex(cell)>> : cell \in CoveredCells(at[body])} : body \in Body}

(* Mutant: counts carried on from the last rebuild. *)
CountedOn(held, coverage) ==
  [index \in 0 .. Cells - 1 |->
     held.counts[index] + Cardinality({pair \in coverage : pair[2] = index})]

(* First pass: how many bodies cover each cell. *)
Counted(held, coverage) ==
  [index \in 0 .. Cells - 1 |-> Cardinality({pair \in coverage : pair[2] = index})]

(* Where each cell's members start, and past the last cell their number. *)
PrefixSums(counts) ==
  LET Upto[index \in 0 .. Cells] ==
        IF index = 0 THEN 0 ELSE Upto[index - 1] + counts[index - 1]
  IN  [index \in 0 .. Cells |-> Upto[index]]

(* Second pass, in canonical order: each body takes the next free place of *)
(* every cell it covers, and a place nobody takes holds body zero.         *)
Scattered(offsets, coverage) ==
  LET Earlier(pair) == {other \in coverage : other[2] = pair[2] /\ other[1] < pair[1]}
      places == {<<pair[1], 1 + offsets[pair[2]] + Cardinality(Earlier(pair))>> : pair \in coverage}
      Taking(place) == {pair \in places : pair[2] = place}
  IN  [place \in 1 .. offsets[Cells] |->
         IF Taking(place) = {} THEN 0 ELSE (CHOOSE pair \in Taking(place) : TRUE)[1]]

Rebuilt(held, at) ==
  LET coverage == Coverage(at)
      counts   == Counted(held, coverage)
      offsets  == PrefixSums(counts)
  IN  [counts |-> counts, offsets |-> offsets, members |-> Scattered(offsets, coverage)]

(* The members sorted into one cell; off the grid there are none. *)
CellMembers(grid, cell) ==
  IF InGrid(cell)
  THEN LET index == CellIndex(cell)
       IN  SubSeq(grid.members, 1 + grid.offsets[index], grid.offsets[index + 1])
  ELSE <<>>

MembersOf(grid, cell) ==
  LET found == CellMembers(grid, cell) IN {found[i] : i \in DOMAIN found}

-----------------------------------------------------------------------------

Offset(at, observer, body) == Minus(at[body], at[observer])
Depth2(at, observer, body) ==
  LET offset == Offset(at, observer, body) IN RawDot(offset, offset)

(* Mutant: no matter which of the two is nearer. *)
BlocksAtAnyDepth(at, observer, target, candidate) ==
  LET ray   == Offset(at, observer, target)
      other == Offset(at, observer, candidate)
      along == RawDot(other, ray)
  IN  /\ candidate \notin {observer, target}
      /\ along > 0
      /\ RawDot(other, other) * RawDot(ray, ray) - along * along <= Radius * Radius * RawDot(ray, ray)

(* Whether the candidate, strictly nearer and ahead, is within a radius of *)
(* the ray: exact products, so no rounding decides.                        *)
BlocksRay(at, observer, target, candidate) ==
  LET ray   == Offset(at, observer, target)
      other == Offset(at, observer, candidate)
      along == RawDot(other, ray)
  IN  /\ candidate \notin {observer, target}
      /\ RawDot(other, other) < RawDot(ray, ray)
      /\ along > 0
      /\ RawDot(other, other) * RawDot(ray, ray) - along * along <= Radius * Radius * RawDot(ray, ray)

OccludedBruteForce(at, observer, target) ==
  \E candidate \in Body :
    /\ Depth2(at, observer, candidate) < Depth2(at, observer, target)
    /\ BlocksRay(at, observer, target, candidate)

-----------------------------------------------------------------------------

(* A walk is the cell it is in, the cell it ends in, the ray's direction   *)
(* and, along each axis, how far the next cell boundary is.                *)
WalkFrom(at, observer, target) ==
  LET cell == CellCoordinates(at[observer])
      ray  == Offset(at, observer, target)
      Low(axis) == Origin[axis] + cell[axis] * One
  IN  [cell |-> cell,
       end  |-> CellCoordinates(at[target]),
       ray  |-> ray,
       boundary |-> [axis \in Axis |->
         IF ray[axis] > 0 THEN Low(axis) + One - at[observer][axis]
         ELSE IF ray[axis] < 0 THEN at[observer][axis] - Low(axis) ELSE 0]]

(* Axes along which the walk has not yet reached the target's cell. *)
Open(walk, axis) == walk.ray[axis] # 0 /\ walk.cell[axis] # walk.end[axis]

(* The crossing along one axis comes no later than along another. *)
NoLater(walk, one, other) ==
  walk.boundary[one] * AbsOf(walk.ray[other]) <= walk.boundary[other] * AbsOf(walk.ray[one])

(* Mutant: where two boundaries meet, none is crossed. *)
CrossedAlone(walk, axis) ==
  Open(walk, axis) /\ \A other \in Axis \ {axis} : Open(walk, other) => ~NoLater(walk, other, axis)

(* Mutant: an axis goes on past the target's cell. *)
CrossedPastEnd(walk, axis) ==
  /\ walk.ray[axis] # 0
  /\ \A other \in Axis : walk.ray[other] # 0 => NoLater(walk, axis, other)

(* The axes of the next boundary, several where the ray meets an edge. *)
Crossed(walk, axis) ==
  Open(walk, axis) /\ \A other \in Axis : Open(walk, other) => NoLater(walk, axis, other)

WalkStep(walk) ==
  [walk EXCEPT
    !.cell = [axis \in Axis |-> @[axis] + (IF Crossed(walk, axis) THEN SignOf(walk.ray[axis]) ELSE 0)],
    !.boundary = [axis \in Axis |-> @[axis] + (IF Crossed(walk, axis) THEN One ELSE 0)]]

=============================================================================
