-------------------------------- MODULE Sight -------------------------------
(***************************************************************************)
(* Match::tick's perception: the spatial index is rebuilt over the bodies' *)
(* positions, then ObservationBatch::build walks the grid for every pair   *)
(* of an observing player and another body, and appends one ray for each   *)
(* body seen and the environment rays of the observer's hemisphere         *)
(* (perception.rs).  Between two ticks a body moves.                       *)
(***************************************************************************)
EXTENDS SpatialIndex

CONSTANTS
  TeamOf,       \* body -> "zero", "one", or "none" for the objective
  Placements,   \* where the bodies may stand at first: body -> vector
  Moves,        \* body -> where it may be when the next tick observes
  Poses,        \* body -> [desired, velocity, normal]
  Arena         \* [halfLength, halfWidth, height], raw

VARIABLES
  positions,  \* body -> vector
  poses,      \* body -> what its forward direction is resolved from
  grid,       \* the spatial index
  stage,      \* "moved", "indexed", "walking", "clear" or "built"
  observer, target,   \* loop indices
  walk,       \* the walk under way
  hidden,     \* pairs the walks found occluded
  offsets, rays       \* the batch: CSR offsets and ray records

(* Bodies stand in the arena, or not far off it. *)
ASSUME PlacementAssumption ==
  /\ \A at \in Placements : at \in [Body -> Vector] /\ \A body \in Body : Placeable(at[body])
  /\ \A body \in Body : \A place \in Moves[body] : Placeable(place)

vars == <<positions, poses, grid, stage, observer, target, walk, hidden, offsets, rays>>

NoWalk == <<>>
NoBody == -1

AttackAxis(team) == IF team = "zero" THEN UnitX ELSE Vec(-One, 0, 0)

(* The intended direction along the floor contact, or else the direction   *)
(* of travel, or else downfield.                                           *)
Tangent(v, normal) == Minus(v, Scaled(normal, Dot(v, normal)))
Forward(body) ==
  LET pose    == poses[body]
      desired == Tangent(Minus(pose.desired, positions[body]), pose.normal)
      travel  == Tangent(pose.velocity, pose.normal)
  IN  IF desired # Zero THEN Normalized(desired)
      ELSE IF travel # Zero THEN Normalized(travel)
      ELSE AttackAxis(TeamOf[body])

Relation(one, other) ==
  IF TeamOf[other] = "none" THEN "neutral"
  ELSE IF TeamOf[one] = TeamOf[other] THEN "teammate" ELSE "opponent"

RayTo(body) ==
  LET offset   == Offset(positions, observer, body)
      distance == Length(offset)
  IN  [direction |-> Normalized(offset),
       depth     |-> ClampTo(distance - Radius, 0, distance),
       relation  |-> Relation(observer, body),
       target    |-> body]

InFront(body) == Dot(Offset(positions, observer, body), Forward(observer)) >= 0

(* The eight fixed directions, kept where they are not behind. *)
EnvironmentRays ==
  LET axis == AttackAxis(TeamOf[observer])
      Kept(direction, depth, relation) ==
        IF Dot(direction, Forward(observer)) >= 0
        THEN <<[direction |-> direction, depth |-> depth, relation |-> relation, target |-> NoBody]>>
        ELSE <<>>
  IN  Kept(UnitX, Arena.halfLength, "arena") \o Kept(Negated(UnitX), Arena.halfLength, "arena")
        \o Kept(Vec(0, One, 0), Arena.halfWidth, "arena") \o Kept(Vec(0, -One, 0), Arena.halfWidth, "arena")
        \o Kept(UnitZ, Arena.height, "arena") \o Kept(Negated(UnitZ), One, "arena")
        \o Kept(axis, Arena.halfLength, "goal") \o Kept(Negated(axis), Arena.halfLength, "goal")

-----------------------------------------------------------------------------

Init ==
  /\ positions \in Placements
  /\ poses \in Poses
  /\ grid = EmptyIndex
  /\ stage = "moved"
  /\ observer = 0 /\ target = 0
  /\ walk = NoWalk
  /\ hidden = {}
  /\ offsets = <<0>> /\ rays = <<>>

(* SpatialIndex::rebuild, and the batch cleared. *)
Rebuild ==
  /\ stage = "moved"
  /\ grid' = Rebuilt(grid, positions)
  /\ stage' = "indexed"
  /\ observer' = 0 /\ target' = 0
  /\ hidden' = {}
  /\ offsets' = <<0>> /\ rays' = <<>>
  /\ UNCHANGED <<positions, poses, walk>>

(* The objective observes nothing; its range is empty. *)
SkipObjective ==
  /\ stage = "indexed"
  /\ observer < Bodies
  /\ TeamOf[observer] = "none"
  /\ offsets' = Append(offsets, Len(rays))
  /\ observer' = observer + 1 /\ target' = 0
  /\ UNCHANGED <<positions, poses, grid, stage, walk, hidden, rays>>

SkipSelf ==
  /\ stage = "indexed"
  /\ observer < Bodies
  /\ TeamOf[observer] # "none"
  /\ target = observer
  /\ target' = target + 1
  /\ UNCHANGED <<positions, poses, grid, stage, observer, walk, hidden, offsets, rays>>

StartWalk ==
  /\ stage = "indexed"
  /\ observer < Bodies
  /\ TeamOf[observer] # "none"
  /\ target < Bodies
  /\ target # observer
  /\ walk' = WalkFrom(positions, observer, target)
  /\ stage' = "walking"
  /\ UNCHANGED <<positions, poses, grid, observer, target, hidden, offsets, rays>>

BlockedHere ==
  \E candidate \in MembersOf(grid, walk.cell) : BlocksRay(positions, observer, target, candidate)

AtEnd == walk.cell = walk.end

Advance ==
  /\ stage = "walking"
  /\ ~BlockedHere
  /\ ~AtEnd
  /\ walk' = WalkStep(walk)
  /\ UNCHANGED <<positions, poses, grid, stage, observer, target, hidden, offsets, rays>>

NextTarget ==
  /\ stage' = "indexed"
  /\ walk' = NoWalk
  /\ target' = target + 1
  /\ UNCHANGED <<positions, poses, grid, observer, offsets>>

FoundBlocker ==
  /\ stage = "walking"
  /\ BlockedHere
  /\ hidden' = hidden \cup {<<observer, target>>}
  /\ UNCHANGED rays
  /\ NextTarget

ReachedTarget ==
  /\ stage = "walking"
  /\ ~BlockedHere
  /\ AtEnd
  /\ stage' = "clear"
  /\ UNCHANGED <<positions, poses, grid, observer, target, walk, hidden, offsets, rays>>

(* A ray for the target nothing hides, unless it is behind. *)
Emit ==
  /\ stage = "clear"
  /\ rays' = IF InFront(target) THEN Append(rays, RayTo(target)) ELSE rays
  /\ UNCHANGED hidden
  /\ NextTarget

CloseObserver ==
  /\ stage = "indexed"
  /\ observer < Bodies
  /\ TeamOf[observer] # "none"
  /\ target = Bodies
  /\ rays' = rays \o EnvironmentRays
  /\ offsets' = Append(offsets, Len(rays'))
  /\ observer' = observer + 1 /\ target' = 0
  /\ UNCHANGED <<positions, poses, grid, stage, walk, hidden>>

Finish ==
  /\ stage = "indexed"
  /\ observer = Bodies
  /\ stage' = "built"
  /\ UNCHANGED <<positions, poses, grid, observer, target, walk, hidden, offsets, rays>>

(* The rest of the tick. *)
Move ==
  /\ stage = "built"
  /\ \E body \in Body : \E place \in Moves[body] :
       positions' = [positions EXCEPT ![body] = place]
  /\ stage' = "moved"
  /\ UNCHANGED <<poses, grid, observer, target, walk, hidden, offsets, rays>>

Walk == Advance \/ FoundBlocker \/ ReachedTarget

Next == Rebuild \/ SkipObjective \/ SkipSelf \/ StartWalk \/ Walk
          \/ Emit \/ CloseObserver \/ Finish \/ Move

Spec == Init /\ [][Next]_vars

(* One call on one thread: a walk that can go on does.  The other loops of *)
(* a build run over fixed ranges.                                          *)
FairSpec == Spec /\ WF_vars(Walk)

-----------------------------------------------------------------------------

TypeOK ==
  /\ positions \in [Body -> Vector]
  /\ stage \in {"moved", "indexed", "walking", "clear", "built"}
  /\ observer \in 0 .. Bodies /\ target \in 0 .. Bodies
  /\ hidden \subseteq Body \X Body
  /\ Len(offsets) <= Bodies + 1 /\ offsets[Len(offsets)] <= Len(rays)
  /\ walk # NoWalk => InGrid(walk.cell)

(* The verdict of every finished walk is the brute-force oracle's: the     *)
(* walk visits a cell of every body near the ray, through edges, corners   *)
(* and cells off the grid's border alike (SpatialIndex::occluded).         *)
WalkFindsOccluders ==
  \A one, other \in Body :
    (one # other /\ TeamOf[one] # "none" /\ stage \in {"indexed", "built"}
     /\ (one < observer \/ (one = observer /\ other < target))) =>
      (<<one, other>> \in hidden <=> OccludedBruteForce(positions, one, other))

(* A rebuilt index holds in each cell the bodies that cover it, each once, *)
(* in canonical order, whatever the last tick left in the arrays           *)
(* (SpatialIndex::rebuild).                                                *)
BucketsFresh ==
  stage \in {"indexed", "built"} =>
    \A cell \in [x : 0 .. Dimensions.x - 1, y : 0 .. Dimensions.y - 1, z : 0 .. Dimensions.z - 1] :
      LET members == CellMembers(grid, cell)
      IN  /\ {members[i] : i \in DOMAIN members} = {body \in Body : cell \in CoveredCells(positions[body])}
          /\ \A i, j \in DOMAIN members : i < j => members[i] < members[j]

(* The capacity set aside for the index, eight cells a body, is never      *)
(* outgrown, so no rebuild allocates: a body is narrower than a cell       *)
(* (SpatialIndex::new, and the resize of rebuild).                         *)
MembersFitCapacity == Len(grid.members) <= 8 * Bodies

(* Nobody disappears for nothing: whoever is hidden has a strictly nearer  *)
(* body in plain sight, so the nearest body is never hidden and no two     *)
(* bodies hide one another (blocks_ray).                                   *)
HiddenBehindSeen ==
  stage = "built" =>
    \A pair \in hidden : \E body \in Body \ {pair[1]} :
      /\ Depth2(positions, pair[1], body) < Depth2(positions, pair[1], pair[2])
      /\ <<pair[1], body>> \notin hidden

(* Every walk ends, whatever the bodies' places: none goes round, past its *)
(* target or to a standstill (the loop of SpatialIndex::occluded has no    *)
(* bound of its own, and expects an axis to cross).                        *)
WalkEnds == (stage = "walking") ~> (stage \in {"clear", "indexed"})

(* Why it ends: short of the target's cell some axis is due to cross, the  *)
(* nearest boundary of an axis not yet there, and whatever crosses comes   *)
(* nearer to that cell while no axis leaves it again                       *)
(* (SpatialIndex::occluded expects "at least one traversal axis").         *)
Distance(from, to) == AbsOf(to.x - from.x) + AbsOf(to.y - from.y) + AbsOf(to.z - from.z)
StepComesNearer ==
  (stage = "walking" /\ ~AtEnd) =>
    Distance(WalkStep(walk).cell, walk.end) < Distance(walk.cell, walk.end)

=============================================================================
