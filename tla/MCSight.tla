------------------------------- MODULE MCSight ------------------------------
(* Three bodies on a grid of 3 x 2 x 2 cells, four raw units to a cell.    *)
EXTENDS Sight, TLC

Teams3 == 0 :> "zero" @@ 1 :> "one" @@ 2 :> "none"
Grid322 == [x |-> 3, y |-> 2, z |-> 2]
Corner == Vec(-4, -4, 0)
SmallArena == [halfLength |-> 6, halfWidth |-> 4, height |-> 8]

Pose(desired, velocity, normal) == [desired |-> desired, velocity |-> velocity, normal |-> normal]

(* Each stands where it wants to be in some placement: the first is then   *)
(* on its way nowhere, the second travels along a wall.                    *)
Undecided ==
  {0 :> Pose(Vec(0, 0, 4), Zero, UnitZ) @@ 1 :> Pose(Vec(4, 0, 6), Vec(-3, 5, 0), UnitX)
     @@ 2 :> Pose(Zero, Zero, UnitZ)}

Stand(a, b, c) == 0 :> a @@ 1 :> b @@ 2 :> c

(* The observer in one place of each kind: inside a cell, on a face, on an *)
(* edge, on a corner, off the grid.  The others all over the floor.        *)
AcrossFloor ==
  {Stand(a, Vec(bx, by, bz), Vec(cx, cy, 2)) :
     a \in {Vec(-3, -3, 1), Vec(0, -2, 2), Vec(0, 0, 4), Vec(-7, 1, 2), Vec(9, 5, 9)},
     bx \in {-4, 2, 4, 8}, by \in {-6, 0, 3}, bz \in {2, 6},
     cx \in {-5, -3, -1, 0, 1, 3, 4, 6, 8}, cy \in {-4, -1, 0, 3}}

(* The objective goes to one corner of the grid, a player to one place. *)
Moved == 0 :> {} @@ 1 :> {Vec(2, 0, 6)} @@ 2 :> {Vec(0, 0, 2)}

=============================================================================
