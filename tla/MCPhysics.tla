------------------------------ MODULE MCPhysics ------------------------------
(* One player a team and the ball, sixteen raw words to the unit, in an     *)
(* arena six units long; a substep of a quarter of the unit of time.        *)
EXTENDS Physics, TLC

OneEach == 0 :> "zero" @@ 1 :> "one" @@ 2 :> "none"

SmallConfig ==
  [gravity |-> 12, magnus |-> 4, drag |-> 15, retention |-> 14, traction |-> 4, gain |-> 8,
   jump |-> 40, boost |-> 24, air |-> 20, restitution |-> 8, cap |-> 44, sweeps |-> 2]
SmallArena ==
  [halfLength |-> 48, halfWidth |-> 36, height |-> 44, goalHalfWidth |-> 12, goalHeight |-> 24]

At(position, velocity, spin) == [position |-> position, velocity |-> velocity, spin |-> spin]
Still(position) == At(position, Zero, Zero)
Set(a, b, c) == 0 :> a @@ 1 :> b @@ 2 :> c
OnFloor(a, b, c) ==
  [bodies |-> Set(a, b, c), contacts |-> [id \in Body |-> DefaultContact]]

Away == Still(Vec(-30, 20, 8))
Yonder == Still(Vec(30, -24, 8))

(* The ball: at the centre, rolling into a mouth, past a post, under the   *)
(* bar, in a mouth at rest, spinning; players beside it, on it, on one     *)
(* another, out of its way, at a wall and on it.                           *)
MCKickoffs ==
  { [OnFloor(Away, Still(Vec(40, -3, 20)), Still(Vec(0, 20, 8)))
       EXCEPT !.contacts[1].normal = Negated(UnitX)],
    OnFloor(Away, Yonder, Still(Vec(0, 0, 8))),
    OnFloor(Away, Yonder, At(Vec(46, 3, 8), Vec(40, 2, 0), Zero)),
    OnFloor(Away, Yonder, At(Vec(-46, 10, 10), Vec(-36, 12, 0), Vec(8, 0, 30))),
    OnFloor(Away, Yonder, At(Vec(-40, 0, 26), Vec(-40, 0, 0), Zero)),
    OnFloor(Away, Yonder, At(Vec(52, 11, 8), Vec(4, 24, 4), Zero)),
    OnFloor(Still(Vec(-13, 3, 8)), Yonder, Still(Vec(0, 0, 8))),
    OnFloor(Still(Vec(-13, 3, 8)), Still(Vec(14, -2, 8)), Still(Vec(0, 0, 8))),
    OnFloor(Away, Still(Vec(38, 0, 8)), At(Vec(48, 5, 8), Vec(6, 2, 0), Zero)),
    OnFloor(At(Vec(-40, -28, 8), Vec(-40, -40, 0), Vec(0, 20, 0)), Yonder, Still(Vec(0, 0, 8))),
    OnFloor(At(Vec(-4, 0, 8), Vec(10, 0, 0), Zero), Still(Vec(6, 0, 8)), Still(Vec(6, 28, 8))),
    OnFloor(Still(Vec(0, 0, 8)), Yonder, Still(Vec(0, 0, 8))),
    OnFloor(At(Vec(-20, 0, 8), Vec(44, 0, 0), Zero), Yonder, At(Vec(0, 0, 8), Vec(20, 0, 0), Zero)) }

(* Two players arrive at the ball from one side, neither touching it yet   *)
(* nor the other player: team zero's will hit it full, team one's graze it. *)
SameSide ==
  {OnFloor(At(Vec(-17, -7, 8), Vec(40, 0, 0), Zero), At(Vec(-15, 9, 8), Vec(12, 0, 0), Zero),
           Still(Vec(0, 0, 8)))}

(* One team's next goal counts, the other's no longer does. *)
MCStanding == [team \in Team |-> IF team = "zero" THEN 0 ELSE ScoreLimit]

Command(residual, jump, boost, cue, hit) ==
  [residual |-> residual, jump |-> jump, boost |-> boost, cue |-> cue, hit |-> hit]
Idle == Command(Zero, FALSE, FALSE, FALSE, <<0, 0>>)
Pairing(a, b) == Set(a, b, Idle)
Every == Command(Vec(5, -7, 3), TRUE, TRUE, TRUE, <<6, -3>>)
MCCommands ==
  {Pairing(a, b) : a \in {Idle, Every, Command(Vec(0, 9, 0), FALSE, TRUE, FALSE, <<0, 0>>)},
                   b \in {Idle, Every, Command(Zero, FALSE, FALSE, TRUE, <<0, 0>>)}}
NoCommands == {Pairing(Idle, Idle)}

Wish(x, y, z) == [position |-> Vec(x, y, z), spin |-> Vec(4, 0, -4)]
MCIntents == {Set(Wish(0, 0, 8), Wish(0, 0, 8), Wish(0, 0, 0)),
              Set(Wish(48, 7, 8), Wish(-48, -3, 20), Wish(0, 0, 0))}
=============================================================================
