------------------------------ MODULE MCSolver ------------------------------
(* Two teams of a goalie and two fielders, two playbooks between which     *)
(* every verb, target and form is assigned to some squad.                  *)
EXTENDS Solver, TLC

Template(x, y, z) == [position |-> Vec(x, y, z), spin |-> Vec(y, x, 1)]

NodeOf(cycle, goalieVerb, a, b, c) ==
  [cycle |-> cycle, goalieVerb |-> goalieVerb, verbs |-> (0 :> a @@ 1 :> b @@ 2 :> c),
   goalie |-> Template(-90, 3, 5), fielder |-> Template(-20, 13, 5)]

(* A squad that only some nodes fill, and goalies that share a squad. *)
SquadPlays ==
  (0 :> NodeOf(<<0, 1>>, Entry("Guard", "GameBall", Point),
               EntryOnSquad("Pursue", 1, Point), EntryOnSquad("Pursue", 0, Point),
               EntryOnSquad("Pursue", 0, Point))) @@
  (1 :> NodeOf(<<1, 1, 2>>, EntryOnSquad("Clear", 1, Arc(5)),
               Entry("Align", "Slot", Wedge(7)), EntryOnSquad("Pursue", 1, Point),
               EntryOnSquad("Pursue", 0, Point)))

(* The ball, the goals and the bodies nearest. *)
BallPlays ==
  (0 :> NodeOf(<<0, 1, 2>>, Entry("Guard", "GameBall", Point),
               Entry("Align", "Slot", Point), Entry("Drive", "GameBall", Point),
               Entry("Clear", "GameBall", Point))) @@
  (1 :> NodeOf(<<2, 1, 1>>, Entry("Sweep", "NearestToMe", Pod(1, 2, 9)),
               Entry("Align", "Slot", Point), Entry("Jam", "NearestToMe", Arc(9)),
               Entry("Align", "Slot", Point))) @@
  (2 :> NodeOf(<<2, 1, 2>>, Entry("Block", "NearestOpponent", Point),
               Entry("Align", "Slot", Point), Entry("Lead", "GameBall", Point),
               Entry("Cover", "GameBall", Point))) @@
  (3 :> NodeOf(<<0, 1, 1>>, Entry("Zone", "OpponentGoal", Point),
               Entry("Align", "Slot", Point), Entry("Zone", "NearestOpponent", Pod(2, 1, 5)),
               Entry("Align", "Slot", Point)))

Line(team, local) ==
  LET v == CASE local = 0 -> Vec(-95, 0, 5)
             [] local = 1 -> Vec(-33, 17, 5)
             [] local = 2 -> Vec(-40, -21, 5)
  IN  HalfTurn(v, team)

Kick == [body \in Body |-> IF body = Ball THEN Vec(0, 0, 5) ELSE Line(body[1], body[2])]

(* In front of one goal, and a place that rounds. *)
FewPlaces == [body \in Body |-> {Vec(88, -7, 5), Vec(-17, 18, 21)}]

(* The ball before one goal or behind the other; each player somewhere of  *)
(* its own, one of them twice over.                                        *)
OwnPlaces ==
  [body \in Body |->
    CASE body = Ball                   -> {Vec(88, -30, 5), Vec(-101, 7, 5)}
      [] body = <<"zero", 1>>          -> {Vec(-17, 18, 21), Vec(60, -30, 5)}
      [] OTHER -> {Vec(Mirror(body[1]) + 11 * body[2], 7 - 13 * body[2], 5)}]

TwoPlaybooks == {SquadPlays, BallPlays}
PlacesOf == SquadPlays :> FewPlaces @@ BallPlays :> OwnPlaces

=============================================================================
