---------------------------- MODULE SolverProofs ----------------------------
(***************************************************************************)
(* What a resolution of the call sheets promises for every roster, every   *)
(* playbook and every place of the bodies.  Coordinates keep to a cube in  *)
(* which sums of a few vectors are exact; there every operator of the      *)
(* solver turns with its operands, and the mean of a squad lies among its  *)
(* members.                                                                *)
(***************************************************************************)
EXTENDS Solver, FixedPointProofs

LEMMA RoomFacts ==
  /\ One \in Nat \ {0, 1} /\ WordLimit \in Nat \ {0} /\ Room \in Nat
  /\ 16 * Room <= WordLimit /\ 3 * One <= Room /\ CoverGap = 3 * One
  /\ HalfLength \in 0 .. Room /\ GoalHalfWidth \in 0 .. Room /\ GoalHeight \in 0 .. Room
<1>1. One \in Nat \ {0, 1} /\ WordLimit \in Nat \ {0}
  BY FixedAssumption
<1>2. Room \in Nat /\ 16 * Room <= WordLimit
  BY <1>1 DEF Room
<1> QED
  BY <1>1, <1>2, RoomAssumption DEF CoverGap

LEMMA RosterFacts ==
  /\ Cardinality(Roster) \in Nat \ {0}
  /\ Roster = 0 .. Cardinality(Roster) - 1
  /\ \A local \in Roster : local \in Nat
  /\ Goalie \in Roster
<1>1. Cardinality(Roster) \in Nat
  BY RosterAssumption, FS_CardinalityType
<1>2. Roster = 0 .. Cardinality(Roster) - 1 /\ Goalie \in Roster
  BY RosterAssumption
<1> QED
  BY <1>1, <1>2

LEMMA RoomIsCube ==
  ASSUME NEW place
  PROVE  InRoom(place) <=> InCube(place, Room)
<1>1. ASSUME InRoom(place) PROVE InCube(place, Room)
  BY <1>1 DEF InRoom, InCube, Vec
<1>2. ASSUME InCube(place, Room) PROVE InRoom(place)
  BY <1>2 DEF InRoom, InCube, Vec
<1> QED
  BY <1>1, <1>2

-----------------------------------------------------------------------------

(* A vector in the plane the turn leaves alone changes one sign. *)
LEMMA FlatTurns ==
  ASSUME NEW v, IsVector(v), v.y = 0
  PROVE  Turned(v) = Vec(-v.x, v.y, v.z)
<1>1. Turned(v) = Vec(-v.x, -v.y, v.z)
  BY TurnedChangesSigns
<1> DEFINE b == v.y
<1>2. b + b = 0 /\ b \in Int
  BY DEF IsVector
<1> HIDE DEF b
<1>3. -b = b
  BY <1>2
<1> USE DEF b
<1> QED
  BY <1>1, <1>3

(* The teams' frames are each other's turned. *)
LEMMA Mirrors ==
  ASSUME NEW team \in Team
  PROVE  /\ Opponent(team) \in Team /\ Opponent(Opponent(team)) = team
         /\ AttackAxis(Opponent(team)) = Turned(AttackAxis(team))
         /\ InCube(AttackAxis(team), One)
         /\ Mirror(team) = IF team = "zero" THEN One ELSE -One
<1>1. One \in Nat
  BY FixedAssumption
<1>2. Opponent(team) \in Team /\ Opponent(Opponent(team)) = team
  BY DEF Team, Opponent
<1>3. Mirror(team) = IF team = "zero" THEN One ELSE -One
  BY DEF Mirror, AttackAxis, UnitX, Vec
<1>4. InCube(AttackAxis("zero"), One) /\ InCube(AttackAxis("one"), One)
  BY <1>1 DEF InCube, AttackAxis, UnitX, Vec
<1>5. IsVector(AttackAxis("zero"))
  BY <1>1, <1>4, CubesHoldVectors
<1>6. Turned(AttackAxis("zero")) = AttackAxis("one")
  <2>1. Turned(AttackAxis("zero")) = Vec(-One, 0, 0)
    BY <1>5, FlatTurns DEF AttackAxis, UnitX, Vec
  <2> QED
    BY <2>1 DEF AttackAxis
<1>7. Turned(AttackAxis("one")) = AttackAxis("zero")
  BY <1>5, <1>6, TurnedTwice
<1> QED
  BY <1>2, <1>3, <1>4, <1>6, <1>7 DEF Team, Opponent

(* A template stands in one team's frame as it is and turned in the other. *)
LEMMA TemplatesTurn ==
  ASSUME NEW team \in Team, NEW v, InCube(v, Room)
  PROVE  /\ HalfTurn(v, Opponent(team)) = Turned(HalfTurn(v, team))
         /\ InCube(HalfTurn(v, team), Room)
<1>1. One \in Nat /\ Room \in Nat
  BY RoomFacts
<1>2. IsVector(v) /\ InCube(Turned(v), Room) /\ v = Vec(v.x, v.y, v.z)
  BY <1>1, CubesHoldVectors DEF InCube
<1>3. HalfTurn(v, "zero") = v
  BY <1>2, Mirrors, ProductWithOne DEF HalfTurn, IsVector, Team
<1>4. HalfTurn(v, "one") = Turned(v)
  BY Mirrors DEF HalfTurn, Turned, Team
<1>5. Turned(Turned(v)) = v
  BY <1>2, TurnedTwice
<1> QED
  BY <1>2, <1>3, <1>4, <1>5 DEF Team, Opponent

LEMMA GoalsTurn ==
  ASSUME NEW team \in Team
  PROVE  /\ OwnGoal(Opponent(team)) = Turned(OwnGoal(team))
         /\ InCube(OwnGoal(team), Room)
         /\ OwnGoal(team).x = IF team = "zero" THEN -HalfLength ELSE HalfLength
<1> DEFINE height == QMul(GoalHeight, Half)
<1>1. One \in Nat \ {0} /\ Room \in Nat /\ HalfLength \in 0 .. Room /\ GoalHeight \in 0 .. Room
  BY RoomFacts
<1>2. height \in -Room .. Room
  <2>1. Half \in 0 .. One
    BY <1>1 DEF Half
  <2>2. QMul(Half, GoalHeight) \in -GoalHeight .. GoalHeight
    BY <1>1, <2>1, UnitProduct DEF AbsOf
  <2>3. Half * GoalHeight = GoalHeight * Half
    BY <1>1, <2>1
  <2> QED
    BY <1>1, <2>2, <2>3 DEF QMul
<1> HIDE DEF height
<1>3. QMul(HalfLength, One) = HalfLength /\ QMul(HalfLength, -One) = -HalfLength
  BY <1>1, ProductWithOne
<1>4. OwnGoal("zero") = Vec(-HalfLength, 0, height) /\ OwnGoal("one") = Vec(HalfLength, 0, height)
  <2>1. -(-HalfLength) = HalfLength
    BY <1>1
  <2> QED
    BY <1>3, <2>1, Mirrors DEF OwnGoal, height, Team
<1>5. InCube(OwnGoal("zero"), Room) /\ InCube(OwnGoal("one"), Room)
  BY <1>1, <1>2, <1>4 DEF InCube, Vec
<1>6. IsVector(OwnGoal("zero")) /\ IsVector(OwnGoal("one"))
  BY <1>1, <1>5, CubesHoldVectors
<1>7. Turned(OwnGoal("zero")) = OwnGoal("one") /\ Turned(OwnGoal("one")) = OwnGoal("zero")
  <2>1. -(-HalfLength) = HalfLength
    BY <1>1
  <2> QED
    BY <1>4, <1>6, <2>1, FlatTurns DEF Vec
<1> QED
  BY <1>4, <1>5, <1>7 DEF Team, Opponent, Vec

-----------------------------------------------------------------------------

(* Bodies somewhere on the pitch, and the same pitch turned half way round *)
(* with the teams exchanged.                                               *)
Placed(at) == \A body \in Body : InCube(at[body], Room)
Images(image, at) == \A body \in Body : image[body] = Turned(at[Counterpart(body)])

LEMMA Squads ==
  ASSUME NEW team \in Team
  PROVE  /\ {team} \X Roster \subseteq Player
         /\ \A body \in {team} \X Roster : /\ body = <<team, body[2]>> /\ body[2] \in Roster
                                          /\ body # Ball
         /\ \A local \in Roster : <<team, local>> \in {team} \X Roster
<1>1. team # "ball"
  BY DEF Team
<1> QED
  BY <1>1 DEF Player, Ball

LEMMA Counterparts ==
  /\ Counterpart(Ball) = Ball
  /\ \A body \in Body : Counterpart(body) \in Body /\ Counterpart(Counterpart(body)) = body
  /\ \A team \in Team : \A body \in {team} \X Roster :
       Counterpart(body) = <<Opponent(team), body[2]>>
  /\ \A me \in Player : /\ Counterpart(me) \in Player
                        /\ Counterpart(me) = <<Opponent(me[1]), me[2]>>
                        /\ me[1] \in Team /\ me[2] \in Roster /\ me = <<me[1], me[2]>>
<1>1. \A team \in Team : Opponent(team) \in Team /\ Opponent(Opponent(team)) = team
  BY Mirrors
<1>2. \A me \in Player : me[1] \in Team /\ me[2] \in Roster /\ me = <<me[1], me[2]>> /\ me # Ball
  BY DEF Player, Team, Ball
<1>3. \A me \in Player : /\ Counterpart(me) \in Player
                        /\ Counterpart(me) = <<Opponent(me[1]), me[2]>>
  BY <1>1, <1>2 DEF Counterpart, Player
<1>4. \A me \in Player : Counterpart(Counterpart(me)) = me
  BY <1>1, <1>2, <1>3
<1>5. Counterpart(Ball) = Ball
  BY DEF Counterpart
<1>6. \A team \in Team : \A body \in {team} \X Roster :
        Counterpart(body) = <<Opponent(team), body[2]>>
  BY <1>3, Squads
<1> QED
  BY <1>2, <1>3, <1>4, <1>5, <1>6 DEF Body

-----------------------------------------------------------------------------

LEMMA SeparationsTurn ==
  ASSUME NEW v, InCube(v, Room), NEW w, InCube(w, Room)
  PROVE  LET offset == Minus(v, w)
             turned == Minus(Turned(v), Turned(w))
         IN  RawDot(offset, offset) \in Nat /\ RawDot(turned, turned) = RawDot(offset, offset)
<1>1. Room \in Nat /\ Room + Room < WordLimit /\ Room + Room \in Nat
  BY RoomFacts
<1>2. InCube(Minus(v, w), Room + Room) /\ Minus(Turned(v), Turned(w)) = Turned(Minus(v, w))
  BY <1>1, SumsAreExact, SumsTurnInCubes
<1>3. IsVector(Minus(v, w))
  BY <1>1, <1>2, CubesHoldVectors
<1> QED
  BY <1>2, <1>3, LengthIsFloor, LengthsTurn

(* The body a choice of the nearest falls on: nobody of its team is nearer *)
(* and nobody as near comes before it.                                     *)
Wins(at, team, reference, body) ==
  \A other \in {team} \X Roster :
    LET near == Separation(at, body, reference)
        far  == Separation(at, other, reference)
    IN  near < far \/ (near = far /\ body[2] <= other[2])

LEMMA SomebodyWins ==
  ASSUME NEW at, Placed(at), NEW team \in Team, NEW reference, InCube(reference, Room)
  PROVE  /\ \E body \in {team} \X Roster : Wins(at, team, reference, body)
         /\ \A body, other \in {team} \X Roster :
              Wins(at, team, reference, body) /\ Wins(at, team, reference, other) => body = other
<1> DEFINE squad == {team} \X Roster
           Far(body) == Separation(at, body, reference)
           separations == {Far(body) : body \in squad}
<1>1. \A body \in squad : Far(body) \in Nat
  <2>1. \A body \in squad : InCube(at[body], Room)
    BY Squads DEF Placed, Body
  <2> QED
    BY <2>1, SeparationsTurn DEF Separation
<1>2. /\ \A body \in squad : body = <<team, body[2]>> /\ body[2] \in Roster /\ body[2] \in Nat
      /\ \A local \in Roster : <<team, local>> \in squad
      /\ squad # {}
  BY Squads, RosterFacts
<1>4. \A body : Wins(at, team, reference, body) <=>
        \A other \in squad : Far(body) < Far(other) \/ (Far(body) = Far(other) /\ body[2] <= other[2])
  BY DEF Wins
<1> HIDE DEF squad, Far
<1>5. PICK least \in separations : \A far \in separations : least <= far
  <2>1. separations \in SUBSET Nat /\ separations # {}
    BY <1>1, <1>2
  <2> QED
    BY <2>1, LeastElement
<1> DEFINE locals == {local \in Roster : Far(<<team, local>>) = least}
<1>6. PICK local \in locals : \A other \in locals : local <= other
  <2>1. locals \in SUBSET Nat
    BY RosterFacts
  <2>2. locals # {}
    BY <1>2, <1>5
  <2> QED
    BY <2>1, <2>2, LeastElement
<1> DEFINE winner == <<team, local>>
<1>7. winner \in squad /\ winner[2] = local /\ Far(winner) = least
  BY <1>2, <1>6
<1>8. Wins(at, team, reference, winner)
  <2> SUFFICES ASSUME NEW other \in squad
               PROVE  Far(winner) < Far(other) \/ (Far(winner) = Far(other) /\ winner[2] <= other[2])
    BY <1>4
  <2>1. least <= Far(other) /\ Far(other) \in Nat /\ least \in Nat
    BY <1>1, <1>5, <1>7
  <2>2. CASE Far(other) = least
    <3>1. other[2] \in locals
      BY <1>2, <2>2
    <3> QED
      BY <1>6, <1>7, <2>2, <3>1
  <2>3. CASE Far(other) # least
    BY <1>7, <2>1, <2>3
  <2> QED
    BY <2>2, <2>3
<1>9. ASSUME NEW body \in squad, NEW other \in squad,
             Wins(at, team, reference, body), Wins(at, team, reference, other)
      PROVE  body = other
  <2>1. Far(body) \in Nat /\ Far(other) \in Nat /\ body[2] \in Nat /\ other[2] \in Nat
    BY <1>1, <1>2
  <2>2. /\ Far(body) < Far(other) \/ (Far(body) = Far(other) /\ body[2] <= other[2])
        /\ Far(other) < Far(body) \/ (Far(other) = Far(body) /\ other[2] <= body[2])
    BY <1>4, <1>9
  <2>3. body[2] = other[2]
    BY <2>1, <2>2
  <2> QED
    BY <1>2, <2>3
<1> QED
  BY <1>7, <1>8, <1>9 DEF squad

LEMMA NearestIs ==
  ASSUME NEW at, Placed(at), NEW team \in Team, NEW reference, InCube(reference, Room),
         NEW body \in {team} \X Roster, Wins(at, team, reference, body)
  PROVE  Nearest(at, team, reference) = at[body]
<1> DEFINE chosen == CHOOSE other \in {team} \X Roster : Wins(at, team, reference, other)
<1>1. chosen \in {team} \X Roster /\ Wins(at, team, reference, chosen)
  OBVIOUS
<1>2. chosen = body
  <2> HIDE DEF chosen
  <2> QED
    BY <1>1, SomebodyWins
<1>3. Nearest(at, team, reference) = at[chosen]
  BY DEF Nearest, Wins
<1> QED
  BY <1>2, <1>3

(* The nearest body is on the pitch, and in the turned world it is the     *)
(* turned one: ties fall alike, since the order within a team is its own.  *)
LEMMA NearestTurns ==
  ASSUME NEW at, Placed(at), NEW image, Placed(image), Images(image, at),
         NEW team \in Team, NEW reference, InCube(reference, Room)
  PROVE  /\ InCube(Nearest(at, team, reference), Room)
         /\ Nearest(image, Opponent(team), Turned(reference)) = Turned(Nearest(at, team, reference))
<1> DEFINE other == Opponent(team)
<1>1. PICK body \in {team} \X Roster : Wins(at, team, reference, body)
  BY SomebodyWins
<1>2. Nearest(at, team, reference) = at[body] /\ InCube(at[body], Room)
  BY <1>1, NearestIs, Squads DEF Placed, Body
<1>3. Room \in Nat /\ InCube(Turned(reference), Room) /\ other \in Team /\ Opponent(other) = team
  BY RoomFacts, CubesHoldVectors, Mirrors
<1> HIDE DEF other
<1>4. ASSUME NEW one \in {other} \X Roster
      PROVE  /\ <<team, one[2]>> \in {team} \X Roster
             /\ image[one] = Turned(at[<<team, one[2]>>])
             /\ Separation(image, one, Turned(reference)) = Separation(at, <<team, one[2]>>, reference)
  <2>1. one \in Body /\ one[2] \in Roster /\ <<team, one[2]>> \in {team} \X Roster
        /\ Counterpart(one) = <<team, one[2]>>
    BY <1>3, Squads, Counterparts DEF Body
  <2>2. image[one] = Turned(at[<<team, one[2]>>])
    BY <2>1 DEF Images
  <2>3. InCube(at[<<team, one[2]>>], Room)
    BY <2>1, Squads DEF Placed, Body
  <2> QED
    BY <2>1, <2>2, <2>3, SeparationsTurn DEF Separation
<1> DEFINE mate == <<other, body[2]>>
<1>5. mate \in {other} \X Roster /\ mate[2] = body[2] /\ body = <<team, body[2]>>
  BY <1>3, Squads
<1> HIDE DEF mate
<1>6. Wins(image, other, Turned(reference), mate)
  <2> SUFFICES ASSUME NEW one \in {other} \X Roster
               PROVE  LET near == Separation(image, mate, Turned(reference))
                          far  == Separation(image, one, Turned(reference))
                      IN  near < far \/ (near = far /\ mate[2] <= one[2])
    BY DEF Wins
  <2> DEFINE twin == <<team, one[2]>>
  <2>1. twin \in {team} \X Roster /\ twin[2] = one[2]
    BY <1>4
  <2>2. LET near == Separation(at, body, reference)
            far  == Separation(at, twin, reference)
        IN  near < far \/ (near = far /\ body[2] <= twin[2])
    BY <1>1, <2>1 DEF Wins
  <2>3. /\ Separation(image, mate, Turned(reference)) = Separation(at, body, reference)
        /\ Separation(image, one, Turned(reference)) = Separation(at, twin, reference)
    BY <1>4, <1>5
  <2> QED
    BY <1>5, <2>1, <2>2, <2>3
<1>7. Nearest(image, other, Turned(reference)) = image[mate]
  BY <1>3, <1>5, <1>6, NearestIs
<1>8. image[mate] = Turned(at[body])
  BY <1>4, <1>5
<1> QED
  BY <1>2, <1>7, <1>8 DEF other

-----------------------------------------------------------------------------

(* A running sum over the local IDs, and the terms a squad contributes.    *)
Tally(f, terms) ==
  f \in [Nat -> Int] /\ f[0] = 0 /\ \A n \in Nat : f[n + 1] = f[n] + terms[n]
Terms(at, members, team, axis) ==
  [n \in Nat |-> IF <<team, n>> \in members THEN at[<<team, n>>][axis] ELSE 0]

LEMMA TalliesExist ==
  ASSUME NEW terms \in [Nat -> Int]
  PROVE  \E f : Tally(f, terms)
<1> DEFINE step == [n \in Nat |-> [sum \in Int |-> sum + terms[n]]]
<1>1. step \in [Nat -> [Int -> Int]]
  OBVIOUS
<1>2. \A n \in Nat, sum \in Int : step[n][sum] = sum + terms[n]
  OBVIOUS
<1> HIDE DEF step
<1>3. PICK f : Iterates(f, Int, 0, step)
  <2>1. 0 \in Int
    OBVIOUS
  <2> QED
    BY <1>1, <2>1, Recursion
<1>4. Tally(f, terms)
  BY <1>2, <1>3 DEF Iterates, Tally
<1> QED
  BY <1>4

LEMMA TermsAreCoordinates ==
  ASSUME NEW at, Placed(at), NEW team \in Team, NEW members \in SUBSET ({team} \X Roster),
         NEW axis \in {"x", "y", "z"}
  PROVE  /\ \A body \in members : at[body][axis] \in -Room .. Room /\ at[body][axis] \in Int
         /\ Terms(at, members, team, axis) \in [Nat -> Int]
<1>1. Room \in Nat
  BY RoomFacts
<1>2. \A body \in members : body \in Body
  BY Squads DEF Body
<1>3. \A body \in members : at[body][axis] \in -Room .. Room
  BY <1>2 DEF Placed, InCube
<1>4. \A body \in members : at[body][axis] \in Int
  BY <1>1, <1>3
<1> QED
  BY <1>3, <1>4 DEF Terms

LEMMA SumIsTally ==
  ASSUME NEW at, Placed(at), NEW team \in Team, NEW members \in SUBSET ({team} \X Roster),
         NEW axis \in {"x", "y", "z"}, NEW f, Tally(f, Terms(at, members, team, axis))
  PROVE  SumOver(at, members, axis) = f[Cardinality(Roster)]
<1> DEFINE size == Cardinality(Roster)
           Term(n) == IF \E body \in members : body[2] = n - 1
                      THEN at[CHOOSE body \in members : body[2] = n - 1][axis] ELSE 0
           Equation(g) == g = [n \in 0 .. size |-> IF n = 0 THEN 0 ELSE g[n - 1] + Term(n)]
           summed == [n \in 0 .. size |-> f[n]]
           upto == CHOOSE g : Equation(g)
           terms == Terms(at, members, team, axis)
<1>1. size \in Nat \ {0}
  BY RosterFacts
<1>2. SumOver(at, members, axis) = upto[size]
  BY DEF SumOver
<1>3. ASSUME NEW n \in 1 .. size PROVE Term(n) = terms[n - 1]
  <2>1. n - 1 \in Nat
    OBVIOUS
  <2>2. terms[n - 1] = IF <<team, n - 1>> \in members THEN at[<<team, n - 1>>][axis] ELSE 0
    BY <2>1 DEF Terms
  <2>3. \A body \in members : body[2] = n - 1 <=> body = <<team, n - 1>>
    BY Squads
  <2>4. CASE <<team, n - 1>> \in members
    <3>1. (CHOOSE body \in members : body[2] = n - 1) = <<team, n - 1>>
      BY <2>3, <2>4
    <3> QED
      BY <2>2, <2>3, <2>4, <3>1
  <2>5. CASE <<team, n - 1>> \notin members
    BY <2>2, <2>3, <2>5
  <2> QED
    BY <2>4, <2>5
<1> HIDE DEF Term, terms, size
<1>4. f[0] = 0 /\ \A n \in Nat : f[n + 1] = f[n] + terms[n]
  BY DEF Tally, terms
<1>5. Equation(summed)
  <2>1. ASSUME NEW n \in 0 .. size
        PROVE  summed[n] = IF n = 0 THEN 0 ELSE summed[n - 1] + Term(n)
    <3>1. CASE n = 0
      BY <1>1, <1>4, <3>1
    <3>2. CASE n # 0
      <4>1. n \in 1 .. size /\ n - 1 \in Nat /\ n - 1 \in 0 .. size /\ (n - 1) + 1 = n
        BY <1>1, <3>2
      <4>2. f[n] = f[n - 1] + terms[n - 1]
        BY <1>4, <4>1
      <4> QED
        BY <1>3, <3>2, <4>1, <4>2
    <3> QED
      BY <3>1, <3>2
  <2> QED
    BY <2>1
<1>6. Equation(upto)
  <2> HIDE DEF summed
  <2> QED
    BY <1>5
<1> HIDE DEF upto
<1>7. \A n \in 0 .. size : upto[n] = IF n = 0 THEN 0 ELSE upto[n - 1] + Term(n)
  BY <1>6
<1> DEFINE S == {n \in Nat : n <= size => upto[n] = f[n]}
<1>8. 0 \in S
  BY <1>1, <1>4, <1>7
<1>9. ASSUME NEW n \in Nat, n \in S PROVE n + 1 \in S
  <2> SUFFICES ASSUME n + 1 <= size PROVE upto[n + 1] = f[n + 1]
    OBVIOUS
  <2>1. n + 1 \in 0 .. size /\ n + 1 \in 1 .. size /\ n + 1 # 0 /\ (n + 1) - 1 = n /\ n <= size
    BY <1>1
  <2>2. upto[n + 1] = upto[n] + Term(n + 1)
    BY <1>7, <2>1
  <2>3. Term(n + 1) = terms[n]
    BY <1>3, <2>1
  <2> QED
    BY <1>4, <1>9, <2>1, <2>2, <2>3
<1> HIDE DEF S
<1>10. Nat \subseteq S
  BY <1>8, <1>9, SetInduction
<1> USE DEF S
<1>11. upto[size] = f[size]
  BY <1>1, <1>10
<1> QED
  BY <1>2, <1>11 DEF size

LEMMA SquadIsFinite ==
  ASSUME NEW team \in Team, NEW members \in SUBSET ({team} \X Roster)
  PROVE  /\ IsFiniteSet(members) /\ Cardinality(members) \in Nat
         /\ members # {} => Cardinality(members) # 0
<1>1. IsFiniteSet({team}) /\ IsFiniteSet(Roster)
  BY RosterAssumption, FS_Singleton
<1>2. IsFiniteSet({team} \X Roster)
  BY <1>1, FS_Product
<1>3. IsFiniteSet(members)
  BY <1>2, FS_Subset
<1> QED
  BY <1>3, FS_CardinalityType, FS_EmptySet

Bounded(at, members, axis, low, high) ==
  \A body \in members : low <= at[body][axis] /\ at[body][axis] <= high

(* The sum of a squad's coordinates is as many times between two bounds as *)
(* the squad has members, if every one of them is: nobody of the roster is *)
(* left out or counted twice.                                              *)
LEMMA SumBetween ==
  ASSUME NEW at, Placed(at), NEW team \in Team, NEW members \in SUBSET ({team} \X Roster),
         NEW axis \in {"x", "y", "z"}, NEW low \in Int, NEW high \in Int,
         Bounded(at, members, axis, low, high)
  PROVE  /\ SumOver(at, members, axis) \in Int
         /\ Cardinality(members) * low <= SumOver(at, members, axis)
         /\ SumOver(at, members, axis) <= Cardinality(members) * high
<1> DEFINE terms == Terms(at, members, team, axis)
           size == Cardinality(Roster)
           First(n) == {body \in members : body[2] < n}
           count(n) == Cardinality(First(n))
<1>1. terms \in [Nat -> Int]
  BY TermsAreCoordinates
<1>2. PICK f : Tally(f, terms)
  BY <1>1, TalliesExist
<1>3. SumOver(at, members, axis) = f[size] /\ size \in Nat
  BY <1>2, SumIsTally, RosterFacts
<1>4. f \in [Nat -> Int] /\ f[0] = 0 /\ \A n \in Nat : f[n + 1] = f[n] + terms[n]
  BY <1>2 DEF Tally
<1>5. \A body \in members : body = <<team, body[2]>> /\ body[2] \in Nat /\ body[2] < size
  BY Squads, RosterFacts
<1>6. \A n \in Nat : terms[n] = IF <<team, n>> \in members THEN at[<<team, n>>][axis] ELSE 0
  BY DEF Terms
<1>7. IsFiniteSet(members)
  BY SquadIsFinite
<1> HIDE DEF terms, size
<1>8. ASSUME NEW n \in Nat
      PROVE  /\ IsFiniteSet(First(n)) /\ count(n) \in Nat
             /\ count(n + 1) = IF <<team, n>> \in members THEN count(n) + 1 ELSE count(n)
  <2>1. IsFiniteSet(First(n)) /\ count(n) \in Nat
    BY <1>7, FS_Subset, FS_CardinalityType
  <2>2. CASE <<team, n>> \in members
    <3>1. First(n + 1) = First(n) \cup {<<team, n>>}
      BY <1>5, <2>2
    <3>2. <<team, n>> \notin First(n)
      OBVIOUS
    <3> HIDE DEF First
    <3> QED
      BY <2>1, <2>2, <3>1, <3>2, FS_AddElement
  <2>3. CASE <<team, n>> \notin members
    <3>1. First(n + 1) = First(n)
      BY <1>5, <2>3
    <3> QED
      BY <2>1, <2>3, <3>1
  <2> QED
    BY <2>1, <2>2, <2>3
<1>9. count(0) = 0
  <2>1. First(0) = {}
    BY <1>5
  <2> QED
    BY <2>1, FS_EmptySet
<1>10. First(size) = members
  BY <1>3, <1>5
<1> HIDE DEF First
<1> DEFINE S == {n \in Nat : count(n) * low <= f[n] /\ f[n] <= count(n) * high}
<1>11. 0 \in S
  BY <1>4, <1>9
<1>12. ASSUME NEW n \in Nat, n \in S PROVE n + 1 \in S
  <2>1. count(n) \in Nat /\ f[n] \in Int /\ f[n + 1] = f[n] + terms[n]
    BY <1>4, <1>8
  <2>2. CASE <<team, n>> \in members
    <3> DEFINE term == at[<<team, n>>][axis]
               c == count(n)
    <3>1. terms[n] = term /\ low <= term /\ term <= high /\ term \in Int
      BY <1>6, <2>2, TermsAreCoordinates DEF Bounded
    <3>2. count(n + 1) = c + 1
      BY <1>8, <2>2
    <3>3. c \in Nat /\ f[n + 1] = f[n] + term /\ c * low <= f[n] /\ f[n] <= c * high
      BY <1>12, <2>1, <3>1
    <3> HIDE DEF term, c
    <3>4. (c + 1) * low = c * low + low /\ (c + 1) * high = c * high + high
      BY <3>3
    <3> DEFINE a == c * low
               b == c * high
    <3>5. a \in Int /\ b \in Int
      BY <3>3
    <3>6. (c + 1) * low <= f[n + 1] /\ f[n + 1] <= (c + 1) * high
      <4>1. a <= f[n] /\ f[n] <= b /\ (c + 1) * low = a + low /\ (c + 1) * high = b + high
        BY <3>3, <3>4
      <4> HIDE DEF a, b
      <4> QED
        BY <2>1, <3>1, <3>3, <3>5, <4>1
    <3> QED
      BY <3>2, <3>6
  <2>3. CASE <<team, n>> \notin members
    <3>1. terms[n] = 0 /\ count(n + 1) = count(n)
      BY <1>6, <1>8, <2>3
    <3> QED
      BY <1>12, <2>1, <3>1
  <2> QED
    BY <2>2, <2>3
<1> HIDE DEF S
<1>13. Nat \subseteq S
  BY <1>11, <1>12, SetInduction
<1> USE DEF S
<1>14. count(size) * low <= f[size] /\ f[size] <= count(size) * high
  BY <1>3, <1>13
<1> QED
  BY <1>3, <1>4, <1>10, <1>14

(* The members of a squad and of its counterpart in the turned world. *)
Mates(mates, members, team) ==
  \A local \in Roster : <<Opponent(team), local>> \in mates <=> <<team, local>> \in members

LEMMA MatesAreAsMany ==
  ASSUME NEW team \in Team, NEW members \in SUBSET ({team} \X Roster),
         NEW mates \in SUBSET ({Opponent(team)} \X Roster), Mates(mates, members, team)
  PROVE  Cardinality(mates) = Cardinality(members)
<1> DEFINE other == Opponent(team)
           mate == [body \in members |-> <<other, body[2]>>]
<1>1. other \in Team
  BY Mirrors
<1> HIDE DEF other
<1>2. /\ \A body \in members : body = <<team, body[2]>> /\ body[2] \in Roster
      /\ \A body \in mates : body = <<other, body[2]>> /\ body[2] \in Roster
  BY <1>1, Squads DEF other
<1>3. \A local \in Roster : <<other, local>> \in mates <=> <<team, local>> \in members
  BY DEF Mates, other
<1>4. mate \in [members -> mates]
  BY <1>2, <1>3
<1>5. \A body, one \in members : mate[body] = mate[one] => body = one
  <2> SUFFICES ASSUME NEW body \in members, NEW one \in members, mate[body] = mate[one]
               PROVE  body = one
    OBVIOUS
  <2>1. <<other, body[2]>> = <<other, one[2]>>
    OBVIOUS
  <2> QED
    BY <1>2, <2>1
<1>6. \A one \in mates : \E body \in members : mate[body] = one
  <2> SUFFICES ASSUME NEW one \in mates PROVE \E body \in members : mate[body] = one
    OBVIOUS
  <2>1. <<team, one[2]>> \in members /\ mate[<<team, one[2]>>] = one
    BY <1>2, <1>3
  <2> QED
    BY <2>1
<1> HIDE DEF mate
<1>7. mate \in Bijection(members, mates)
  BY <1>4, <1>5, <1>6 DEF Bijection, Injection, Surjection, IsInjective
<1>8. ExistsBijection(members, mates)
  BY <1>7 DEF ExistsBijection
<1> QED
  BY <1>8, SquadIsFinite, FS_Bijection

LEMMA SumsTurn ==
  ASSUME NEW at, Placed(at), NEW image, Placed(image), Images(image, at),
         NEW team \in Team, NEW members \in SUBSET ({team} \X Roster),
         NEW mates \in SUBSET ({Opponent(team)} \X Roster), Mates(mates, members, team)
  PROVE  /\ SumOver(image, mates, "x") = -SumOver(at, members, "x")
         /\ SumOver(image, mates, "y") = -SumOver(at, members, "y")
         /\ SumOver(image, mates, "z") = SumOver(at, members, "z")
<1> DEFINE other == Opponent(team)
           size == Cardinality(Roster)
<1>1. other \in Team /\ Opponent(other) = team /\ size \in Nat
  BY Mirrors, RosterFacts
<1>2. \A n \in Nat : <<other, n>> \in mates <=> <<team, n>> \in members
  <2>1. \A n \in Nat : <<other, n>> \in mates \/ <<team, n>> \in members => n \in Roster
    BY Squads
  <2> QED
    BY <2>1 DEF Mates
<1>3. ASSUME NEW n \in Nat, <<team, n>> \in members
      PROVE  /\ image[<<other, n>>].x = -at[<<team, n>>].x
             /\ image[<<other, n>>].y = -at[<<team, n>>].y
             /\ image[<<other, n>>].z = at[<<team, n>>].z
  <2>1. <<other, n>> \in mates /\ n \in Roster
    BY <1>2, <1>3
  <2>2. /\ <<other, n>> \in Body /\ Counterpart(<<other, n>>) = <<team, n>>
        /\ <<team, n>> \in Body
    BY <1>1, <1>3, <2>1, Squads, Counterparts DEF Body
  <2>3. image[<<other, n>>] = Turned(at[<<team, n>>]) /\ InCube(at[<<team, n>>], Room)
    BY <2>2 DEF Images, Placed
  <2>4. IsVector(at[<<team, n>>])
    BY <2>3, RoomFacts, CubesHoldVectors
  <2> QED
    BY <2>3, <2>4, TurnedChangesSigns DEF Vec
<1>4. ASSUME NEW axis \in {"x", "y"} PROVE SumOver(image, mates, axis) = -SumOver(at, members, axis)
  <2> DEFINE terms == Terms(at, members, team, axis)
             turned == Terms(image, mates, other, axis)
  <2>1. terms \in [Nat -> Int] /\ turned \in [Nat -> Int]
    BY <1>1, TermsAreCoordinates
  <2>2. PICK f : Tally(f, terms)
    BY <2>1, TalliesExist
  <2>3. \A n \in Nat : turned[n] = -terms[n]
    <3> SUFFICES ASSUME NEW n \in Nat PROVE turned[n] = -terms[n]
      OBVIOUS
    <3>1. CASE <<team, n>> \in members
      <4>1. turned[n] = image[<<other, n>>][axis] /\ terms[n] = at[<<team, n>>][axis]
        BY <1>2, <3>1 DEF Terms
      <4> HIDE DEF terms, turned
      <4> QED
        BY <1>3, <3>1, <4>1
    <3>2. CASE <<team, n>> \notin members
      <4>1. turned[n] = 0 /\ terms[n] = 0
        BY <1>2, <3>2 DEF Terms
      <4> HIDE DEF terms, turned
      <4>2. terms[n] \in Int /\ turned[n] + terms[n] = 0 /\ turned[n] \in Int
        BY <2>1, <4>1
      <4> QED
        BY <4>2
    <3> QED
      BY <3>1, <3>2
  <2> HIDE DEF terms, turned
  <2> DEFINE g == [n \in Nat |-> -f[n]]
  <2>4. f \in [Nat -> Int] /\ f[0] = 0 /\ \A n \in Nat : f[n + 1] = f[n] + terms[n]
    BY <2>2 DEF Tally
  <2>5. g \in [Nat -> Int] /\ \A n \in Nat : g[n] = -f[n]
    BY <2>4
  <2> HIDE DEF g
  <2>6. \A n \in Nat : g[n + 1] = g[n] + turned[n]
    <3> SUFFICES ASSUME NEW n \in Nat PROVE g[n + 1] = g[n] + turned[n]
      OBVIOUS
    <3>1. /\ f[n + 1] = f[n] + terms[n] /\ g[n] = -f[n] /\ g[n + 1] = -f[n + 1]
          /\ turned[n] = -terms[n] /\ f[n] \in Int /\ terms[n] \in Int
      BY <2>1, <2>3, <2>4, <2>5
    <3> QED
      BY <3>1
  <2>7. g[0] = 0
    <3>1. g[0] + f[0] = 0 /\ g[0] \in Int
      BY <2>4, <2>5
    <3> QED
      BY <2>4, <3>1
  <2>8. Tally(g, turned)
    BY <2>5, <2>6, <2>7 DEF Tally
  <2>9. SumOver(at, members, axis) = f[size] /\ SumOver(image, mates, axis) = g[size]
    BY <1>1, <2>2, <2>8, SumIsTally DEF terms, turned
  <2> QED
    BY <1>1, <2>5, <2>9
<1>5. SumOver(image, mates, "z") = SumOver(at, members, "z")
  <2> DEFINE terms == Terms(at, members, team, "z")
             turned == Terms(image, mates, other, "z")
  <2>1. turned = terms
    BY <1>2, <1>3 DEF Terms
  <2>2. terms \in [Nat -> Int]
    BY TermsAreCoordinates
  <2> HIDE DEF terms, turned
  <2>3. PICK f : Tally(f, terms)
    BY <2>2, TalliesExist
  <2>4. SumOver(at, members, "z") = f[size] /\ SumOver(image, mates, "z") = f[size]
    BY <1>1, <2>1, <2>3, SumIsTally DEF terms, turned
  <2> QED
    BY <2>4
<1> QED
  BY <1>4, <1>5

(* A squad's centroid is on the pitch, among its members in every          *)
(* coordinate, and turns with them.                                        *)
LEMMA CentroidBetween ==
  ASSUME NEW at, Placed(at), NEW assigned, NEW team \in Team, NEW squad,
         Members(assigned, team, squad) # {},
         NEW axis \in {"x", "y", "z"}, NEW low \in Int, NEW high \in Int,
         Bounded(at, Members(assigned, team, squad), axis, low, high)
  PROVE  SquadCentroid(at, assigned, team, squad)[axis] \in low .. high
<1> DEFINE members == Members(assigned, team, squad)
           count == Cardinality(members)
           sum == SumOver(at, members, axis)
<1>1. members \in SUBSET ({team} \X Roster)
  BY DEF Members
<1>2. count \in Nat \ {0}
  BY <1>1, SquadIsFinite
<1>3. sum \in Int /\ count * low <= sum /\ sum <= count * high
  BY <1>1, SumBetween
<1>4. SquadCentroid(at, assigned, team, squad)[axis] = Truncated(sum, count)
  BY DEF SquadCentroid, Vec
<1> HIDE DEF sum, count
<1> QED
  BY <1>2, <1>3, <1>4, MeanBetween

LEMMA CentroidTurns ==
  ASSUME NEW at, Placed(at), NEW image, Placed(image), Images(image, at),
         NEW team \in Team, NEW assigned, NEW exchanged, NEW squad,
         \A body \in Player : exchanged[body] = assigned[Counterpart(body)]
  PROVE  LET members == Members(assigned, team, squad)
             mates == Members(exchanged, Opponent(team), squad)
             centroid == SquadCentroid(at, assigned, team, squad)
         IN  /\ mates = {} <=> members = {}
             /\ members # {} =>
                  /\ InCube(centroid, Room)
                  /\ SquadCentroid(image, exchanged, Opponent(team), squad) = Turned(centroid)
<1> DEFINE other == Opponent(team)
           members == Members(assigned, team, squad)
           mates == Members(exchanged, other, squad)
           centroid == SquadCentroid(at, assigned, team, squad)
<1>1. other \in Team /\ Opponent(other) = team
  BY Mirrors
<1>2. members \in SUBSET ({team} \X Roster) /\ mates \in SUBSET ({other} \X Roster)
  BY DEF Members
<1>3. \A body \in members : InCube(at[body], Room)
  BY <1>2, Squads DEF Placed, Body
<1>4. ASSUME NEW local \in Roster PROVE <<other, local>> \in mates <=> <<team, local>> \in members
  <2>1. /\ <<other, local>> \in {other} \X Roster /\ <<team, local>> \in {team} \X Roster
        /\ <<other, local>> \in Player /\ Counterpart(<<other, local>>) = <<team, local>>
    BY <1>1, Squads, Counterparts
  <2> QED
    BY <2>1 DEF Members
<1>5. Mates(mates, members, team)
  BY <1>4 DEF Mates
<1>6. mates = {} <=> members = {}
  <2>1. \A body \in members : body = <<team, body[2]>> /\ body[2] \in Roster
    BY <1>2, Squads
  <2>2. \A body \in mates : body = <<other, body[2]>> /\ body[2] \in Roster
    BY <1>1, <1>2, Squads
  <2> HIDE DEF members, mates, other
  <2> QED
    BY <1>4, <2>1, <2>2
<1>7. ASSUME members # {}
      PROVE  InCube(centroid, Room) /\ SquadCentroid(image, exchanged, other, squad) = Turned(centroid)
  <2>1. Room \in Nat /\ -Room \in Int
    BY RoomFacts
  <2>2. ASSUME NEW axis \in {"x", "y", "z"} PROVE centroid[axis] \in -Room .. Room
    <3>1. \A body \in members : at[body][axis] \in -Room .. Room
      BY <1>3 DEF InCube
    <3> DEFINE low == -Room
    <3>2. low \in Int /\ Bounded(at, members, axis, low, Room)
      BY <2>1, <3>1 DEF Bounded
    <3> HIDE DEF low
    <3>3. centroid[axis] \in low .. Room
      BY <1>7, <2>1, <3>2, CentroidBetween
    <3> QED
      BY <3>3 DEF low
  <2>3. centroid = Vec(centroid.x, centroid.y, centroid.z)
    BY DEF SquadCentroid, Vec
  <2>4. InCube(centroid, Room)
    BY <2>2, <2>3 DEF InCube
  <2> DEFINE count == Cardinality(members)
             a == SumOver(at, members, "x")
             b == SumOver(at, members, "y")
             c == SumOver(at, members, "z")
  <2>5. centroid = Vec(Truncated(a, count), Truncated(b, count), Truncated(c, count))
    BY DEF SquadCentroid
  <2>6. SquadCentroid(image, exchanged, other, squad)
          = Vec(Truncated(-a, count), Truncated(-b, count), Truncated(c, count))
    <3>1. SquadCentroid(image, exchanged, other, squad)
            = Vec(Truncated(SumOver(image, mates, "x"), Cardinality(mates)),
                  Truncated(SumOver(image, mates, "y"), Cardinality(mates)),
                  Truncated(SumOver(image, mates, "z"), Cardinality(mates)))
      BY DEF SquadCentroid
    <3> HIDE DEF members, mates
    <3>2. /\ SumOver(image, mates, "x") = -a /\ SumOver(image, mates, "y") = -b
          /\ SumOver(image, mates, "z") = c
      BY <1>2, <1>5, SumsTurn
    <3>3. Cardinality(mates) = count
      BY <1>2, <1>5, MatesAreAsMany
    <3> HIDE DEF a, b, c, count
    <3> QED
      BY <3>1, <3>2, <3>3
  <2>7. count \in Nat \ {0}
    BY <1>2, <1>7, SquadIsFinite
  <2>8. a \in Int /\ b \in Int
    <3> SUFFICES ASSUME NEW axis \in {"x", "y", "z"} PROVE SumOver(at, members, axis) \in Int
      OBVIOUS
    <3>1. \A body \in members : at[body][axis] \in -Room .. Room
      BY <1>3 DEF InCube
    <3> DEFINE low == -Room
    <3>2. low \in Int /\ Bounded(at, members, axis, low, Room)
      BY <2>1, <3>1 DEF Bounded
    <3> HIDE DEF low, members
    <3> QED
      BY <1>2, <2>1, <3>2, SumBetween
  <2> HIDE DEF a, b, c, count, centroid
  <2>9. IsVector(centroid)
    BY <2>1, <2>4, CubesHoldVectors
  <2>10. Truncated(-a, count) = -Truncated(a, count) /\ Truncated(-b, count) = -Truncated(b, count)
    BY <2>7, <2>8, TruncatedIsOdd
  <2>11. Turned(centroid) = Vec(-Truncated(a, count), -Truncated(b, count), Truncated(c, count))
    BY <2>5, <2>9, TurnedChangesSigns DEF Vec
  <2> QED
    BY <2>4, <2>6, <2>10, <2>11
<1> QED
  BY <1>6, <1>7

-----------------------------------------------------------------------------

(* The squads of the world turned half way round, the teams exchanged. *)
Exchanged(exchanged, assigned) ==
  \A body \in Player : exchanged[body] = assigned[Counterpart(body)]

(* Whatever a target names is on the pitch and turns with it. *)
LEMMA TargetsTurn ==
  ASSUME NEW at, Placed(at), NEW image, Placed(image), Images(image, at),
         NEW assigned, NEW exchanged, Exchanged(exchanged, assigned),
         NEW me \in Player, NEW entry, entry.target \in Targets,
         NEW slot, InCube(slot, Room)
  PROVE  LET target == TargetOf(entry, at, assigned, me, slot)
         IN  /\ InCube(target, Room)
             /\ TargetOf(entry, image, exchanged, Counterpart(me), Turned(slot)) = Turned(target)
<1> DEFINE team == me[1]
           other == Opponent(team)
           target == TargetOf(entry, at, assigned, me, slot)
           turned == TargetOf(entry, image, exchanged, Counterpart(me), Turned(slot))
<1>1. /\ team \in Team /\ other \in Team /\ Opponent(other) = team
      /\ Counterpart(me)[1] = other /\ Counterpart(me) \in Player
      /\ Counterpart(Counterpart(me)) = me /\ Counterpart(Ball) = Ball
      /\ me \in Body /\ Counterpart(me) \in Body /\ Ball \in Body
  BY Counterparts, Mirrors DEF Body
<1>2. /\ InCube(at[Ball], Room) /\ InCube(at[me], Room)
      /\ image[Ball] = Turned(at[Ball]) /\ image[Counterpart(me)] = Turned(at[me])
  BY <1>1 DEF Placed, Images
<1> HIDE DEF team, other
<1>3. CASE entry.target = "GameBall"
  BY <1>2, <1>3 DEF TargetOf
<1>4. CASE entry.target = "OwnGoal"
  <2>1. target = OwnGoal(team) /\ turned = OwnGoal(other)
    BY <1>1, <1>4 DEF TargetOf, team
  <2> QED
    BY <1>1, <2>1, GoalsTurn DEF other
<1>5. CASE entry.target = "OpponentGoal"
  <2>1. target = OwnGoal(other) /\ turned = OwnGoal(Opponent(other))
    BY <1>1, <1>5 DEF TargetOf, team, other
  <2> QED
    BY <1>1, <2>1, GoalsTurn
<1>6. CASE entry.target = "Squad"
  <2> DEFINE members == Members(assigned, team, entry.squad)
             mates == Members(exchanged, other, entry.squad)
             centroid == SquadCentroid(at, assigned, team, entry.squad)
             theirs == SquadCentroid(image, exchanged, other, entry.squad)
  <2>1. /\ target = IF members = {} THEN slot ELSE centroid
        /\ turned = IF mates = {} THEN Turned(slot) ELSE theirs
    BY <1>1, <1>6 DEF TargetOf, team
  <2>2. /\ mates = {} <=> members = {}
        /\ members # {} => InCube(centroid, Room) /\ theirs = Turned(centroid)
    BY <1>1, CentroidTurns DEF Exchanged, other
  <2> HIDE DEF target, turned, members, mates, centroid, theirs
  <2> QED
    BY <2>1, <2>2 DEF target, turned
<1>7. CASE entry.target = "NearestOpponent"
  <2>1. target = Nearest(at, other, at[Ball]) /\ turned = Nearest(image, Opponent(other), image[Ball])
    BY <1>1, <1>7 DEF TargetOf, team, other
  <2> QED
    BY <1>1, <1>2, <2>1, NearestTurns
<1>8. CASE entry.target = "NearestToMe"
  <2>1. /\ target = Nearest(at, other, at[me])
        /\ turned = Nearest(image, Opponent(other), image[Counterpart(me)])
    BY <1>1, <1>8 DEF TargetOf, team, other
  <2> QED
    BY <1>1, <1>2, <2>1, NearestTurns
<1>9. CASE entry.target = "Slot"
  BY <1>9 DEF TargetOf
<1> QED
  BY <1>3, <1>4, <1>5, <1>6, <1>7, <1>8, <1>9 DEF Targets

-----------------------------------------------------------------------------

(* Half a vector, and a coordinate between the posts, turn with it.        *)
LEMMA HalvesTurn ==
  ASSUME NEW r \in Nat, NEW a \in -r .. r
  PROVE  /\ QMul(a, Half) \in -r .. r /\ QMul(a, Half) \in Int
         /\ QMul(-a, Half) = -QMul(a, Half)
<1>1. One \in Nat \ {0} /\ Half \in -One .. One /\ Half \in Int /\ a \in Int
  BY RoomFacts DEF Half
<1>2. QMul(Half, a) \in -AbsOf(a) .. AbsOf(a) /\ AbsOf(a) \in 0 .. r
  BY <1>1, UnitProduct DEF AbsOf
<1>3. QMul(Half, a) = QMul(a, Half)
  <2>1. Half * a = a * Half
    BY <1>1
  <2> QED
    BY <2>1 DEF QMul
<1> DEFINE m == AbsOf(a)
           p == QMul(a, Half)
<1>4. p \in -m .. m /\ m \in 0 .. r
  BY <1>2, <1>3
<1>5. p \in -r .. r /\ p \in Int
  <2> HIDE DEF m, p
  <2> QED
    BY <1>4
<1>6. QMul(-a, Half) = -QMul(a, Half)
  BY <1>1, ProductIsOdd
<1> QED
  BY <1>5, <1>6

LEMMA HalvedVectors ==
  ASSUME NEW r \in Nat, NEW v, InCube(v, r)
  PROVE  /\ InCube(Scaled(v, Half), r)
         /\ Scaled(Turned(v), Half) = Turned(Scaled(v, Half))
<1>1. IsVector(v) /\ v.x \in -r .. r /\ v.y \in -r .. r /\ v.z \in -r .. r
  BY CubesHoldVectors DEF InCube
<1>2. InCube(Scaled(v, Half), r)
  BY <1>1, HalvesTurn DEF Scaled, InCube, Vec
<1>3. IsVector(Scaled(v, Half))
  BY <1>2, CubesHoldVectors
<1>4. Turned(Scaled(v, Half)) = Vec(-QMul(v.x, Half), -QMul(v.y, Half), QMul(v.z, Half))
  BY <1>3, TurnedChangesSigns DEF Scaled, Vec
<1>5. Scaled(Turned(v), Half) = Vec(QMul(-v.x, Half), QMul(-v.y, Half), QMul(v.z, Half))
  BY <1>1, TurnedChangesSigns DEF Scaled, Vec
<1> QED
  BY <1>1, <1>2, <1>4, <1>5, HalvesTurn

LEMMA MidwayTurns ==
  ASSUME NEW a \in -Room .. Room, NEW b \in -Room .. Room
  PROVE  /\ Halfway(a, b) \in -(2 * Room) .. 2 * Room
         /\ Halfway(-a, -b) = -Halfway(a, b)
<1>1. Room \in Nat /\ WordLimit \in Nat /\ 2 * Room < WordLimit
  BY RoomFacts
<1> DEFINE sum == a + b
<1>2. sum \in -(2 * Room) .. 2 * Room /\ 2 * Room \in Nat /\ sum \in Int /\ -a + -b = -sum
  BY <1>1
<1>3. sum \in Word /\ -sum \in Word
  BY <1>1, <1>2 DEF Word
<1>4. Halfway(a, b) = QMul(sum, Half) /\ Halfway(-a, -b) = QMul(-sum, Half)
  BY <1>2, <1>3, WordsDoNotWrap DEF Halfway
<1> HIDE DEF sum
<1> QED
  BY <1>2, <1>4, HalvesTurn

LEMMA ClampsTurn ==
  ASSUME NEW a \in Int, NEW bound \in Nat
  PROVE  /\ ClampTo(a, -bound, bound) \in -bound .. bound
         /\ ClampTo(-a, -bound, bound) = -ClampTo(a, -bound, bound)
  BY DEF ClampTo

(* A point a few units along a direction. *)
LEMMA StandoffsTurn ==
  ASSUME NEW target, InCube(target, Room), NEW axis, IsVector(axis),
         NEW standoff \in 0 .. Room
  PROVE  /\ InCube(Toward(target, axis, standoff), 2 * Room)
         /\ Toward(Turned(target), Turned(axis), standoff) = Turned(Toward(target, axis, standoff))
         /\ InCube(Behind(target, axis), 2 * Room)
         /\ Behind(Turned(target), Turned(axis)) = Turned(Behind(target, axis))
<1> DEFINE unit == Normalized(axis)
           offset == Scaled(unit, standoff)
<1>1. /\ Room \in Nat /\ WordLimit \in Nat /\ One \in Nat /\ One <= Room
      /\ Room + Room < WordLimit /\ Room + Room = 2 * Room /\ 2 * Room \in Nat
      /\ standoff \in Int /\ AbsOf(standoff) = standoff /\ standoff \in Nat /\ standoff <= Room
  BY RoomFacts DEF AbsOf
<1>2. InCube(unit, One) /\ Normalized(Turned(axis)) = Turned(unit)
  BY DirectionsAreUnits, DirectionsTurn
<1> HIDE DEF unit
<1>3. InCube(offset, standoff) /\ Scaled(Turned(unit), standoff) = Turned(offset)
  BY <1>1, <1>2, ScaledUnits
<1> HIDE DEF offset
<1>4. InCube(offset, Room) /\ InCube(unit, Room)
  BY <1>1, <1>2, <1>3, CubesHoldVectors
<1>5. /\ InCube(Plus(target, offset), 2 * Room) /\ InCube(Minus(target, unit), 2 * Room)
      /\ Plus(Turned(target), Turned(offset)) = Turned(Plus(target, offset))
      /\ Minus(Turned(target), Turned(unit)) = Turned(Minus(target, unit))
  BY <1>1, <1>4, SumsAreExact, SumsTurnInCubes
<1> QED
  BY <1>2, <1>3, <1>5 DEF Toward, Behind, offset, unit

LEMMA OffsetsTurn ==
  ASSUME NEW v, InCube(v, Room), NEW w, InCube(w, Room)
  PROVE  /\ InCube(Minus(v, w), 2 * Room) /\ IsVector(Minus(v, w))
         /\ Minus(Turned(v), Turned(w)) = Turned(Minus(v, w))
         /\ InCube(Plus(v, w), 2 * Room)
         /\ Plus(Turned(v), Turned(w)) = Turned(Plus(v, w))
<1>1. Room \in Nat /\ Room + Room < WordLimit /\ Room + Room = 2 * Room /\ 2 * Room \in Nat
  BY RoomFacts
<1> QED
  BY <1>1, SumsAreExact, SumsTurnInCubes, CubesHoldVectors

LEMMA NoVectorIsNoAxis ==
  ASSUME NEW v, IsVector(v)
  PROVE  v # NoAxis
<1>1. v = Vec(v.x, v.y, v.z)
  BY DEF IsVector
<1>2. DOMAIN Vec(v.x, v.y, v.z) = {"x", "y", "z"}
  BY DEF Vec
<1>3. DOMAIN NoAxis = {"none"}
  BY DEF NoAxis
<1> QED
  BY <1>1, <1>2, <1>3

(* An aim near the pitch, with its axis if a verb constructs one, and the  *)
(* aim of the counterpart in the turned world.                             *)
Aims(aimed) ==
  /\ InCube(aimed.aim, 2 * Room)
  /\ aimed.axis = NoAxis \/ InCube(aimed.axis, 2 * Room)
TurnsInto(aimed, turned) ==
  /\ turned.aim = Turned(aimed.aim)
  /\ turned.axis = IF aimed.axis = NoAxis THEN NoAxis ELSE Turned(aimed.axis)

(* Every verb aims at a point near the pitch and turns with its operands:  *)
(* no verb turns world geometry twice or prefers one end.                  *)
LEMMA AimsTurn ==
  ASSUME NEW at, Placed(at), NEW image, Placed(image), Images(image, at),
         NEW me \in Player, NEW verb \in Verbs,
         NEW target, InCube(target, Room), NEW slot, InCube(slot, Room)
  PROVE  LET aimed == AimPoint(verb, target, slot, at, me)
             turned == AimPoint(verb, Turned(target), Turned(slot), image, Counterpart(me))
         IN  Aims(aimed) /\ TurnsInto(aimed, turned)
<1> DEFINE team == me[1]
           other == Opponent(team)
           own == OwnGoal(team)
           their == OwnGoal(other)
           aimed == AimPoint(verb, target, slot, at, me)
           turned == AimPoint(verb, Turned(target), Turned(slot), image, Counterpart(me))
           Aimed(aim, axis) == [aim |-> aim, axis |-> axis]
<1>1. /\ team \in Team /\ other \in Team /\ Opponent(other) = team
      /\ Counterpart(me)[1] = other /\ Counterpart(me) \in Player
      /\ Counterpart(Counterpart(me)) = me /\ Counterpart(Ball) = Ball
      /\ me \in Body /\ Counterpart(me) \in Body /\ Ball \in Body
  BY Counterparts, Mirrors DEF Body
<1>2. /\ InCube(at[Ball], Room) /\ InCube(at[me], Room)
      /\ image[Ball] = Turned(at[Ball]) /\ image[Counterpart(me)] = Turned(at[me])
  BY <1>1 DEF Placed, Images
<1>3. /\ InCube(own, Room) /\ InCube(their, Room)
      /\ OwnGoal(other) = Turned(own) /\ OwnGoal(Opponent(other)) = Turned(their)
  BY <1>1, GoalsTurn
<1> HIDE DEF own, their
<1>4. /\ Room \in Nat /\ 2 * Room \in Nat /\ CoverGap \in 0 .. Room /\ One \in 0 .. Room
  BY RoomFacts
<1>5. ASSUME NEW aim, InCube(aim, 2 * Room), NEW axis, InCube(axis, 2 * Room),
             aimed = Aimed(aim, axis), turned = Aimed(Turned(aim), Turned(axis))
      PROVE  Aims(aimed) /\ TurnsInto(aimed, turned)
  <2>1. axis # NoAxis
    BY <1>4, <1>5, CubesHoldVectors, NoVectorIsNoAxis
  <2> HIDE DEF aimed, turned
  <2> QED
    BY <1>5, <2>1 DEF Aims, TurnsInto
<1>6. ASSUME NEW aim, InCube(aim, 2 * Room),
             aimed = Aimed(aim, NoAxis), turned = Aimed(Turned(aim), NoAxis)
      PROVE  Aims(aimed) /\ TurnsInto(aimed, turned)
  <2> HIDE DEF aimed, turned
  <2> QED
    BY <1>6 DEF Aims, TurnsInto
<1> DEFINE downfield == Minus(their, target)
           goalward == Minus(own, target)
           upfield == Minus(target, own)
<1>7. /\ InCube(downfield, 2 * Room) /\ IsVector(downfield)
      /\ Minus(Turned(their), Turned(target)) = Turned(downfield)
      /\ InCube(goalward, 2 * Room) /\ IsVector(goalward)
      /\ Minus(Turned(own), Turned(target)) = Turned(goalward)
      /\ InCube(upfield, 2 * Room) /\ IsVector(upfield)
      /\ Minus(Turned(target), Turned(own)) = Turned(upfield)
  BY <1>3, OffsetsTurn
<1>8. InCube(target, 2 * Room) /\ InCube(slot, 2 * Room)
  <2>1. Room <= 2 * Room
    BY <1>4
  <2> QED
    BY <1>4, <2>1, CubesHoldVectors
<1> HIDE DEF downfield, goalward, upfield
<1>9. CASE verb = "Align"
  <2>1. aimed = Aimed(slot, NoAxis) /\ turned = Aimed(Turned(slot), NoAxis)
    BY <1>9 DEF AimPoint
  <2> QED
    BY <1>6, <1>8, <2>1
<1>10. CASE verb = "Pursue"
  <2>1. aimed = Aimed(target, NoAxis) /\ turned = Aimed(Turned(target), NoAxis)
    BY <1>10 DEF AimPoint
  <2> QED
    BY <1>6, <1>8, <2>1
<1>11. CASE verb = "Drive"
  <2>1. /\ aimed = Aimed(Behind(target, downfield), downfield)
        /\ turned = Aimed(Behind(Turned(target), Turned(downfield)), Turned(downfield))
    BY <1>1, <1>3, <1>7, <1>11 DEF AimPoint, downfield, their
  <2>2. /\ InCube(Behind(target, downfield), 2 * Room)
        /\ Behind(Turned(target), Turned(downfield)) = Turned(Behind(target, downfield))
    BY <1>4, <1>7, StandoffsTurn
  <2> QED
    BY <1>5, <1>7, <2>1, <2>2
<1>12. CASE verb = "Clear"
  <2>1. /\ aimed = Aimed(Behind(target, upfield), upfield)
        /\ turned = Aimed(Behind(Turned(target), Turned(upfield)), Turned(upfield))
    BY <1>1, <1>3, <1>7, <1>12 DEF AimPoint, upfield, own
  <2>2. /\ InCube(Behind(target, upfield), 2 * Room)
        /\ Behind(Turned(target), Turned(upfield)) = Turned(Behind(target, upfield))
    BY <1>4, <1>7, StandoffsTurn
  <2> QED
    BY <1>5, <1>7, <2>1, <2>2
<1>13. CASE verb = "Cover"
  <2>1. /\ aimed = Aimed(Toward(target, goalward, CoverGap), goalward)
        /\ turned = Aimed(Toward(Turned(target), Turned(goalward), CoverGap), Turned(goalward))
    BY <1>1, <1>3, <1>7, <1>13 DEF AimPoint, goalward, own
  <2>2. /\ InCube(Toward(target, goalward, CoverGap), 2 * Room)
        /\ Toward(Turned(target), Turned(goalward), CoverGap) = Turned(Toward(target, goalward, CoverGap))
    BY <1>4, <1>7, StandoffsTurn
  <2> QED
    BY <1>5, <1>7, <2>1, <2>2
<1>14. CASE verb = "Zone"
  <2> DEFINE between == Plus(target, own)
  <2>1. InCube(between, 2 * Room) /\ Plus(Turned(target), Turned(own)) = Turned(between)
    BY <1>3, OffsetsTurn
  <2>2. /\ aimed = Aimed(Scaled(between, Half), goalward)
        /\ turned = Aimed(Scaled(Turned(between), Half), Turned(goalward))
    BY <1>1, <1>3, <1>7, <1>14, <2>1 DEF AimPoint, goalward, own
  <2> HIDE DEF between
  <2>3. InCube(Scaled(between, Half), 2 * Room) /\ Scaled(Turned(between), Half) = Turned(Scaled(between, Half))
    BY <1>4, <2>1, HalvedVectors
  <2> QED
    BY <1>5, <1>7, <2>2, <2>3
<1>15. CASE verb = "Sweep"
  <2> DEFINE middle == Halfway(target.x, own.x)
             aim == Vec(middle, target.y, target.z)
  <2>1. /\ target.x \in -Room .. Room /\ own.x \in -Room .. Room
        /\ target.y \in -Room .. Room /\ target.z \in -Room .. Room
        /\ IsVector(target) /\ IsVector(own)
    BY <1>3, <1>4, CubesHoldVectors DEF InCube
  <2>2. /\ Turned(target) = Vec(-target.x, -target.y, target.z)
        /\ Turned(own) = Vec(-own.x, -own.y, own.z)
    BY <2>1, TurnedChangesSigns
  <2>3. middle \in -(2 * Room) .. 2 * Room /\ Halfway(-target.x, -own.x) = -middle
    BY <2>1, MidwayTurns
  <2>4. /\ aimed = Aimed(aim, goalward)
        /\ turned = Aimed(Vec(-middle, -target.y, target.z), Turned(goalward))
    <3>1. aimed = Aimed(aim, goalward)
      BY <1>15 DEF AimPoint, goalward, own
    <3>2. turned = Aimed(Vec(Halfway(Turned(target).x, Turned(own).x), Turned(target).y, Turned(target).z),
                         Turned(goalward))
      BY <1>1, <1>3, <1>7, <1>15 DEF AimPoint
    <3>3. /\ Turned(target).x = -target.x /\ Turned(target).y = -target.y
          /\ Turned(target).z = target.z /\ Turned(own).x = -own.x
      BY <2>2 DEF Vec
    <3> QED
      BY <2>3, <3>1, <3>2, <3>3
  <2> HIDE DEF middle
  <2>5. InCube(aim, 2 * Room)
    BY <1>8, <2>3 DEF InCube, Vec
  <2>6. Turned(aim) = Vec(-middle, -target.y, target.z)
    BY <1>4, <2>5, CubesHoldVectors, TurnedChangesSigns DEF Vec
  <2> QED
    BY <1>5, <1>7, <2>4, <2>5, <2>6
<1>16. CASE verb = "Block"
  <2> DEFINE axis == Minus(at[Ball], target)
  <2>1. InCube(axis, 2 * Room) /\ IsVector(axis) /\ Minus(Turned(at[Ball]), Turned(target)) = Turned(axis)
    BY <1>2, OffsetsTurn
  <2>2. /\ aimed = Aimed(Toward(target, axis, CoverGap), axis)
        /\ turned = Aimed(Toward(Turned(target), Turned(axis), CoverGap), Turned(axis))
    BY <1>2, <1>16, <2>1 DEF AimPoint
  <2> HIDE DEF axis
  <2>3. /\ InCube(Toward(target, axis, CoverGap), 2 * Room)
        /\ Toward(Turned(target), Turned(axis), CoverGap) = Turned(Toward(target, axis, CoverGap))
    BY <1>4, <2>1, StandoffsTurn
  <2> QED
    BY <1>5, <2>1, <2>2, <2>3
<1>17. CASE verb = "Lead"
  <2>1. /\ aimed = Aimed(Toward(target, downfield, CoverGap), downfield)
        /\ turned = Aimed(Toward(Turned(target), Turned(downfield), CoverGap), Turned(downfield))
    BY <1>1, <1>3, <1>7, <1>17 DEF AimPoint, downfield, their
  <2>2. /\ InCube(Toward(target, downfield, CoverGap), 2 * Room)
        /\ Toward(Turned(target), Turned(downfield), CoverGap) = Turned(Toward(target, downfield, CoverGap))
    BY <1>4, <1>7, StandoffsTurn
  <2> QED
    BY <1>5, <1>7, <2>1, <2>2
<1>18. CASE verb = "Jam"
  <2> DEFINE axis == Minus(target, at[me])
  <2>1. InCube(axis, 2 * Room) /\ IsVector(axis) /\ Minus(Turned(target), Turned(at[me])) = Turned(axis)
    BY <1>2, OffsetsTurn
  <2>2. /\ aimed = Aimed(Toward(target, axis, One), axis)
        /\ turned = Aimed(Toward(Turned(target), Turned(axis), One), Turned(axis))
    BY <1>2, <1>18, <2>1 DEF AimPoint
  <2> HIDE DEF axis
  <2>3. /\ InCube(Toward(target, axis, One), 2 * Room)
        /\ Toward(Turned(target), Turned(axis), One) = Turned(Toward(target, axis, One))
    BY <1>4, <2>1, StandoffsTurn
  <2> QED
    BY <1>5, <2>1, <2>2, <2>3
<1>19. CASE verb = "Guard"
  <2> DEFINE across == ClampTo(target.y, -GoalHalfWidth, GoalHalfWidth)
             aim == Vec(own.x, across, own.z)
  <2>1. IsVector(target) /\ IsVector(own) /\ InCube(own, 2 * Room) /\ target.y \in Int
    <3>1. Room <= 2 * Room
      BY <1>4
    <3> QED
      BY <1>3, <1>4, <3>1, CubesHoldVectors DEF IsVector
  <2>2. /\ across \in -GoalHalfWidth .. GoalHalfWidth
        /\ ClampTo(-target.y, -GoalHalfWidth, GoalHalfWidth) = -across
    BY SMTT(30), <2>1, RoomFacts, ClampsTurn
  <2>3. across \in -(2 * Room) .. 2 * Room
    <3> HIDE DEF across
    <3> QED
      BY <2>2, RoomFacts
  <2>4. /\ aimed = Aimed(aim, NoAxis)
        /\ turned = Aimed(Vec(-own.x, -across, own.z), NoAxis)
    <3>1. aimed = Aimed(aim, NoAxis)
      BY <1>19 DEF AimPoint, own
    <3>2. turned = Aimed(Vec(Turned(own).x, ClampTo(Turned(target).y, -GoalHalfWidth, GoalHalfWidth),
                             Turned(own).z), NoAxis)
      BY <1>1, <1>3, <1>19 DEF AimPoint
    <3>3. Turned(own).x = -own.x /\ Turned(own).z = own.z /\ Turned(target).y = -target.y
      BY <2>1, TurnedChangesSigns DEF Vec
    <3> QED
      BY <2>2, <3>1, <3>2, <3>3
  <2> HIDE DEF across
  <2>5. InCube(aim, 2 * Room)
    BY <2>1, <2>3 DEF InCube, Vec
  <2>6. Turned(aim) = Vec(-own.x, -across, own.z)
    BY <1>4, <2>5, CubesHoldVectors, TurnedChangesSigns DEF Vec
  <2> QED
    BY <1>6, <2>4, <2>5, <2>6
<1> QED
  BY <1>9, <1>10, <1>11, <1>12, <1>13, <1>14, <1>15, <1>16, <1>17, <1>18, <1>19 DEF Verbs

-----------------------------------------------------------------------------

(* A frame's two directions are unit vectors and turn with the axis. *)
LEMMA FramesTurn ==
  ASSUME NEW team \in Team, NEW aimed, Aims(aimed), NEW turned, TurnsInto(aimed, turned)
  PROVE  LET frame == FormFrame(aimed.axis, team)
             mirrored == FormFrame(turned.axis, Opponent(team))
         IN  /\ InCube(frame.forward, One) /\ InCube(frame.lateral, One)
             /\ mirrored.forward = Turned(frame.forward)
             /\ mirrored.lateral = Turned(frame.lateral)
<1> DEFINE axis == aimed.axis
           image == turned.axis
           forward == FormFrame(axis, team).forward
           lateral == FormFrame(axis, team).lateral
           mirrored == FormFrame(image, Opponent(team))
<1>1. One \in Nat /\ 2 * Room \in Nat
  BY RoomFacts
<1>2. InCube(forward, One) /\ mirrored.forward = Turned(forward)
  <2>1. CASE axis = NoAxis
    <3>1. image = NoAxis
      BY <2>1 DEF TurnsInto
    <3> QED
      BY <2>1, <3>1, Mirrors DEF FormFrame
  <2>2. CASE axis # NoAxis
    <3> DEFINE floor == Vec(axis.x, axis.y, 0)
    <3>1. IsVector(axis) /\ image = Turned(axis)
      BY <1>1, <2>2, CubesHoldVectors DEF Aims, TurnsInto
    <3>2. image = Vec(-axis.x, -axis.y, axis.z) /\ IsVector(image)
      BY <3>1, TurnedChangesSigns
    <3>3. image # NoAxis
      BY <3>2, NoVectorIsNoAxis
    <3>4. IsVector(floor)
      BY <3>1 DEF IsVector, Vec
    <3>5. Vec(image.x, image.y, 0) = Turned(floor)
      BY <3>2, <3>4, TurnedChangesSigns DEF Vec
    <3>6. forward = Normalized(floor) /\ mirrored.forward = Normalized(Turned(floor))
      BY <2>2, <3>3, <3>5 DEF FormFrame
    <3> QED
      BY <3>4, <3>6, DirectionsAreUnits, DirectionsTurn
  <2> QED
    BY <2>1, <2>2
<1>3. /\ lateral = Vec(forward.y, -forward.x, 0)
      /\ mirrored.lateral = Vec(mirrored.forward.y, -mirrored.forward.x, 0)
  BY DEF FormFrame
<1> HIDE DEF forward, lateral, mirrored
<1>4. IsVector(forward) /\ forward.x \in -One .. One /\ forward.y \in -One .. One
  BY <1>1, <1>2, CubesHoldVectors DEF InCube
<1>5. InCube(lateral, One)
  BY <1>1, <1>3, <1>4 DEF InCube, Vec
<1>6. mirrored.lateral = Turned(lateral)
  <2>1. Turned(lateral) = Vec(-forward.y, forward.x, 0)
    <3>1. Turned(lateral) = Vec(-forward.y, -(-forward.x), 0)
      BY <1>1, <1>3, <1>5, CubesHoldVectors, TurnedChangesSigns DEF Vec
    <3>2. -(-forward.x) = forward.x
      BY <1>1, <1>4
    <3> QED
      BY <3>1, <3>2
  <2>2. mirrored.forward = Vec(-forward.x, -forward.y, forward.z)
    BY <1>2, <1>4, TurnedChangesSigns
  <2>3. mirrored.lateral = Vec(-forward.y, -(-forward.x), 0)
    BY <1>3, <2>2 DEF Vec
  <2>4. -(-forward.x) = forward.x
    BY <1>1, <1>4
  <2> QED
    BY <2>1, <2>3, <2>4
<1> QED
  BY <1>2, <1>5, <1>6 DEF forward, lateral, mirrored

(* A slot beside and behind an aim point turns with it. *)
LEMMA SlotsTurn ==
  ASSUME NEW aim, InCube(aim, 2 * Room), NEW frame, NEW mirrored,
         InCube(frame.forward, One), InCube(frame.lateral, One),
         mirrored.forward = Turned(frame.forward), mirrored.lateral = Turned(frame.lateral),
         NEW across \in Int, NEW back \in Int,
         AbsOf(across) + AbsOf(back) <= 12 * Room
  PROVE  /\ InCube(Abreast(aim, frame, across, back), 14 * Room)
         /\ Abreast(Turned(aim), mirrored, across, back) = Turned(Abreast(aim, frame, across, back))
<1> DEFINE r == AbsOf(across)
           s == AbsOf(back)
           beside == Scaled(frame.lateral, across)
           behind == Scaled(frame.forward, back)
           abreast == Plus(aim, beside)
<1>1. Room \in Nat /\ WordLimit \in Nat /\ 14 * Room < WordLimit /\ r \in Nat /\ s \in Nat
  BY RoomFacts DEF AbsOf
<1>2. r + s <= 12 * Room
  OBVIOUS
<1>3. InCube(beside, r) /\ Scaled(mirrored.lateral, across) = Turned(beside)
  BY ScaledUnits
<1>4. InCube(behind, s) /\ Scaled(mirrored.forward, back) = Turned(behind)
  BY ScaledUnits
<1> HIDE DEF r, s, beside, behind
<1>5. 2 * Room \in Nat /\ 2 * Room + r \in Nat /\ 2 * Room + r < WordLimit
      /\ (2 * Room + r) + s < WordLimit /\ (2 * Room + r) + s \in Nat /\ 14 * Room \in Nat
      /\ (2 * Room + r) + s <= 14 * Room
  BY <1>1, <1>2
<1>6. InCube(abreast, 2 * Room + r) /\ Plus(Turned(aim), Turned(beside)) = Turned(abreast)
  BY <1>1, <1>3, <1>5, SumsAreExact, SumsTurnInCubes
<1> HIDE DEF abreast
<1>7. /\ InCube(Minus(abreast, behind), (2 * Room + r) + s)
      /\ Minus(Turned(abreast), Turned(behind)) = Turned(Minus(abreast, behind))
  BY <1>1, <1>4, <1>5, <1>6, SumsAreExact, SumsTurnInCubes
<1>8. InCube(Minus(abreast, behind), 14 * Room)
  BY <1>5, <1>7, CubesHoldVectors
<1> QED
  BY <1>3, <1>4, <1>6, <1>7, <1>8 DEF Abreast, abreast, beside, behind

(* The arc's slot: on the circle about the target through the aim point. *)
LEMMA ArcsTurn ==
  ASSUME NEW aim, InCube(aim, 2 * Room), NEW target, InCube(target, Room),
         NEW frame, NEW mirrored,
         InCube(frame.lateral, One), mirrored.lateral = Turned(frame.lateral),
         NEW form, NEW ordinal, Whole(AlternatingStep(ordinal), form.gap) \in Int,
         2 * AbsOf(Whole(AlternatingStep(ordinal), form.gap)) <= 12 * Room
  PROVE  /\ InCube(ArcSlot(form, frame, aim, target, ordinal), 14 * Room)
         /\ ArcSlot(form, mirrored, Turned(aim), Turned(target), ordinal)
              = Turned(ArcSlot(form, frame, aim, target, ordinal))
<1> DEFINE across == Whole(AlternatingStep(ordinal), form.gap)
           r == AbsOf(across)
           spoke == Minus(aim, target)
           chord == Scaled(frame.lateral, across)
           sum == Plus(spoke, chord)
           unit == Normalized(sum)
           length == Length(spoke)
           reach == Scaled(unit, length)
<1>1. across \in Int /\ r \in Nat /\ 2 * r <= 12 * Room
  BY DEF AbsOf
<1> HIDE DEF across, r
<1>2. /\ Room \in Nat /\ WordLimit \in Nat /\ 14 * Room < WordLimit /\ 16 * Room <= WordLimit
      /\ 2 * Room \in Nat /\ 3 * Room \in Nat /\ 2 * Room + Room = 3 * Room /\ 3 * Room < WordLimit
      /\ 3 * Room + r \in Nat /\ 3 * Room + r < WordLimit
  BY <1>1, RoomFacts
<1>3. InCube(spoke, 3 * Room) /\ Minus(Turned(aim), Turned(target)) = Turned(spoke)
  <2>1. 2 * Room + Room < WordLimit
    BY <1>2
  <2> QED
    BY <1>2, <2>1, SumsAreExact, SumsTurnInCubes
<1>4. InCube(chord, r) /\ Scaled(mirrored.lateral, across) = Turned(chord)
  BY <1>1, ScaledUnits DEF r
<1> HIDE DEF spoke, chord
<1>5. InCube(sum, 3 * Room + r) /\ Plus(Turned(spoke), Turned(chord)) = Turned(sum)
  BY <1>1, <1>2, <1>3, <1>4, SumsAreExact, SumsTurnInCubes
<1> HIDE DEF sum
<1>6. IsVector(sum) /\ IsVector(spoke)
  BY <1>2, <1>3, <1>5, CubesHoldVectors
<1>7. InCube(unit, One) /\ Normalized(Turned(sum)) = Turned(unit)
  BY <1>6, DirectionsAreUnits, DirectionsTurn
<1>8. length \in Nat /\ length <= 9 * Room /\ Length(Turned(spoke)) = length
  <2>1. length \in Nat /\ length <= AbsOf(spoke.x) + AbsOf(spoke.y) + AbsOf(spoke.z)
    BY <1>6, LengthsBound
  <2>2. AbsOf(spoke.x) \in 0 .. 3 * Room /\ AbsOf(spoke.y) \in 0 .. 3 * Room /\ AbsOf(spoke.z) \in 0 .. 3 * Room
    <3>1. spoke.x \in -(3 * Room) .. 3 * Room /\ spoke.y \in -(3 * Room) .. 3 * Room
          /\ spoke.z \in -(3 * Room) .. 3 * Room
      BY <1>3 DEF InCube
    <3> QED
      BY <1>2, <3>1 DEF AbsOf
  <2>3. Length(Turned(spoke)) = length
    BY <1>6, LengthsTurn
  <2> HIDE DEF length
  <2> QED
    BY <1>2, <2>1, <2>2, <2>3
<1> HIDE DEF unit, length
<1>9. InCube(reach, length) /\ Scaled(Turned(unit), length) = Turned(reach)
  <2>1. length \in Int /\ AbsOf(length) = length
    BY <1>8 DEF AbsOf
  <2> QED
    BY <1>7, <2>1, ScaledUnits
<1> HIDE DEF reach
<1>10. /\ InCube(Plus(target, reach), 14 * Room)
       /\ Plus(Turned(target), Turned(reach)) = Turned(Plus(target, reach))
  <2>1. 9 * Room \in Nat /\ Room + 9 * Room < WordLimit /\ Room + 9 * Room \in Nat
        /\ Room + 9 * Room <= 14 * Room /\ 14 * Room \in Nat
    BY <1>2
  <2>2. InCube(reach, 9 * Room)
    BY <1>8, <1>9, <2>1, CubesHoldVectors
  <2>3. /\ InCube(Plus(target, reach), Room + 9 * Room)
        /\ Plus(Turned(target), Turned(reach)) = Turned(Plus(target, reach))
    BY <1>2, <2>1, <2>2, SumsAreExact, SumsTurnInCubes
  <2> QED
    BY <2>1, <2>3, CubesHoldVectors
<1>11. ArcSlot(form, frame, aim, target, ordinal) = Plus(target, reach)
  BY DEF ArcSlot, reach, length, unit, sum, chord, spoke, across
<1>12. ArcSlot(form, mirrored, Turned(aim), Turned(target), ordinal) = Plus(Turned(target), Turned(reach))
  <2>1. ArcSlot(form, mirrored, Turned(aim), Turned(target), ordinal)
          = Plus(Turned(target),
                 Scaled(Normalized(Plus(Minus(Turned(aim), Turned(target)), Scaled(mirrored.lateral, across))),
                        Length(Minus(Turned(aim), Turned(target)))))
    BY DEF ArcSlot, across
  <2> QED
    BY <1>3, <1>4, <1>5, <1>7, <1>8, <1>9, <2>1
<1> QED
  BY <1>10, <1>11, <1>12

(* What a form adds to an aim point is a whole number of words, and both   *)
(* arms of a wedge fall back as far as they spread.                        *)
LEMMA StepsAreWhole ==
  ASSUME NEW ordinal \in Int, NEW gap \in Int
  PROVE  LET step == AlternatingStep(ordinal)
         IN  /\ step \in Int /\ AbsOf(step) \in Int
             /\ Whole(step, gap) \in Int /\ Whole(AbsOf(step), gap) \in Int
             /\ AbsOf(Whole(AbsOf(step), gap)) = AbsOf(Whole(step, gap))
<1> DEFINE step == AlternatingStep(ordinal)
           whole == Whole(step, gap)
<1>1. step \in Int /\ AbsOf(step) \in {step, -step}
  BY DEF AlternatingStep, AbsOf
<1> HIDE DEF step
<1>2. One \in Int /\ step * One \in Int /\ (-step) * One = -(step * One)
  BY <1>1, RoomFacts
<1>3. whole \in Int /\ Whole(-step, gap) = -whole
  <2> DEFINE base == step * One
  <2>1. base \in Int /\ whole = QMul(base, gap) /\ Whole(-step, gap) = QMul(-base, gap)
    BY <1>2 DEF Whole
  <2> HIDE DEF base, whole
  <2> QED
    BY <2>1, ProductIsOdd
<1> HIDE DEF whole
<1>4. AbsOf(-whole) = AbsOf(whole) /\ -whole \in Int
  BY <1>3 DEF AbsOf
<1>5. AbsOf(step) \in Int
  BY <1>1
<1>6. Whole(AbsOf(step), gap) \in {whole, -whole}
  BY <1>1, <1>3 DEF whole
<1> QED
  BY <1>1, <1>3, <1>4, <1>5, <1>6 DEF whole, step

LEMMA PodsAreWhole ==
  ASSUME NEW form, form.gap \in Int, form.rank \in Nat \ {0}, form.file \in Nat \ {0},
         NEW ordinal \in Int
  PROVE  /\ PodStart(form, ordinal) + QMul(Column(form, ordinal), Half) \in Int
         /\ Row(form, ordinal) \in Int
<1> DEFINE rank == form.rank
           file == form.file
           size == rank * file
           pod == ordinal \div size
           place == ordinal % size
           step == AlternatingStep(pod)
<1>1. size \in Nat \ {0}
  <2>1. \A m, n \in Nat \ {0} : m * n \in Nat \ {0}
    OBVIOUS
  <2> QED
    BY <2>1
<1>2. One \in Int /\ Half \in Int
  BY RoomFacts DEF Half
<1>3. \A count \in Int : Whole(count, form.gap) \in Int
  <2> SUFFICES ASSUME NEW count \in Int PROVE Whole(count, form.gap) \in Int
    OBVIOUS
  <2>1. count * One \in Int
    BY <1>2
  <2> QED
    BY <2>1, ProductIsOdd DEF Whole
<1>4. PodStart(form, ordinal) = Whole(step * (file + 1), form.gap)
      /\ Column(form, ordinal) = Whole(2 * (place % file) - (file - 1), form.gap)
      /\ Row(form, ordinal) = Whole(place \div file, form.gap)
  BY DEF PodStart, Column, Row
<1> HIDE DEF size
<1>5. pod \in Int /\ place \in Int
  BY <1>1
<1>6. step \in Int
  BY <1>5 DEF AlternatingStep
<1> HIDE DEF pod, place, step
<1>7. step * (file + 1) \in Int /\ 2 * (place % file) - (file - 1) \in Int /\ place \div file \in Int
  BY <1>5, <1>6
<1>8. PodStart(form, ordinal) \in Int /\ Column(form, ordinal) \in Int /\ Row(form, ordinal) \in Int
  BY <1>3, <1>4, <1>7
<1>9. QMul(Column(form, ordinal), Half) \in Int
  BY <1>2, <1>8, ProductIsOdd
<1> QED
  BY <1>8, <1>9

(* Every form's slot fits the word and turns with its frame. *)
LEMMA FormsTurn ==
  ASSUME NEW team \in Team, NEW aimed, Aims(aimed), NEW turned, TurnsInto(aimed, turned),
         NEW target, InCube(target, Room), NEW form, NEW ordinal \in Int,
         LaysOutWithin(form, ordinal, 12 * Room)
  PROVE  LET slot == FormSlot(form, FormFrame(aimed.axis, team), aimed.aim, target, ordinal)
         IN  /\ InCube(slot, 14 * Room)
             /\ FormSlot(form, FormFrame(turned.axis, Opponent(team)), turned.aim, Turned(target), ordinal)
                  = Turned(slot)
<1> DEFINE frame == FormFrame(aimed.axis, team)
           mirrored == FormFrame(turned.axis, Opponent(team))
           aim == aimed.aim
           Placing(f, a, t) == CASE form.kind = "Point" -> a
                                 [] form.kind = "Pod"   -> PodSlot(form, f, a, ordinal)
                                 [] form.kind = "Wedge" -> WedgeSlot(form, f, a, ordinal)
                                 [] form.kind = "Arc"   -> ArcSlot(form, f, a, t, ordinal)
           placed == Placing(frame, aim, target)
           theirs == Placing(mirrored, Turned(aim), Turned(target))
           slot == Vec(placed.x, placed.y, aim.z)
<1>1. /\ InCube(frame.forward, One) /\ InCube(frame.lateral, One)
      /\ mirrored.forward = Turned(frame.forward) /\ mirrored.lateral = Turned(frame.lateral)
  BY FramesTurn
<1>2. InCube(aim, 2 * Room) /\ turned.aim = Turned(aim)
  BY DEF Aims, TurnsInto
<1>3. Room \in Nat /\ 2 * Room \in Nat /\ 14 * Room \in Nat /\ 2 * Room <= 14 * Room
  BY RoomFacts
<1>4. /\ FormSlot(form, frame, aim, target, ordinal) = slot
      /\ FormSlot(form, mirrored, Turned(aim), Turned(target), ordinal)
           = Vec(theirs.x, theirs.y, Turned(aim).z)
  BY DEF FormSlot
<1> HIDE DEF frame, mirrored, aim
<1>5. InCube(placed, 14 * Room) /\ theirs = Turned(placed)
  <2>1. CASE form.kind = "Point"
    <3>1. placed = aim /\ theirs = Turned(aim)
      BY <2>1
    <3> QED
      BY <1>2, <1>3, <3>1, CubesHoldVectors
  <2>2. CASE form.kind = "Pod"
    <3> DEFINE across == PodStart(form, ordinal) + QMul(Column(form, ordinal), Half)
               back == Row(form, ordinal)
    <3>1. across \in Int /\ back \in Int /\ AbsOf(across) + AbsOf(back) <= 12 * Room
      BY <2>2, PodsAreWhole DEF LaysOutWithin
    <3>2. /\ placed = Abreast(aim, frame, across, back)
          /\ theirs = Abreast(Turned(aim), mirrored, across, back)
      BY <2>2 DEF PodSlot
    <3> HIDE DEF across, back, placed, theirs
    <3> QED
      BY <1>1, <1>2, <3>1, <3>2, SlotsTurn
  <2>3. CASE form.kind = "Wedge"
    <3> DEFINE across == Whole(AlternatingStep(ordinal), form.gap)
               back == Whole(AbsOf(AlternatingStep(ordinal)), form.gap)
    <3>1. across \in Int /\ back \in Int /\ AbsOf(back) = AbsOf(across)
      BY <2>3, StepsAreWhole DEF LaysOutWithin
    <3>2. 2 * AbsOf(across) <= 12 * Room
      BY <2>3 DEF LaysOutWithin
    <3>3. /\ placed = Abreast(aim, frame, across, back)
          /\ theirs = Abreast(Turned(aim), mirrored, across, back)
      BY <2>3 DEF WedgeSlot
    <3> HIDE DEF across, back, placed, theirs
    <3>4. AbsOf(across) + AbsOf(back) <= 12 * Room
      <4>1. AbsOf(across) \in Int
        BY <3>1 DEF AbsOf
      <4> QED
        BY <1>3, <3>1, <3>2, <4>1
    <3> QED
      BY <1>1, <1>2, <3>1, <3>3, <3>4, SlotsTurn
  <2>4. CASE form.kind = "Arc"
    <3>1. /\ Whole(AlternatingStep(ordinal), form.gap) \in Int
          /\ 2 * AbsOf(Whole(AlternatingStep(ordinal), form.gap)) <= 12 * Room
      BY <2>4, StepsAreWhole DEF LaysOutWithin
    <3>2. /\ placed = ArcSlot(form, frame, aim, target, ordinal)
          /\ theirs = ArcSlot(form, mirrored, Turned(aim), Turned(target), ordinal)
      BY <2>4
    <3> HIDE DEF placed, theirs
    <3> QED
      BY <1>1, <1>2, <3>1, <3>2, ArcsTurn
  <2> QED
    BY <2>1, <2>2, <2>3, <2>4 DEF LaysOutWithin
<1> HIDE DEF placed, theirs
<1>6. IsVector(placed) /\ IsVector(aim) /\ InCube(aim, 14 * Room)
  BY <1>2, <1>3, <1>5, CubesHoldVectors
<1>7. InCube(slot, 14 * Room)
  BY <1>5, <1>6 DEF InCube, Vec
<1>8. Turned(slot) = Vec(-placed.x, -placed.y, aim.z)
  <2>1. slot.x = placed.x /\ slot.y = placed.y /\ slot.z = aim.z
    BY DEF Vec
  <2>2. IsVector(slot)
    BY <1>3, <1>7, CubesHoldVectors
  <2> HIDE DEF slot
  <2>3. Turned(slot) = Vec(-slot.x, -slot.y, slot.z)
    BY <2>2, TurnedChangesSigns
  <2> QED
    BY <2>1, <2>3
<1>9. theirs = Vec(-placed.x, -placed.y, placed.z) /\ Turned(aim) = Vec(-aim.x, -aim.y, aim.z)
  BY <1>5, <1>6, TurnedChangesSigns
<1>10. Vec(theirs.x, theirs.y, Turned(aim).z) = Turned(slot)
  BY <1>8, <1>9 DEF Vec
<1> QED
  BY <1>2, <1>4, <1>7, <1>10 DEF frame, mirrored, aim

-----------------------------------------------------------------------------

(* What the call sheet gives a local ID: its entry, template and ordinal. *)
EntryOf(node, local) ==
  IF local = Goalie THEN node.goalieVerb ELSE node.verbs[SquadFor(node.cycle, local)]
TemplateOf(node, local) == IF local = Goalie THEN node.goalie ELSE node.fielder
OrdinalOf(node, local) == IF local = Goalie THEN 0 ELSE SquadOrdinal(node.cycle, local)

LEMMA OrdinalsAreWhole ==
  ASSUME NEW S, NEW cycle \in Seq(S), cycle # <<>>, NEW local \in Nat
  PROVE  SquadFor(cycle, local) \in S /\ SquadOrdinal(cycle, local) \in Int
<1> DEFINE n == Len(cycle)
           position == CyclePosition(cycle, local)
           squad == SquadFor(cycle, local)
           alike == {p \in DOMAIN cycle : cycle[p] = squad}
           before == {p \in 1 .. position - 1 : cycle[p] = cycle[position]}
<1>1. n \in Nat \ {0} /\ DOMAIN cycle = 1 .. n /\ \A p \in 1 .. n : cycle[p] \in S
  OBVIOUS
<1>2. position \in 1 .. n /\ position \in Int
  BY <1>1 DEF CyclePosition
<1>3. squad \in S
  BY <1>1, <1>2 DEF SquadFor
<1> HIDE DEF position, squad, n
<1>4. IsFiniteSet(1 .. n) /\ IsFiniteSet(1 .. position - 1)
  BY <1>1, <1>2, FS_Interval
<1>5. alike \in SUBSET (1 .. n) /\ before \in SUBSET (1 .. position - 1)
  BY <1>1
<1>6. Cardinality(alike) \in Nat /\ Cardinality(before) \in Nat
  <2> HIDE DEF alike, before
  <2> QED
    BY <1>4, <1>5, FS_Subset, FS_CardinalityType
<1> DEFINE a == Cardinality(alike)
           b == Cardinality(before)
           c == GoalieCorrection(cycle, squad)
           d == local \div n
<1>7. SquadOrdinal(cycle, local) = d * a + b - c
  BY DEF SquadOrdinal, SquadCount, CyclePrefix, position, squad, n
<1>8. c \in Int /\ d \in Int
  BY <1>1 DEF GoalieCorrection
<1> HIDE DEF a, b, c, d
<1>9. d * a + b - c \in Int
  BY <1>6, <1>8 DEF a, b
<1> QED
  BY <1>3, <1>7, <1>9 DEF squad

LEMMA SheetFacts ==
  ASSUME NEW nodes \in Playbooks, NEW n \in DOMAIN nodes, NEW local \in Roster
  PROVE  LET node == nodes[n]
             entry == EntryOf(node, local)
             template == TemplateOf(node, local)
         IN  /\ SquadFor(node.cycle, local) \in DOMAIN node.verbs
             /\ SquadFor(node.cycle, local) \in SquadNames(nodes)
             /\ local % 8 \in SquadNames(nodes)
             /\ entry.verb \in Verbs /\ entry.target \in Targets
             /\ InCube(template.position, Room) /\ InCube(template.spin, Room)
             /\ OrdinalOf(node, local) \in Int
             /\ LaysOutWithin(entry.form, OrdinalOf(node, local), 12 * Room)
<1> DEFINE node == nodes[n]
           entry == EntryOf(node, local)
           template == TemplateOf(node, local)
           squad == SquadFor(node.cycle, local)
<1>1. /\ node.cycle # <<>> /\ node.cycle \in Seq(DOMAIN node.verbs)
      /\ local % 8 \in DOMAIN node.verbs
      /\ \A e \in {node.goalieVerb} \cup {node.verbs[s] : s \in DOMAIN node.verbs} :
           e.verb \in Verbs /\ e.target \in Targets
  BY NodesAssumption
<1>2. /\ \A t \in {node.goalie, node.fielder} : InRoom(t.position) /\ InRoom(t.spin)
      /\ LaysOutWithin(node.goalieVerb.form, 0, 12 * Room)
      /\ local # Goalie => LaysOutWithin(node.verbs[squad].form, SquadOrdinal(node.cycle, local), 12 * Room)
  BY LayoutAssumption
<1>3. local \in Nat
  BY RosterFacts
<1> HIDE DEF node
<1>4. squad \in DOMAIN node.verbs /\ SquadOrdinal(node.cycle, local) \in Int
  BY <1>1, <1>3, OrdinalsAreWhole
<1>5. squad \in SquadNames(nodes) /\ local % 8 \in SquadNames(nodes)
  BY <1>1, <1>4 DEF SquadNames, node
<1>6. entry.verb \in Verbs /\ entry.target \in Targets
  BY <1>1, <1>4 DEF EntryOf
<1>7. InCube(template.position, Room) /\ InCube(template.spin, Room)
  BY <1>2, RoomIsCube DEF TemplateOf
<1>8. OrdinalOf(node, local) \in Int
  BY <1>4 DEF OrdinalOf
<1>9. LaysOutWithin(entry.form, OrdinalOf(node, local), 12 * Room)
  BY <1>2 DEF EntryOf, OrdinalOf
<1> QED
  BY <1>4, <1>5, <1>6, <1>7, <1>8, <1>9 DEF node

(* A body's intent fits the word, and in the turned world its counterpart  *)
(* has the turned one.                                                     *)
LEMMA BodiesTurn ==
  ASSUME NEW at, Placed(at), NEW image, Placed(image), Images(image, at),
         NEW assigned, NEW exchanged, Exchanged(exchanged, assigned),
         NEW nodes \in Playbooks, NEW n \in DOMAIN nodes, NEW me \in Player
  PROVE  LET intent == ResolveBody(nodes[n], at, assigned, me)
             turned == ResolveBody(nodes[n], image, exchanged, Counterpart(me))
         IN  /\ InCube(intent.position, 14 * Room) /\ InCube(intent.spin, 14 * Room)
             /\ intent \in [position : Vector, spin : Vector]
             /\ turned.position = Turned(intent.position)
             /\ turned.spin = Turned(intent.spin)
<1> DEFINE node == nodes[n]
           team == me[1]
           other == Opponent(team)
           local == me[2]
           entry == EntryOf(node, local)
           template == TemplateOf(node, local)
           ordinal == OrdinalOf(node, local)
           slot == HalfTurn(template.position, team)
           target == TargetOf(entry, at, assigned, me, slot)
           aimed == AimPoint(entry.verb, target, slot, at, me)
           placed == FormSlot(entry.form, FormFrame(aimed.axis, team), aimed.aim, target, ordinal)
           spin == IF entry.verb = "Align" THEN HalfTurn(template.spin, team) ELSE Zero
           intent == ResolveBody(node, at, assigned, me)
           turned == ResolveBody(node, image, exchanged, Counterpart(me))
           slot2 == HalfTurn(template.position, other)
           target2 == TargetOf(entry, image, exchanged, Counterpart(me), slot2)
           aimed2 == AimPoint(entry.verb, target2, slot2, image, Counterpart(me))
           placed2 == FormSlot(entry.form, FormFrame(aimed2.axis, other), aimed2.aim, target2, ordinal)
           spin2 == IF entry.verb = "Align" THEN HalfTurn(template.spin, other) ELSE Zero
<1>1. /\ team \in Team /\ local \in Roster /\ other \in Team
      /\ Counterpart(me) \in Player /\ Counterpart(me)[1] = other /\ Counterpart(me)[2] = local
  BY Counterparts, Mirrors
<1>2. intent = [position |-> placed, spin |-> spin]
  BY DEF ResolveBody, EntryOf, TemplateOf, OrdinalOf
<1>3. turned = [position |-> placed2, spin |-> spin2]
  <2> DEFINE twin == Counterpart(me)
  <2>1. twin[1] = other /\ twin[2] = local
    BY <1>1
  <2> HIDE DEF twin, other, local
  <2>2. ResolveBody(node, image, exchanged, twin) = [position |-> placed2, spin |-> spin2]
    BY <2>1 DEF ResolveBody, EntryOf, TemplateOf, OrdinalOf, twin
  <2> QED
    BY <2>2 DEF twin
<1>4. /\ entry.verb \in Verbs /\ entry.target \in Targets
      /\ InCube(template.position, Room) /\ InCube(template.spin, Room)
      /\ ordinal \in Int /\ LaysOutWithin(entry.form, ordinal, 12 * Room)
  BY <1>1, SheetFacts
<1> HIDE DEF entry, template, ordinal, team, local, intent, turned
<1>5. /\ slot2 = Turned(slot) /\ InCube(slot, Room)
      /\ HalfTurn(template.spin, other) = Turned(HalfTurn(template.spin, team))
      /\ InCube(HalfTurn(template.spin, team), Room)
  BY <1>1, <1>4, TemplatesTurn
<1> HIDE DEF slot, slot2
<1>6. InCube(target, Room) /\ target2 = Turned(target)
  BY <1>4, <1>5, TargetsTurn
<1> HIDE DEF target, target2
<1>7. Aims(aimed) /\ TurnsInto(aimed, aimed2)
  BY <1>4, <1>5, <1>6, AimsTurn
<1> HIDE DEF aimed, aimed2
<1>8. InCube(placed, 14 * Room) /\ placed2 = Turned(placed)
  BY <1>1, <1>4, <1>6, <1>7, FormsTurn
<1> HIDE DEF placed, placed2
<1>9. /\ Room \in Nat /\ 14 * Room \in Nat /\ 14 * Room < WordLimit /\ Room <= 14 * Room
      /\ 0 \in -(14 * Room) .. 14 * Room
  BY RoomFacts
<1>10. InCube(spin, 14 * Room) /\ spin2 = Turned(spin)
  <2>1. CASE entry.verb = "Align"
    BY <1>5, <1>9, <2>1, CubesHoldVectors
  <2>2. CASE entry.verb # "Align"
    <3>1. InCube(Zero, 14 * Room)
      BY <1>9 DEF InCube, Zero, Vec
    <3>2. IsVector(Zero)
      BY <1>9, <3>1, CubesHoldVectors
    <3>3. Turned(Zero) = Zero
      <4>1. Turned(Zero) = Vec(-Zero.x, -Zero.y, Zero.z) /\ IsVector(Turned(Zero))
        BY <3>2, TurnedChangesSigns
      <4>2. Zero.x = 0 /\ Zero.y = 0 /\ Zero.z = 0
        BY DEF Zero, Vec
      <4>3. \A b \in Int : b + b = 0 => -b = b
        OBVIOUS
      <4>4. -Zero.x = Zero.x /\ -Zero.y = Zero.y
        <5>1. Zero.x \in Int /\ Zero.x + Zero.x = 0 /\ Zero.y \in Int /\ Zero.y + Zero.y = 0
          BY <4>2
        <5> QED
          BY <4>3, <5>1
      <4> QED
        BY <4>1, <4>2, <4>4 DEF Zero
    <3> QED
      BY <2>2, <3>1, <3>3
  <2> QED
    BY <2>1, <2>2
<1> HIDE DEF spin, spin2
<1>11. placed \in Vector /\ spin \in Vector
  BY <1>8, <1>9, <1>10, CubesHoldVectors
<1> QED
  BY <1>2, <1>3, <1>8, <1>10, <1>11 DEF intent, turned

-----------------------------------------------------------------------------

(* The inductive invariant.  Wherever motion leaves the bodies is on the   *)
(* pitch, cursors stand on nodes, and the intents in the buffer are those  *)
(* of the very positions, assignment and cursors beside them.              *)
Settled ==
  /\ playbook \in Playbooks
  /\ positions \in [Body -> Vector] /\ Placed(positions)
  /\ squads \in [Body -> SquadNames(playbook)]
  /\ cursors \in [Team -> DOMAIN playbook]
  /\ intents # Unresolved => intents = Resolved(positions, squads, cursors)

LEMMA PlacesAreVectors ==
  ASSUME NEW place, InRoom(place)
  PROVE  place \in Vector /\ InCube(place, Room)
<1>1. Room \in Nat /\ Room < WordLimit
  BY RoomFacts
<1> QED
  BY <1>1, RoomIsCube, CubesHoldVectors

LEMMA SettledInitially ==
  Init => Settled
<1> SUFFICES ASSUME Init PROVE Settled
  OBVIOUS
<1> USE DEF Init
<1>1. positions \in [Body -> Vector] /\ Placed(positions)
  BY RoomAssumption, PlacesAreVectors DEF Placed
<1>2. cursors \in [Team -> DOMAIN playbook]
  BY NodesAssumption
<1>3. ASSUME NEW body \in Body PROVE body[2] % 8 \in SquadNames(playbook)
  <2>1. body[2] \in Roster
    BY RosterFacts, Counterparts DEF Body, Ball, Goalie
  <2>2. 0 \in DOMAIN playbook
    BY NodesAssumption
  <2> QED
    BY <2>1, <2>2, SheetFacts
<1> QED
  BY <1>1, <1>2, <1>3 DEF Settled

(* Assigning what is assigned already changes nothing. *)
LEMMA AssignedSquads ==
  ASSUME Settled
  PROVE  /\ Assigned(squads, cursors) \in [Body -> SquadNames(playbook)]
         /\ Assigned(Assigned(squads, cursors), cursors) = Assigned(squads, cursors)
         /\ \A body \in Player :
              Assigned(squads, cursors)[body] = SquadFor(playbook[cursors[body[1]]].cycle, body[2])
<1>1. ASSUME NEW body \in Player
      PROVE  SquadFor(playbook[cursors[body[1]]].cycle, body[2]) \in SquadNames(playbook)
  <2>1. body[1] \in Team /\ body[2] \in Roster
    BY Counterparts
  <2>2. cursors[body[1]] \in DOMAIN playbook /\ playbook \in Playbooks
    BY <2>1 DEF Settled
  <2> QED
    BY <2>1, <2>2, SheetFacts
<1>2. Ball \in Body /\ Ball \notin Player
  BY DEF Body, Ball, Player, Team
<1>3. Assigned(squads, cursors) \in [Body -> SquadNames(playbook)]
  BY <1>1, <1>2 DEF Assigned, Settled, Body
<1>4. Assigned(Assigned(squads, cursors), cursors) = Assigned(squads, cursors)
  BY <1>2 DEF Assigned
<1>5. \A body \in Player :
        Assigned(squads, cursors)[body] = SquadFor(playbook[cursors[body[1]]].cycle, body[2])
  BY <1>2 DEF Assigned, Body
<1> QED
  BY <1>3, <1>4, <1>5

LEMMA SettledStays ==
  Settled /\ [Next]_vars => Settled'
<1> SUFFICES ASSUME Settled, [Next]_vars PROVE Settled'
  OBVIOUS
<1>1. CASE Resolve
  <2>1. UNCHANGED <<playbook, positions, cursors>> /\ squads' = Assigned(squads, cursors)
        /\ intents' = Resolved(positions, squads, cursors)
    BY <1>1 DEF Resolve
  <2>2. Assigned(squads', cursors) = Assigned(squads, cursors)
    BY <2>1, AssignedSquads
  <2>3. Resolved(positions, squads', cursors) = Resolved(positions, squads, cursors)
    BY <2>2 DEF Resolved, Latched
  <2>4. Resolved(positions, squads, cursors)' = Resolved(positions, squads', cursors)
    BY <2>1 DEF Resolved, Latched, Assigned
  <2>5. squads' \in [Body -> SquadNames(playbook)]
    BY <2>1, AssignedSquads
  <2>6. (intents = Resolved(positions, squads, cursors))'
    BY <2>1, <2>3, <2>4
  <2> QED
    BY <2>1, <2>5, <2>6 DEF Settled, Placed
<1>2. CASE Motion
  <2>1. intents' = Unresolved /\ UNCHANGED <<playbook, squads>>
    BY <1>2 DEF Motion
  <2>2. CASE \E body \in Body : \E place \in Places[playbook][body] :
               /\ positions' = [positions EXCEPT ![body] = place]
               /\ UNCHANGED cursors
    <3>1. PICK body \in Body : \E place \in Places[playbook][body] :
                 /\ positions' = [positions EXCEPT ![body] = place]
                 /\ UNCHANGED cursors
      BY <2>2
    <3>2. PICK place \in Places[playbook][body] :
                 /\ positions' = [positions EXCEPT ![body] = place]
                 /\ UNCHANGED cursors
      BY <3>1
    <3>3. place \in Vector /\ InCube(place, Room)
      <4>1. InRoom(place)
        BY RoomAssumption DEF Settled
      <4> QED
        BY <4>1, PlacesAreVectors
    <3>4. positions' \in [Body -> Vector] /\ \A b \in Body : InCube(positions'[b], Room)
      BY <3>2, <3>3 DEF Settled, Placed
    <3> QED
      BY <2>1, <3>2, <3>4 DEF Settled, Placed
  <2>3. CASE \E team \in Team, node \in DOMAIN playbook :
               /\ cursors' = [cursors EXCEPT ![team] = node]
               /\ UNCHANGED positions
    BY <2>1, <2>3 DEF Settled, Placed
  <2> QED
    BY <1>2, <2>2, <2>3 DEF Motion
<1>3. CASE UNCHANGED vars
  BY <1>3 DEF Settled, vars, Placed, Resolved, Latched, Assigned
<1> QED
  BY <1>1, <1>2, <1>3 DEF Next

THEOREM AlwaysSettled == Spec => []Settled
<1> QED
  BY SettledInitially, SettledStays, PTL DEF Spec

(* The world turned half way round, with the teams exchanged. *)
TurnedWorld == [body \in Body |-> Turned(positions[Counterpart(body)])]

LEMMA TurnedWorldIsImage ==
  ASSUME Settled
  PROVE  Placed(TurnedWorld) /\ Images(TurnedWorld, positions)
<1>1. \A body \in Body : Counterpart(body) \in Body
  BY Counterparts
<1>2. Placed(positions) /\ Room \in Nat
  BY RoomFacts DEF Settled
<1> QED
  BY <1>1, <1>2, CubesHoldVectors DEF Placed, Images, TurnedWorld

LEMMA IntentsAre ==
  ASSUME Settled, intents # Unresolved
  PROVE  \A me \in Player :
           /\ cursors[me[1]] \in DOMAIN playbook
           /\ intents[me] = ResolveBody(playbook[cursors[me[1]]], positions, Assigned(squads, cursors), me)
<1>1. \A me \in Player : cursors[me[1]] \in DOMAIN playbook
  BY Counterparts DEF Settled
<1> QED
  BY <1>1 DEF Settled, Resolved, Latched

-----------------------------------------------------------------------------

(* Type correctness: after any resolution every mailbox names a squad with *)
(* an assignment and every intent of every body is a vector of words, for  *)
(* any roster and playbook whose layouts fit (Playbook::resolve).          *)
THEOREM TypeCorrect == Spec => []TypeOK
<1>1. ASSUME Settled PROVE TypeOK
  <2>1. ASSUME intents # Unresolved
        PROVE  intents \in [Player -> [position : Vector, spin : Vector]]
    <3> DEFINE assigned == Assigned(squads, cursors)
               exchanged == [body \in Player |-> assigned[Counterpart(body)]]
    <3>1. Placed(positions) /\ playbook \in Playbooks /\ Exchanged(exchanged, assigned)
      BY <1>1 DEF Settled, Exchanged
    <3>2. Placed(TurnedWorld) /\ Images(TurnedWorld, positions)
      BY <1>1, TurnedWorldIsImage
    <3> HIDE DEF assigned, exchanged
    <3>3. ASSUME NEW me \in Player, cursors[me[1]] \in DOMAIN playbook
          PROVE  ResolveBody(playbook[cursors[me[1]]], positions, assigned, me)
                   \in [position : Vector, spin : Vector]
      BY <3>1, <3>2, <3>3, BodiesTurn
    <3>4. \A me \in Player : intents[me] \in [position : Vector, spin : Vector]
      BY <1>1, <2>1, <3>3, IntentsAre DEF assigned
    <3>5. intents = [me \in Player |-> intents[me]]
      BY <1>1, <2>1 DEF Settled, Resolved
    <3> QED
      BY <3>4, <3>5
  <2> QED
    BY <1>1, <2>1 DEF Settled, TypeOK
<1> QED
  BY <1>1, AlwaysSettled, PTL

(* One authored play means one thing for either team: in the world turned  *)
(* half way round, with teams and cursors exchanged, every body gets the   *)
(* turned intent of its counterpart to the last raw unit (half_turn,       *)
(* solve.rs).                                                              *)
THEOREM TeamsAreAlike == Spec => []HalfTurnSymmetry
<1>1. ASSUME Settled PROVE HalfTurnSymmetry
  <2> DEFINE held == [body \in Body |-> squads[Counterpart(body)]]
             on == [team \in Team |-> cursors[Opponent(team)]]
             turned == Resolved(TurnedWorld, held, on)
             assigned == Assigned(squads, cursors)
             exchanged == Assigned(held, on)
  <2> SUFFICES ASSUME intents # Unresolved, NEW me \in Player
               PROVE  /\ turned[me].position = Turned(intents[Counterpart(me)].position)
                      /\ turned[me].spin = Turned(intents[Counterpart(me)].spin)
    BY DEF HalfTurnSymmetry, TurnedWorld
  <2> DEFINE other == Counterpart(me)
             nodes == playbook
             n == cursors[other[1]]
  <2>1. /\ other \in Player /\ Counterpart(other) = me /\ me[1] \in Team
        /\ other[1] = Opponent(me[1]) /\ n \in DOMAIN playbook
    BY <1>1, Counterparts, IntentsAre DEF Body
  <2>2. on[me[1]] = n
    BY <2>1
  <2>3. turned[me] = ResolveBody(playbook[n], TurnedWorld, exchanged, me)
    BY <2>2 DEF Resolved, Latched
  <2>4. intents[other] = ResolveBody(playbook[n], positions, assigned, other)
    BY <1>1, <2>1, IntentsAre
  <2>5. Exchanged(exchanged, assigned)
    <3> SUFFICES ASSUME NEW body \in Player PROVE exchanged[body] = assigned[Counterpart(body)]
      BY DEF Exchanged
    <3>1. /\ body[1] \in Team /\ Counterpart(body) \in Player
          /\ Counterpart(body)[1] = Opponent(body[1]) /\ Counterpart(body)[2] = body[2]
      BY Counterparts
    <3>2. body # Ball /\ body \in Body
      BY DEF Player, Team, Ball, Body
    <3>3. exchanged[body] = SquadFor(playbook[on[body[1]]].cycle, body[2])
      BY <3>2 DEF Assigned
    <3>4. on[body[1]] = cursors[Counterpart(body)[1]]
      BY <3>1
    <3>5. assigned[Counterpart(body)]
            = SquadFor(playbook[cursors[Counterpart(body)[1]]].cycle, Counterpart(body)[2])
      BY <1>1, <3>1, AssignedSquads
    <3> QED
      BY <3>1, <3>3, <3>4, <3>5
  <2>6. /\ Placed(positions) /\ Placed(TurnedWorld) /\ Images(TurnedWorld, positions)
        /\ playbook \in Playbooks
    BY <1>1, TurnedWorldIsImage DEF Settled
  <2> HIDE DEF assigned, exchanged, other, n, turned
  <2>7. LET intent == ResolveBody(nodes[n], positions, assigned, other)
            image == ResolveBody(nodes[n], TurnedWorld, exchanged, Counterpart(other))
        IN  image.position = Turned(intent.position) /\ image.spin = Turned(intent.spin)
    <3>1. nodes \in Playbooks /\ n \in DOMAIN nodes
      BY <2>1, <2>6
    <3> HIDE DEF nodes
    <3> QED
      BY <2>1, <2>5, <2>6, <3>1, BodiesTurn
  <2> QED
    BY <2>1, <2>3, <2>4, <2>7 DEF other
<1> QED
  BY <1>1, AlwaysSettled, PTL

-----------------------------------------------------------------------------

(* A body alone in its form stands on its aim point. *)
LEMMA PointsAreAims ==
  ASSUME Settled, intents # Unresolved, NEW me \in Player,
         EntryOf(playbook[cursors[me[1]]], me[2]).form = Point
  PROVE  LET node     == playbook[cursors[me[1]]]
             entry    == EntryOf(node, me[2])
             slot     == HalfTurn(TemplateOf(node, me[2]).position, me[1])
             target   == TargetOf(entry, positions, Assigned(squads, cursors), me, slot)
         IN  /\ intents[me].position = AimPoint(entry.verb, target, slot, positions, me).aim
             /\ entry.verb \in Verbs
             /\ InCube(slot, Room) /\ InCube(target, Room)
<1> DEFINE node     == playbook[cursors[me[1]]]
           entry    == EntryOf(node, me[2])
           template == TemplateOf(node, me[2])
           ordinal  == OrdinalOf(node, me[2])
           slot     == HalfTurn(template.position, me[1])
           assigned == Assigned(squads, cursors)
           exchanged == [body \in Player |-> assigned[Counterpart(body)]]
           target   == TargetOf(entry, positions, assigned, me, slot)
           aimed    == AimPoint(entry.verb, target, slot, positions, me)
           position == FormSlot(entry.form, FormFrame(aimed.axis, me[1]), aimed.aim, target, ordinal)
<1>1. /\ me[1] \in Team /\ me[2] \in Roster /\ cursors[me[1]] \in DOMAIN playbook
      /\ playbook \in Playbooks /\ Placed(positions)
      /\ Placed(TurnedWorld) /\ Images(TurnedWorld, positions)
  BY Counterparts, IntentsAre, TurnedWorldIsImage DEF Settled
<1>2. entry.verb \in Verbs /\ entry.target \in Targets /\ InCube(template.position, Room)
  BY <1>1, SheetFacts
<1>3. intents[me].position = position
  <2>1. intents[me] = ResolveBody(node, positions, assigned, me)
    BY IntentsAre
  <2>2. ResolveBody(node, positions, assigned, me).position = position
    BY DEF ResolveBody, EntryOf, TemplateOf, OrdinalOf
  <2> QED
    BY <2>1, <2>2
<1>4. Exchanged(exchanged, assigned)
  BY DEF Exchanged
<1>5. entry.form = Point
  OBVIOUS
<1> HIDE DEF entry, template, ordinal, assigned, exchanged, node
<1>6. InCube(slot, Room)
  BY <1>1, <1>2, TemplatesTurn
<1> HIDE DEF slot
<1>7. InCube(target, Room)
  BY <1>1, <1>2, <1>4, <1>6, TargetsTurn
<1> HIDE DEF target
<1>8. InCube(aimed.aim, 2 * Room)
  BY <1>1, <1>2, <1>6, <1>7, AimsTurn DEF Aims
<1> HIDE DEF aimed
<1>9. position = Vec(aimed.aim.x, aimed.aim.y, aimed.aim.z)
  BY <1>5 DEF FormSlot, Point
<1>10. position = aimed.aim
  BY <1>8, <1>9 DEF InCube
<1> QED
  BY <1>2, <1>3, <1>6, <1>7, <1>10 DEF aimed, target, slot, assigned, template, entry, node

(* Some member of a squad bounds it from below in a coordinate, and some   *)
(* member from above.                                                      *)
LEMMA SquadHasEnds ==
  ASSUME NEW at, Placed(at), NEW team \in Team, NEW members \in SUBSET ({team} \X Roster),
         members # {}, NEW axis \in {"x", "y", "z"}
  PROVE  \E low, high \in members : Bounded(at, members, axis, at[low][axis], at[high][axis])
<1> DEFINE below == {at[body][axis] + Room : body \in members}
           above == {Room - at[body][axis] : body \in members}
<1>1. Room \in Nat /\ \A body \in members : at[body][axis] \in -Room .. Room
  BY RoomFacts, TermsAreCoordinates
<1>2. below \in SUBSET Nat /\ below # {} /\ above \in SUBSET Nat /\ above # {}
  BY <1>1
<1> HIDE DEF below, above
<1>3. PICK least \in below : \A other \in below : least <= other
  BY <1>2, LeastElement
<1>4. PICK first \in above : \A other \in above : first <= other
  BY <1>2, LeastElement
<1> USE DEF below, above
<1>5. PICK low \in members : least = at[low][axis] + Room
  BY <1>3
<1>6. PICK high \in members : first = Room - at[high][axis]
  BY <1>4
<1>7. ASSUME NEW body \in members
      PROVE  at[low][axis] <= at[body][axis] /\ at[body][axis] <= at[high][axis]
  <2>1. at[body][axis] + Room \in below /\ Room - at[body][axis] \in above
    OBVIOUS
  <2>2. /\ at[low][axis] + Room <= at[body][axis] + Room
        /\ Room - at[high][axis] <= Room - at[body][axis]
    BY <1>3, <1>4, <1>5, <1>6, <2>1
  <2>3. at[low][axis] \in Int /\ at[high][axis] \in Int /\ at[body][axis] \in Int
    BY SMTT(30), <1>1
  <2> HIDE DEF below, above
  <2> QED
    BY <1>1, <2>2, <2>3
<1> QED
  BY <1>7 DEF Bounded

(* A body sent after a squad heads for a point among the bodies this       *)
(* tick's play puts in that squad, and for its own slot if it has nobody:  *)
(* the resolver never mixes two ticks' assignments, leaves a member out or *)
(* counts one twice (Playbook::resolve, squad_centroid).                   *)
THEOREM AimsAreAmongSquad == Spec => []AimsAmongSquad
<1>1. ASSUME Settled PROVE AimsAmongSquad
  <2> DEFINE Node(me) == playbook[cursors[me[1]]]
             Sent(me) == Node(me).verbs[SquadFor(Node(me).cycle, me[2])]
             With(me) == {body \in {me[1]} \X Roster : SquadFor(Node(me).cycle, body[2]) = Sent(me).squad}
  <2> SUFFICES ASSUME intents # Unresolved, NEW me \in Player, me[2] # Goalie,
                      Sent(me).verb = "Pursue", Sent(me).target = "Squad", Sent(me).form = Point
               PROVE  IF With(me) = {} THEN intents[me].position = HalfTurn(Node(me).fielder.position, me[1])
                      ELSE \A axis \in {"x", "y", "z"} :
                             \E low, high \in With(me) :
                               /\ positions[low][axis] <= intents[me].position[axis]
                               /\ intents[me].position[axis] <= positions[high][axis]
    BY DEF AimsAmongSquad
  <2> DEFINE team == me[1]
             node == Node(me)
             entry == EntryOf(node, me[2])
             slot == HalfTurn(TemplateOf(node, me[2]).position, team)
             assigned == Assigned(squads, cursors)
             target == TargetOf(entry, positions, assigned, me, slot)
             members == Members(assigned, team, entry.squad)
             centroid == SquadCentroid(positions, assigned, team, entry.squad)
             Among == With(me)
  <2>1. entry = Sent(me)
    BY SMTT(30) DEF EntryOf
  <2>2. intents[me].position = AimPoint(entry.verb, target, slot, positions, me).aim
    BY <1>1, <2>1, PointsAreAims
  <2>3. AimPoint(entry.verb, target, slot, positions, me).aim = target
    BY <2>1 DEF AimPoint
  <2>4. slot = HalfTurn(node.fielder.position, team)
    BY DEF TemplateOf
  <2>5. team \in Team /\ Placed(positions)
    BY <1>1, Counterparts DEF Settled
  <2>6. Among = members
    <3>1. \A body \in {team} \X Roster :
            body \in Player /\ assigned[body] = SquadFor(node.cycle, body[2])
      BY SMTT(30), <1>1, <2>5, AssignedSquads, Squads
    <3> HIDE DEF node, entry, assigned
    <3> QED
      BY <2>1, <3>1 DEF Members, node
  <2>7. target = IF members = {} THEN slot ELSE centroid
    BY <2>1 DEF TargetOf
  <2>8. ASSUME members # {}, NEW axis \in {"x", "y", "z"}
        PROVE  \E low, high \in members : positions[low][axis] <= centroid[axis]
                                          /\ centroid[axis] <= positions[high][axis]
    <3>1. members \in SUBSET ({team} \X Roster)
      BY DEF Members
    <3> HIDE DEF entry, assigned
    <3>2. PICK low, high \in members :
            Bounded(positions, members, axis, positions[low][axis], positions[high][axis])
      <4> HIDE DEF members, team
      <4> QED
        BY <2>5, <2>8, <3>1, SquadHasEnds
    <3> DEFINE a == positions[low][axis]
               b == positions[high][axis]
    <3>3. a \in Int /\ b \in Int /\ Bounded(positions, members, axis, a, b)
      <4> HIDE DEF members, team
      <4> QED
        BY <2>5, <3>1, <3>2, TermsAreCoordinates
    <3> HIDE DEF a, b
    <3>4. centroid[axis] \in a .. b
      BY <2>5, <2>8, <3>3, CentroidBetween
    <3>5. a <= centroid[axis] /\ centroid[axis] <= b
      <4> HIDE DEF centroid
      <4> QED
        BY <3>3, <3>4
    <3> QED
      BY <3>2, <3>5 DEF a, b
  <2> HIDE DEF members, Among, centroid, target, entry
  <2>9. IF Among = {} THEN intents[me].position = slot
        ELSE \A axis \in {"x", "y", "z"} :
               \E low, high \in Among :
                 /\ positions[low][axis] <= intents[me].position[axis]
                 /\ intents[me].position[axis] <= positions[high][axis]
    BY <2>2, <2>3, <2>6, <2>7, <2>8
  <2> QED
    BY <2>4, <2>9 DEF Among
<1> QED
  BY <1>1, AlwaysSettled, PTL

-----------------------------------------------------------------------------

(* Stepping along an axis goes its way, stepping behind goes the other.    *)
LEMMA StepsGoAlong ==
  ASSUME NEW target, InCube(target, Room), NEW axis, IsVector(axis), NEW standoff \in 0 .. Room
  PROVE  /\ Toward(target, axis, standoff).x \in Int /\ Behind(target, axis).x \in Int
         /\ axis.x > 0 => /\ Toward(target, axis, standoff).x >= target.x
                          /\ Behind(target, axis).x <= target.x
         /\ axis.x < 0 => /\ Toward(target, axis, standoff).x <= target.x
                          /\ Behind(target, axis).x >= target.x
<1> DEFINE unit == Normalized(axis)
           u == unit.x
           p == QMul(u, standoff)
<1>1. /\ Room \in Nat /\ One \in Nat \ {0} /\ One <= Room /\ Room + Room < WordLimit
      /\ standoff \in Int /\ AbsOf(standoff) = standoff /\ standoff \in Nat /\ standoff <= Room
      /\ axis.x \in Int
  BY RoomFacts DEF AbsOf, IsVector
<1>2. InCube(unit, One) /\ u * axis.x >= 0
  BY DirectionsAreUnits
<1>3. InCube(Scaled(unit, standoff), standoff)
  BY <1>1, <1>2, ScaledUnits
<1>4. InCube(unit, Room) /\ InCube(Scaled(unit, standoff), Room) /\ IsVector(target)
  BY <1>1, <1>2, <1>3, CubesHoldVectors
<1>5. /\ Toward(target, axis, standoff).x = target.x + p
      /\ Behind(target, axis).x = target.x - u
  <2>1. Plus(target, Scaled(unit, standoff)).x = target.x + Scaled(unit, standoff).x
    BY <1>1, <1>4, SumsAreExact DEF Vec
  <2>2. Minus(target, unit).x = target.x - unit.x
    BY <1>1, <1>4, SumsAreExact DEF Vec
  <2>3. Scaled(unit, standoff).x = p
    BY DEF Scaled, Vec
  <2> QED
    BY <2>1, <2>2, <2>3 DEF Toward, Behind
<1>6. u \in Int /\ target.x \in Int
  BY <1>1, <1>2, <1>4, CubesHoldVectors DEF IsVector
<1> HIDE DEF unit, u
<1>7. p \in Int /\ (u >= 0 => p >= 0) /\ (u <= 0 => p <= 0)
  <2> DEFINE q == u * standoff
  <2>1. q \in Int /\ (u >= 0 => q >= 0) /\ (u <= 0 => q <= 0)
    BY <1>1, <1>6
  <2> HIDE DEF q
  <2>2. Truncated(q, One) \in Int /\ (q >= 0 => Truncated(q, One) >= 0) /\ (q <= 0 => Truncated(q, One) <= 0)
    BY SMTT(30), <1>1, <2>1, TruncatedKeepsSign
  <2> QED
    BY <2>1, <2>2 DEF QMul, q
<1> HIDE DEF p
<1>8. (axis.x > 0 => u >= 0) /\ (axis.x < 0 => u <= 0)
  <2> DEFINE a == axis.x
  <2>1. a \in Int /\ u * a >= 0
    BY <1>1, <1>2
  <2> HIDE DEF a
  <2>2. (a > 0 => u >= 0) /\ (a < 0 => u <= 0)
    BY <1>6, <2>1
  <2> QED
    BY <2>2 DEF a
<1> QED
  BY <1>5, <1>6, <1>7, <1>8

(* A verb that stands off keeps to its side of the target: Cover no        *)
(* farther from its own goal than the ball, Lead no farther from the       *)
(* opposing one, Drive and Clear behind the ball, and Guard in the mouth's *)
(* plane between the posts (aim_point).                                    *)
THEOREM SidesAreKept == Spec => []KeepsItsSide
<1>1. ASSUME Settled PROVE KeepsItsSide
  <2> DEFINE Node(me) == playbook[cursors[me[1]]]
             Sent(me) == IF me[2] = Goalie THEN Node(me).goalieVerb
                         ELSE Node(me).verbs[SquadFor(Node(me).cycle, me[2])]
             Along(v, me) == QMul(v.x, Mirror(me[1]))
             At(me) == intents[me].position
             ball == positions[Ball]
  <2> SUFFICES ASSUME intents # Unresolved, NEW me \in Player, Sent(me).form = Point
               PROVE  /\ (Sent(me).verb = "Cover" /\ Sent(me).target = "GameBall"
                          /\ Along(ball, me) > Along(OwnGoal(me[1]), me)) => Along(At(me), me) <= Along(ball, me)
                      /\ (Sent(me).verb \in {"Drive", "Clear"} /\ Sent(me).target = "GameBall"
                          /\ AbsOf(ball.x) < HalfLength) => Along(At(me), me) <= Along(ball, me)
                      /\ (Sent(me).verb = "Lead" /\ Sent(me).target = "GameBall"
                          /\ Along(ball, me) < Along(OwnGoal(Opponent(me[1])), me))
                            => Along(At(me), me) >= Along(ball, me)
                      /\ Sent(me).verb = "Guard" => /\ At(me).x = OwnGoal(me[1]).x
                                                    /\ AbsOf(At(me).y) <= GoalHalfWidth
    BY DEF KeepsItsSide
  <2> DEFINE team == me[1]
             node == Node(me)
             entry == EntryOf(node, me[2])
             slot == HalfTurn(TemplateOf(node, me[2]).position, team)
             target == TargetOf(entry, positions, Assigned(squads, cursors), me, slot)
             aim == AimPoint(entry.verb, target, slot, positions, me).aim
             own == OwnGoal(team)
             their == OwnGoal(Opponent(team))
             sign == IF team = "zero" THEN 1 ELSE -1
             downfield == Minus(their, ball)
             goalward == Minus(own, ball)
             upfield == Minus(ball, own)
  <2>1. entry = Sent(me)
    BY SMTT(30) DEF EntryOf
  <2>2. At(me) = aim /\ InCube(target, Room)
    BY <1>1, <2>1, PointsAreAims
  <2>3. team \in Team /\ Opponent(team) \in Team
    BY Counterparts, Mirrors
  <2>4. InCube(ball, Room) /\ InCube(own, Room) /\ InCube(their, Room)
    BY <1>1, <2>3, GoalsTurn DEF Settled, Placed, Body
  <2>5. /\ own.x = -sign * HalfLength /\ their.x = sign * HalfLength /\ sign \in {-1, 1}
        /\ HalfLength \in Nat
    BY <2>3, GoalsTurn, RoomFacts DEF Team, Opponent
  <2>6. \A v : v.x \in Int => Along(v, me) = sign * v.x
    BY <2>3, Mirrors, ProductWithOne DEF Team
  <2>7. /\ Room \in Nat /\ Room + Room < WordLimit /\ CoverGap \in 0 .. Room
        /\ One \in 0 .. Room /\ GoalHalfWidth \in Nat
    BY RoomFacts
  <2>8. IsVector(ball) /\ ball.x \in Int /\ own.x \in Int /\ their.x \in Int
    BY <2>4, <2>7, CubesHoldVectors DEF IsVector
  <2>9. /\ downfield.x = their.x - ball.x /\ goalward.x = own.x - ball.x /\ upfield.x = ball.x - own.x
        /\ IsVector(downfield) /\ IsVector(goalward) /\ IsVector(upfield)
    BY <2>4, <2>7, SumsAreExact, OffsetsTurn DEF Vec
  <2>10. entry.target = "GameBall" => target = ball
    BY DEF TargetOf
  <2> DEFINE covered == Toward(ball, goalward, CoverGap)
             led == Toward(ball, downfield, CoverGap)
             driven == Behind(ball, downfield)
             cleared == Behind(ball, upfield)
  <2>11. /\ entry.verb = "Cover" /\ entry.target = "GameBall" => aim = covered
         /\ entry.verb = "Lead" /\ entry.target = "GameBall" => aim = led
         /\ entry.verb = "Drive" /\ entry.target = "GameBall" => aim = driven
         /\ entry.verb = "Clear" /\ entry.target = "GameBall" => aim = cleared
    <3> HIDE DEF target, entry
    <3> QED
      BY <2>10 DEF AimPoint
  <2>12. entry.verb = "Guard" => aim = Vec(own.x, ClampTo(target.y, -GoalHalfWidth, GoalHalfWidth), own.z)
    <3> HIDE DEF target, entry
    <3> QED
      BY DEF AimPoint
  <2>13. /\ covered.x \in Int /\ led.x \in Int /\ driven.x \in Int /\ cleared.x \in Int
         /\ goalward.x > 0 => covered.x >= ball.x
         /\ goalward.x < 0 => covered.x <= ball.x
         /\ downfield.x > 0 => led.x >= ball.x /\ driven.x <= ball.x
         /\ downfield.x < 0 => led.x <= ball.x /\ driven.x >= ball.x
         /\ upfield.x > 0 => cleared.x <= ball.x
         /\ upfield.x < 0 => cleared.x >= ball.x
    <3> HIDE DEF downfield, goalward, upfield, ball
    <3> QED
      BY <2>4, <2>7, <2>9, StepsGoAlong
  <2> HIDE DEF downfield, goalward, upfield, covered, led, driven, cleared, aim, target, entry,
               own, their, sign
  <2>14. /\ Along(ball, me) = sign * ball.x /\ Along(own, me) = sign * own.x
         /\ Along(their, me) = sign * their.x
    BY <2>6, <2>8
  <2>15. ASSUME entry.verb = "Cover", entry.target = "GameBall", Along(ball, me) > Along(own, me)
         PROVE  Along(aim, me) <= Along(ball, me)
    <3>1. Along(aim, me) = sign * covered.x
      BY <2>6, <2>11, <2>13, <2>15
    <3>2. sign * ball.x > sign * own.x
      BY <2>14, <2>15
    <3>3. sign * covered.x <= sign * ball.x
      BY <2>5, <2>8, <2>9, <2>13, <3>2
    <3> QED
      BY <2>14, <3>1, <3>3
  <2>16. ASSUME entry.verb = "Lead", entry.target = "GameBall", Along(ball, me) < Along(their, me)
         PROVE  Along(aim, me) >= Along(ball, me)
    <3>1. Along(aim, me) = sign * led.x
      BY <2>6, <2>11, <2>13, <2>16
    <3>2. sign * ball.x < sign * their.x
      BY <2>14, <2>16
    <3>3. sign * led.x >= sign * ball.x
      BY <2>5, <2>8, <2>9, <2>13, <3>2
    <3> QED
      BY <2>14, <3>1, <3>3
  <2>17. ASSUME entry.verb \in {"Drive", "Clear"}, entry.target = "GameBall", AbsOf(ball.x) < HalfLength
         PROVE  Along(aim, me) <= Along(ball, me)
    <3>1. -HalfLength < ball.x /\ ball.x < HalfLength
      BY <2>5, <2>8, <2>17 DEF AbsOf
    <3>2. sign * driven.x <= sign * ball.x /\ sign * cleared.x <= sign * ball.x
      BY <2>5, <2>8, <2>9, <2>13, <3>1
    <3>3. Along(aim, me) \in {sign * driven.x, sign * cleared.x}
      BY <2>6, <2>11, <2>13, <2>17
    <3> QED
      BY <2>14, <3>2, <3>3
  <2>18. ASSUME entry.verb = "Guard"
         PROVE  aim.x = own.x /\ AbsOf(aim.y) <= GoalHalfWidth
    <3> DEFINE across == ClampTo(target.y, -GoalHalfWidth, GoalHalfWidth)
    <3>1. aim = Vec(own.x, across, own.z)
      BY <2>12, <2>18
    <3>2. target.y \in Int
      BY <2>2, <2>7, CubesHoldVectors DEF IsVector
    <3>3. across \in -GoalHalfWidth .. GoalHalfWidth
      BY <2>7, <3>2, ClampsTurn
    <3> HIDE DEF across
    <3>4. AbsOf(across) <= GoalHalfWidth
      BY <2>7, <3>3 DEF AbsOf
    <3> QED
      BY <3>1, <3>4 DEF Vec
  <2> QED
    BY <2>1, <2>2, <2>15, <2>16, <2>17, <2>18 DEF own, their
<1> QED
  BY <1>1, AlwaysSettled, PTL

=============================================================================
