--------------------------- MODULE PhysicsProofs ----------------------------
(***************************************************************************)
(* Charges, containment, touches and the track of the ball through every   *)
(* substep, for any number of bodies, any settings and any commands.       *)
(***************************************************************************)
EXTENDS Physics, FixedPointProofs

(* The canonical order of World::new: one team, the other, the objective. *)
LEMMA BodiesInOrder ==
  /\ Squad \in Nat /\ Body = 0 .. 2 * Squad
  /\ IsFiniteSet(Body) /\ Body \subseteq Nat
  /\ Objective = 2 * Squad /\ Objective \in Body
  /\ \A id \in Body : TeamOf[id] = IF id < Squad THEN "zero"
                                    ELSE IF id < 2 * Squad THEN "one" ELSE "none"
<1> DEFINE Told(id) == IF id < Squad THEN "zero" ELSE IF id < 2 * Squad THEN "one" ELSE "none"
<1>1. IsFiniteSet(Body) /\ TeamOf = [id \in 0 .. 2 * Squad |-> Told(id)]
  BY BodiesAssumption
<1>2. Squad \in Nat
  <2>1. Cardinality(Body) \in Nat
    BY <1>1, FS_CardinalityType
  <2> QED
    BY <2>1 DEF Squad
<1>3. Body = 0 .. 2 * Squad /\ \A id \in Body : TeamOf[id] = Told(id)
  BY <1>1 DEF Body
<1>4. \A id \in Body : TeamOf[id] = "none" <=> id = 2 * Squad
  BY <1>2, <1>3
<1>5. 2 * Squad \in Body
  BY <1>2, <1>3
<1>6. Objective = 2 * Squad
  BY <1>4, <1>5 DEF Objective
<1> QED
  BY <1>1, <1>2, <1>3, <1>5, <1>6

(* Bodies that keep within the room are records of three vectors in its cube. *)
LEMMA PlacesAreCubes ==
  ASSUME NEW v
  PROVE  /\ v \in Place <=> InCube(v, Room)
         /\ v \in UnitPlace <=> InCube(v, One)
<1>1. v \in Place <=> InCube(v, Room)
  BY DEF Place, InCube, Vec
<1>2. v \in UnitPlace <=> InCube(v, One)
  BY DEF UnitPlace, InCube, Vec
<1> QED
  BY <1>1, <1>2

IsBody(body) ==
  /\ body = [position |-> body.position, velocity |-> body.velocity, spin |-> body.spin]
  /\ InCube(body.position, Room) /\ InCube(body.velocity, Room) /\ InCube(body.spin, Room)

LEMMA RoomyBodies ==
  ASSUME NEW at
  PROVE  Roomy(at) <=> at = [id \in Body |-> at[id]] /\ \A id \in Body : IsBody(at[id])
<1> DEFINE Records == [position : Place, velocity : Place, spin : Place]
<1>1. ASSUME NEW body PROVE body \in Records <=> IsBody(body)
  BY PlacesAreCubes DEF IsBody
<1> HIDE DEF Records
<1>2. Roomy(at) <=> at = [id \in Body |-> at[id]] /\ \A id \in Body : at[id] \in Records
  BY DEF Roomy, Records
<1> QED
  BY <1>1, <1>2

LEMMA RoomyCoordinates ==
  ASSUME NEW at, Roomy(at), NEW id \in Body
  PROVE  /\ DOMAIN at[id] = {"position", "velocity", "spin"}
         /\ at[id].position.x \in Int /\ at[id].position.y \in Int /\ at[id].position.z \in Int
<1>1. IsBody(at[id])
  BY RoomyBodies
<1> DEFINE body == at[id]
<1>2. body = [position |-> body.position, velocity |-> body.velocity, spin |-> body.spin]
      /\ InCube(body.position, Room) /\ Room \in Nat
  BY <1>1, SettingsAssumption DEF IsBody
<1> HIDE DEF body
<1>3. DOMAIN body = {"position", "velocity", "spin"}
  BY <1>2
<1> QED
  BY <1>2, <1>3 DEF InCube, body

-----------------------------------------------------------------------------

ContactsAndCharges == ContactCarriesCharge /\ ChargeLedger

(* An action off the surface takes the contact and the charge together.    *)
LEMMA ActuatorsKeepAccounts ==
  ASSUME ContactsAndCharges, ApplyActuators
  PROVE  ContactsAndCharges'
<1> DEFINE Acts(id) == SurfaceActs(contacts[id], charges[id], commands[id])
           Cues(id) == AirActs(charges[id], commands[id])
<1>1. ASSUME NEW id \in Body, id = Objective
      PROVE  /\ contacts'[id] = contacts[id]
             /\ charges'[id] = charges[id]
             /\ spent'[id] = spent[id]
  BY <1>1 DEF ApplyActuators
<1>2. ASSUME NEW id \in Body, id # Objective
      PROVE  /\ contacts'[id].touching = (contacts[id].touching /\ ~Acts(id))
             /\ charges'[id].surface = (charges[id].surface /\ ~Acts(id))
             /\ charges'[id].air = (charges[id].air /\ ~Cues(id))
             /\ spent'[id].surface = spent[id].surface + (IF Acts(id) THEN 1 ELSE 0)
             /\ spent'[id].air = spent[id].air + (IF Cues(id) THEN 1 ELSE 0)
  BY <1>2 DEF ApplyActuators, ContactSpent, ChargeSpent
<1>3. ASSUME NEW id \in Body
      PROVE  /\ Acts(id) => contacts[id].touching /\ charges[id].surface
             /\ Cues(id) => charges[id].air
  BY DEF SurfaceActs, AirActs
<1> HIDE DEF Acts, Cues
<1>4. ContactCarriesCharge'
  <2> SUFFICES ASSUME NEW id \in Body
               PROVE  /\ contacts'[id].touching => charges'[id].surface
                      /\ stage' \in {"collide", "arena"} => ~contacts'[id].touching
    BY DEF ContactCarriesCharge
  <2>1. stage' = "integrate"
    BY DEF ApplyActuators
  <2>2. contacts[id].touching => charges[id].surface
    BY DEF ContactsAndCharges, ContactCarriesCharge
  <2>3. CASE id = Objective
    BY <1>1, <2>1, <2>2, <2>3
  <2>4. CASE id # Objective
    BY <1>2, <2>1, <2>2, <2>4
  <2> QED
    BY <2>3, <2>4
<1>5. ChargeLedger'
  <2> SUFFICES ASSUME NEW id \in Body
               PROVE  /\ spent'[id].surface = (IF charges'[id].surface THEN 0 ELSE 1)
                      /\ spent'[id].air = (IF charges'[id].air THEN 0 ELSE 1)
    BY DEF ChargeLedger
  <2>1. /\ spent[id].surface = (IF charges[id].surface THEN 0 ELSE 1)
        /\ spent[id].air = (IF charges[id].air THEN 0 ELSE 1)
    BY DEF ContactsAndCharges, ChargeLedger
  <2>2. CASE id = Objective
    BY <1>1, <2>1, <2>2
  <2>3. CASE id # Objective
    <3>1. spent'[id].surface = (IF charges'[id].surface THEN 0 ELSE 1)
      <4>1. CASE Acts(id)
        <5>1. charges[id].surface /\ ~charges'[id].surface
          BY <1>2, <1>3, <2>3, <4>1
        <5>2. spent[id].surface = 0 /\ spent'[id].surface = spent[id].surface + 1
          BY <1>2, <2>1, <2>3, <4>1, <5>1
        <5> QED
          BY <5>1, <5>2
      <4>2. CASE ~Acts(id)
        <5>1. charges'[id].surface <=> charges[id].surface
          BY <1>2, <2>3, <4>2
        <5>2. spent'[id].surface = spent[id].surface + 0
          BY <1>2, <2>3, <4>2
        <5> QED
          BY <2>1, <5>1, <5>2
      <4> QED
        BY <4>1, <4>2
    <3>2. spent'[id].air = (IF charges'[id].air THEN 0 ELSE 1)
      <4>1. CASE Cues(id)
        <5>1. charges[id].air /\ ~charges'[id].air
          BY <1>2, <1>3, <2>3, <4>1
        <5>2. spent[id].air = 0 /\ spent'[id].air = spent[id].air + 1
          BY <1>2, <2>1, <2>3, <4>1, <5>1
        <5> QED
          BY <5>1, <5>2
      <4>2. CASE ~Cues(id)
        <5>1. charges'[id].air <=> charges[id].air
          BY <1>2, <2>3, <4>2
        <5>2. spent'[id].air = spent[id].air + 0
          BY <1>2, <2>3, <4>2
        <5> QED
          BY <2>1, <5>1, <5>2
      <4> QED
        BY <4>1, <4>2
    <3> QED
      BY <3>1, <3>2
  <2> QED
    BY <2>2, <2>3
<1> QED
  BY <1>4, <1>5 DEF ContactsAndCharges

(* An arena contact of either kind restores what was spent; a body without *)
(* one keeps its charges and, in the arena stage, touches nothing.         *)
LEMMA ArenaRestoresAccounts ==
  ASSUME ContactsAndCharges, ResolveArena
  PROVE  ContactsAndCharges'
<1> SUFFICES ASSUME NEW id \in Body
             PROVE  /\ contacts'[id].touching => charges'[id].surface
                    /\ ~(stage' \in {"collide", "arena"})
                    /\ spent'[id].surface = (IF charges'[id].surface THEN 0 ELSE 1)
                    /\ spent'[id].air = (IF charges'[id].air THEN 0 ELSE 1)
  BY DEF ContactsAndCharges, ContactCarriesCharge, ChargeLedger
<1> DEFINE Struck == Scores(id, bodies[id]) \/ HitsWall(id, bodies[id])
<1>1. stage' \in {"report", "actuate"}
  BY DEF ResolveArena
<1>2. /\ ~contacts[id].touching
      /\ spent[id].surface = (IF charges[id].surface THEN 0 ELSE 1)
      /\ spent[id].air = (IF charges[id].air THEN 0 ELSE 1)
  BY DEF ContactsAndCharges, ContactCarriesCharge, ChargeLedger, ResolveArena
<1>3. /\ contacts'[id] = ArenaContact(id, bodies[id], contacts[id])
      /\ charges'[id] = Recharged(id, bodies[id], charges[id])
      /\ spent'[id] = IF contacts'[id].touching THEN [surface |-> 0, air |-> 0] ELSE spent[id]
  BY DEF ResolveArena
<1>4. CASE Struck
  <2>1. contacts'[id].touching
    BY <1>3, <1>4 DEF ArenaContact, DefaultContact
  <2>2. charges'[id].surface /\ charges'[id].air
    BY <1>3, <1>4 DEF Recharged, DefaultCharges
  <2> QED
    BY <1>1, <1>3, <2>1, <2>2
<1>5. CASE ~Struck
  <2>1. contacts'[id] = contacts[id] /\ charges'[id] = charges[id]
    BY <1>3, <1>5 DEF ArenaContact, Recharged
  <2> QED
    BY <1>1, <1>2, <1>3, <2>1
<1> QED
  BY <1>4, <1>5

LEMMA AccountsHold == Spec => []ContactsAndCharges
<1>1. Init => ContactsAndCharges
  BY DEF Init, ContactsAndCharges, ContactCarriesCharge, ChargeLedger, DefaultCharges
<1>2. ContactsAndCharges /\ [Next]_vars => ContactsAndCharges'
  <2> SUFFICES ASSUME ContactsAndCharges, [Next]_vars PROVE ContactsAndCharges'
    OBVIOUS
  <2>1. CASE Latch
    BY <2>1 DEF Latch, ContactsAndCharges, ContactCarriesCharge, ChargeLedger
  <2>2. CASE ApplyActuators
    BY <2>2, ActuatorsKeepAccounts
  <2>3. CASE Integrate
    BY <2>3 DEF Integrate, Released, ContactsAndCharges, ContactCarriesCharge, ChargeLedger
  <2>4. CASE CollideSpheres
    BY <2>4 DEF CollideSpheres, ContactsAndCharges, ContactCarriesCharge, ChargeLedger
  <2>5. CASE ResolveArena
    BY <2>5, ArenaRestoresAccounts
  <2>6. CASE Report
    BY <2>6 DEF Report, ContactsAndCharges, ContactCarriesCharge, ChargeLedger
  <2>7. CASE UNCHANGED vars
    BY <2>7 DEF vars, ContactsAndCharges, ContactCarriesCharge, ChargeLedger
  <2> QED
    BY <2>1, <2>2, <2>3, <2>4, <2>5, <2>6, <2>7 DEF Next
<1> QED
  BY <1>1, <1>2, PTL DEF Spec

(* Whoever touches the arena has its surface action, and contact is        *)
(* released before pairs are resolved (apply_actuators, integrate,         *)
(* resolve_body_arena), for any bodies, settings and commands.             *)
THEOREM ContactIsCharged == Spec => []ContactCarriesCharge
<1>1. ContactsAndCharges => ContactCarriesCharge
  BY DEF ContactsAndCharges
<1> QED
  BY <1>1, AccountsHold, PTL

(* One surface action and one air cue between two arena contacts, whatever *)
(* is commanded and however long the flight (apply_actuators).             *)
THEOREM ChargesAreSpentOnce == Spec => []ChargeLedger
<1>1. ContactsAndCharges => ChargeLedger
  BY DEF ContactsAndCharges
<1> QED
  BY <1>1, AccountsHold, PTL

-----------------------------------------------------------------------------

(* The sizes ArenaAssumption speaks of, one by one. *)
LEMMA ArenaIsRoomy ==
  /\ Radius \in Nat /\ Arena.halfLength \in Nat /\ Arena.halfWidth \in Nat
  /\ Arena.height \in Nat /\ Arena.goalHalfWidth \in Nat /\ Arena.goalHeight \in Nat
  /\ Radius <= Arena.halfLength /\ Radius <= Arena.halfWidth
  /\ 2 * Radius <= Arena.height /\ Radius <= Arena.goalHeight
  BY ArenaAssumption

(* Wherever a body is, the walls put it inside. *)
LEMMA WallsContain ==
  ASSUME NEW id \in Body, NEW at, at.x \in Int, at.y \in Int, at.z \in Int, GoalOf(id, at) = NoTeam
  PROVE  Inside(id, Corrected(id, at))
<1> DEFINE y == Within(at.y, -Arena.halfWidth, Arena.halfWidth)
           z == Within(at.z, 0, Arena.height)
           x == IF InGoalMouth(id, at) THEN at.x
                ELSE Within(at.x, -Arena.halfLength, Arena.halfLength)
<1>1. Corrected(id, at).x = x /\ Corrected(id, at).y = y /\ Corrected(id, at).z = z
  BY DEF Corrected, Vec
<1>2. y \in Int /\ z \in Int /\ z \in Radius .. Arena.height - Radius
      /\ AbsOf(y) <= Arena.halfWidth - Radius
  BY ArenaIsRoomy DEF Within, ClampTo, AbsOf
<1>3. CASE InGoalMouth(id, at)
  <2>1. x = at.x /\ id = Objective /\ AbsOf(at.y) <= Arena.goalHalfWidth /\ at.z <= Arena.goalHeight
    BY <1>3 DEF InGoalMouth
  <2>2. AbsOf(y) <= Arena.goalHalfWidth /\ z <= Arena.goalHeight
    BY <2>1, ArenaIsRoomy DEF Within, ClampTo, AbsOf
  <2>3. ScoringTeam(at.x) = NoTeam
    BY <1>3 DEF GoalOf
  <2>4. AbsOf(x) <= Arena.halfLength + Radius
    BY <2>1, <2>3, ArenaIsRoomy DEF ScoringTeam, NoTeam, AbsOf
  <2> HIDE DEF x, y, z
  <2> QED
    BY <1>1, <1>2, <2>1, <2>2, <2>4 DEF Inside
<1>4. CASE ~InGoalMouth(id, at)
  <2>1. AbsOf(x) <= Arena.halfLength - Radius
    BY <1>4, ArenaIsRoomy DEF Within, ClampTo, AbsOf
  <2> HIDE DEF x, y, z
  <2> QED
    BY <1>1, <1>2, <2>1 DEF Inside
<1> QED
  BY <1>3, <1>4

(* A body the walls did not move was inside already. *)
LEMMA ArenaContains ==
  ASSUME NEW id \in Body, NEW body,
         body.position.x \in Int, body.position.y \in Int, body.position.z \in Int,
         DOMAIN body = {"position", "velocity", "spin"}
  PROVE  Inside(id, ArenaResolved(id, body).position)
<1>1. CASE Scores(id, body)
  <2>1. ArenaResolved(id, body).position = Vec(0, 0, Radius)
    BY <1>1 DEF ArenaResolved, Recentred
  <2>2. Inside(id, Vec(0, 0, Radius))
    BY ArenaIsRoomy DEF Inside, Vec, AbsOf
  <2> QED
    BY <2>1, <2>2
<1>2. CASE ~Scores(id, body)
  <2>1. Inside(id, Corrected(id, body.position))
    BY <1>2, WallsContain DEF Scores
  <2>2. ArenaResolved(id, body).position = Corrected(id, body.position)
    BY <1>2 DEF ArenaResolved, HitsWall, AgainstWalls
  <2> QED
    BY <2>1, <2>2
<1> QED
  BY <1>1, <1>2

(* Wherever motion and collisions put the bodies, provided they keep       *)
(* within the room, the arena has all of them back inside at the end of a  *)
(* substep (resolve_arena, resolve_body_arena).                            *)
THEOREM ArenaAlwaysContains == Spec /\ []Roomy(bodies) => []Contained
<1>1. Init => Contained
  BY KickoffAssumption DEF Init, Contained
<1>2. Roomy(bodies) /\ Contained /\ [Next]_vars => Contained'
  <2> SUFFICES ASSUME Roomy(bodies), Contained, [Next]_vars PROVE Contained'
    OBVIOUS
  <2>1. CASE Latch
    BY <2>1 DEF Latch, Contained
  <2>2. CASE ApplyActuators
    BY <2>2 DEF ApplyActuators, Contained
  <2>3. CASE Integrate
    BY <2>3 DEF Integrate, Contained
  <2>4. CASE CollideSpheres
    BY <2>4 DEF CollideSpheres, Contained
  <2>5. CASE ResolveArena
    <3>1. ASSUME NEW id \in Body PROVE Inside(id, bodies'[id].position)
      <4>1. /\ DOMAIN bodies[id] = {"position", "velocity", "spin"}
            /\ bodies[id].position.x \in Int
            /\ bodies[id].position.y \in Int
            /\ bodies[id].position.z \in Int
        BY RoomyCoordinates
      <4>5. Inside(id, ArenaResolved(id, bodies[id]).position)
        BY <4>1, ArenaContains
      <4> QED
        BY <2>5, <4>5 DEF ResolveArena
    <3> QED
      BY <3>1 DEF Contained
  <2>6. CASE Report
    BY <2>6 DEF Report, Contained
  <2>7. CASE UNCHANGED vars
    BY <2>7 DEF vars, Contained
  <2> QED
    BY <2>1, <2>2, <2>3, <2>4, <2>5, <2>6, <2>7 DEF Next
<1> QED
  BY <1>1, <1>2, PTL DEF Spec

-----------------------------------------------------------------------------

(* Every place of the canonical order holds a pair of two bodies: a pair's *)
(* rank among the pairs is its own, so the ranks are all taken.            *)
LEMMA PairsAreTwo ==
  /\ Len(Pairs) \in Nat /\ DOMAIN Pairs = 1 .. Len(Pairs)
  /\ \A n \in 1 .. Len(Pairs) :
       /\ Pairs[n][1] \in Body /\ Pairs[n][2] \in Body /\ Pairs[n] = <<Pairs[n][1], Pairs[n][2]>>
       /\ Pairs[n][1] < Pairs[n][2] /\ Pairs[n][1] # Pairs[n][2]
  /\ \A a, b \in Body : a < b => \E n \in 1 .. Len(Pairs) : Pairs[n] = <<a, b>>
  /\ \A m, n \in 1 .. Len(Pairs) : Pairs[m] = Pairs[n] => m = n
<1> DEFINE pairs == {pair \in Body \X Body : pair[1] < pair[2]}
           Before(p, q) == p[1] < q[1] \/ (p[1] = q[1] /\ p[2] <= q[2])
           Earlier(pair) == {p \in pairs : p[1] < pair[1] \/ (p[1] = pair[1] /\ p[2] <= pair[2])}
           total == Cardinality(pairs)
           rank == [pair \in pairs |-> Cardinality(Earlier(pair))]
<1>1. IsFiniteSet(pairs) /\ total \in Nat
  <2>1. IsFiniteSet(Body \X Body)
    BY BodiesInOrder, FS_Product
  <2>2. IsFiniteSet(pairs)
    BY <2>1, FS_Subset
  <2> HIDE DEF pairs
  <2> QED
    BY <2>2, FS_CardinalityType
<1>2. ASSUME NEW p \in pairs
      PROVE  /\ p[1] \in Nat /\ p[2] \in Nat /\ p = <<p[1], p[2]>> /\ p[1] < p[2]
             /\ p[1] \in Body /\ p[2] \in Body
  <2>1. PICK one \in Body, other \in Body : p = <<one, other>>
    OBVIOUS
  <2>2. p[1] = one /\ p[2] = other /\ p[1] < p[2]
    BY <2>1
  <2>3. one \in Nat /\ other \in Nat
    BY BodiesInOrder
  <2> QED
    BY <2>1, <2>2, <2>3
<1>3. Pairs = [i \in 1 .. total |-> CHOOSE pair \in pairs : Cardinality(Earlier(pair)) = i]
  BY DEF Pairs
<1>4. ASSUME NEW p \in pairs
      PROVE  /\ IsFiniteSet(Earlier(p)) /\ Earlier(p) \subseteq pairs /\ p \in Earlier(p)
             /\ Cardinality(Earlier(p)) \in 1 .. total
  <2>1. Earlier(p) \subseteq pairs /\ p \in Earlier(p)
    BY <1>2
  <2> HIDE DEF Earlier, pairs
  <2>2. IsFiniteSet(Earlier(p)) /\ Cardinality(Earlier(p)) <= total
    BY <1>1, <2>1, FS_Subset
  <2>3. Cardinality(Earlier(p)) \in Nat /\ Cardinality(Earlier(p)) # 0
    BY <2>1, <2>2, FS_CardinalityType, FS_EmptySet
  <2> QED
    BY <1>1, <2>1, <2>2, <2>3
<1>5. ASSUME NEW p \in pairs, NEW q \in pairs, p # q, Before(p, q)
      PROVE  Cardinality(Earlier(p)) # Cardinality(Earlier(q))
  <2>1. q \notin Earlier(p)
    BY <1>2, <1>5
  <2>2. Earlier(p) \subseteq Earlier(q)
    BY <1>2, <1>5
  <2> HIDE DEF Earlier, pairs
  <2>3. Earlier(p) # Earlier(q)
    BY <1>4, <2>1
  <2> QED
    BY <1>4, <2>2, <2>3, FS_Subset
<1>6. ASSUME NEW p \in pairs, NEW q \in pairs, p # q
      PROVE  rank[p] # rank[q]
  <2>1. Before(p, q) \/ Before(q, p)
    BY <1>2
  <2> HIDE DEF Earlier, pairs, Before
  <2> QED
    BY <1>5, <1>6, <2>1
<1> HIDE DEF pairs, Earlier, total
<1>7. rank \in Injection(pairs, 1 .. total)
  <2>1. rank \in [pairs -> 1 .. total]
    BY <1>4
  <2> HIDE DEF rank
  <2> QED
    BY <1>6, <2>1 DEF Injection, IsInjective
<1>8. rank \in Surjection(pairs, 1 .. total)
  <2>1. IsFiniteSet(1 .. total) /\ Cardinality(1 .. total) = total
    BY <1>1, FS_Interval
  <2> HIDE DEF rank
  <2> QED
    BY <1>7, <2>1, FS_Injection DEF total
<1>9. ASSUME NEW n \in 1 .. total PROVE Pairs[n] \in pairs /\ rank[Pairs[n]] = n
  <2>1. \E pair \in pairs : rank[pair] = n
    <3> HIDE DEF rank
    <3> QED
      BY <1>8 DEF Surjection
  <2>2. \E pair \in pairs : Cardinality(Earlier(pair)) = n
    BY <2>1
  <2> QED
    BY <1>3, <2>2
<1>10. Len(Pairs) = total /\ DOMAIN Pairs = 1 .. total
  BY <1>1, <1>3
<1>11. ASSUME NEW a \in Body, NEW b \in Body, a < b
       PROVE  \E n \in 1 .. total : Pairs[n] = <<a, b>>
  <2> DEFINE p == <<a, b>>
             n == rank[p]
  <2>1. p \in pairs
    BY <1>11 DEF pairs
  <2>2. n \in 1 .. total
    BY <1>4, <2>1
  <2> HIDE DEF rank, p
  <2>3. Pairs[n] \in pairs /\ rank[Pairs[n]] = n
    BY <1>9, <2>2
  <2>4. Pairs[n] = p
    BY <1>6, <2>1, <2>3
  <2> QED
    BY <2>2, <2>4 DEF p
<1>12. ASSUME NEW n \in 1 .. total
       PROVE  /\ Pairs[n][1] \in Body /\ Pairs[n][2] \in Body /\ Pairs[n] = <<Pairs[n][1], Pairs[n][2]>>
              /\ Pairs[n][1] < Pairs[n][2] /\ Pairs[n][1] # Pairs[n][2]
  <2> DEFINE p == Pairs[n]
  <2>1. p \in pairs
    BY <1>9
  <2> HIDE DEF p
  <2>2. /\ p[1] \in Nat /\ p[2] \in Nat /\ p = <<p[1], p[2]>> /\ p[1] < p[2]
        /\ p[1] \in Body /\ p[2] \in Body
    BY <1>2, <2>1
  <2>3. p[1] # p[2]
    BY <2>2
  <2> QED
    BY <2>2, <2>3 DEF p
<1> HIDE DEF rank
<1>13. \A m, n \in 1 .. total : Pairs[m] = Pairs[n] => m = n
  BY <1>9
<1> QED
  BY <1>1, <1>10, <1>11, <1>12, <1>13

(* A pair without the objective does not move it, and a pair with it shows *)
(* somebody to touch it.                                                   *)
LEMMA PairSparesBall ==
  ASSUME NEW at, DOMAIN at = Body, Objective \in Body, NEW pair, pair[1] # pair[2],
         Toucher(at, pair) = {}
  PROVE  Separated(at, pair)[Objective] = at[Objective]
<1>1. Objective # pair[1] /\ Objective # pair[2]
  <2> SUFFICES ASSUME Objective \in {pair[1], pair[2]} PROVE FALSE
    OBVIOUS
  <2>1. {pair[1], pair[2]} \ {Objective} # {}
    OBVIOUS
  <2> QED
    BY <2>1 DEF Toucher
<1> QED
  BY <1>1 DEF Separated

(* What a pair leaves, and how a sweep and several sweeps unroll.          *)
Parted(before, pair) ==
  IF Overlaps(before.bodies, pair)
  THEN [bodies  |-> Separated(before.bodies, pair),
        touched |-> before.touched \cup Toucher(before.bodies, pair)]
  ELSE before

LEMMA SweepUnrolls ==
  ASSUME NEW at, NEW seen
  PROVE  \E f : /\ f[0] = [bodies |-> at, touched |-> seen]
                /\ \A n \in 1 .. Len(Pairs) : f[n] = Parted(f[n - 1], Pairs[n])
                /\ Swept(at, seen) = f[Len(Pairs)]
<1> DEFINE Sweep(before, n) == Parted(before, Pairs[n])
           start == [bodies |-> at, touched |-> seen]
           Equation(f, k) == f = [n \in 0 .. k |-> IF n = 0 THEN start ELSE Sweep(f[n - 1], n)]
           total == Len(Pairs)
           upto == CHOOSE f : Equation(f, total)
<1>1. total \in Nat
  BY PairsAreTwo
<1>2. Swept(at, seen) = upto[total]
  BY DEF Swept, Parted
<1>4. ASSUME NEW k \in Nat PROVE \E f : Equation(f, k)
  <2> HIDE DEF Sweep, start
  <2> DEFINE S == {n \in Nat : \E f : Equation(f, n)}
  <2>1. 0 \in S
    <3>1. Equation([n \in 0 .. 0 |-> start], 0)
      OBVIOUS
    <3> HIDE DEF Equation
    <3> QED
      BY <3>1
  <2>2. ASSUME NEW m \in Nat, m \in S PROVE m + 1 \in S
    <3>1. PICK f : Equation(f, m)
      BY <2>2
    <3> DEFINE g == [n \in 0 .. m + 1 |-> IF n = m + 1 THEN Sweep(f[m], m + 1) ELSE f[n]]
    <3>2. ASSUME NEW n \in 0 .. m + 1
          PROVE  g[n] = IF n = 0 THEN start ELSE Sweep(g[n - 1], n)
      <4>1. CASE n = 0
        <5>1. f[0] = start
          BY <3>1
        <5> QED
          BY <4>1, <5>1
      <4>2. CASE n = m + 1
        <5>1. g[n] = Sweep(f[m], n) /\ n - 1 = m /\ g[m] = f[m] /\ n # 0
          BY <4>2
        <5> HIDE DEF g
        <5> QED
          BY <5>1
      <4>3. CASE n # 0 /\ n # m + 1
        <5>1. n \in 0 .. m /\ n - 1 \in 0 .. m + 1 /\ n - 1 # m + 1
          BY <4>3
        <5>2. f[n] = Sweep(f[n - 1], n)
          BY <3>1, <4>3, <5>1
        <5>3. g[n] = f[n] /\ g[n - 1] = f[n - 1]
          BY <4>3, <5>1
        <5> HIDE DEF g
        <5> QED
          BY <4>3, <5>2, <5>3
      <4> QED
        BY <4>1, <4>2, <4>3
    <3>3. Equation(g, m + 1)
      BY <3>2
    <3> HIDE DEF Equation, g
    <3> QED
      BY <3>3
  <2>3. Nat \subseteq S
    <3> HIDE DEF S
    <3> QED
      BY <2>1, <2>2, SetInduction
  <2> QED
    BY <2>3
<1>5. Equation(upto, total)
  <2> HIDE DEF Equation
  <2> QED
    BY <1>1, <1>4
<1> HIDE DEF upto
<1>6. ASSUME NEW n \in 0 .. total
      PROVE  upto[n] = IF n = 0 THEN start ELSE Sweep(upto[n - 1], n)
  <2> HIDE DEF Sweep, start, total
  <2> QED
    BY <1>5
<1>7. \A n \in 1 .. total : n \in 0 .. total /\ n # 0
  BY <1>1
<1> HIDE DEF Sweep, start
<1>8. upto[0] = start /\ \A n \in 1 .. total : upto[n] = Sweep(upto[n - 1], n)
  BY <1>1, <1>6, <1>7
<1> QED
  BY <1>2, <1>8 DEF Sweep, start

(* So a sweep that shows nobody to touch the objective leaves it alone.    *)
LEMMA SweepSparesBall ==
  ASSUME NEW at, DOMAIN at = Body, NEW seen
  PROVE  /\ DOMAIN Swept(at, seen).bodies = Body
         /\ Swept(at, seen).touched = {} =>
              seen = {} /\ Swept(at, seen).bodies[Objective] = at[Objective]
<1> DEFINE start == [bodies |-> at, touched |-> seen]
           Sweep(before, n) == Parted(before, Pairs[n])
           total == Len(Pairs)
<1>1. total \in Nat /\ \A n \in 1 .. total : Pairs[n][1] # Pairs[n][2]
  BY PairsAreTwo
<1>2. PICK upto : /\ upto[0] = start
                  /\ \A n \in 1 .. total : upto[n] = Sweep(upto[n - 1], n)
                  /\ Swept(at, seen) = upto[total]
  BY SweepUnrolls
<1>3. Objective \in Body
  BY BodiesInOrder
<1> DEFINE Spared(after) ==
             /\ DOMAIN after.bodies = Body
             /\ after.touched = {} => seen = {} /\ after.bodies[Objective] = at[Objective]
           S == {n \in Nat : n <= total => Spared(upto[n])}
<1>7. Spared(start)
  OBVIOUS
<1>8. ASSUME NEW before, Spared(before), NEW n \in 1 .. total PROVE Spared(Sweep(before, n))
  <2>1. CASE Overlaps(before.bodies, Pairs[n])
    <3>1. /\ Sweep(before, n).bodies = Separated(before.bodies, Pairs[n])
          /\ Sweep(before, n).touched = before.touched \cup Toucher(before.bodies, Pairs[n])
      BY <2>1 DEF Parted
    <3>2. DOMAIN before.bodies = Body
      BY SMTT(30), <1>8
    <3>3. DOMAIN Separated(before.bodies, Pairs[n]) = Body
      BY <3>2 DEF Separated
    <3>4. ASSUME Sweep(before, n).touched = {}
          PROVE  seen = {} /\ Separated(before.bodies, Pairs[n])[Objective] = at[Objective]
      <4>1. before.touched = {} /\ Toucher(before.bodies, Pairs[n]) = {}
        BY <3>1, <3>4
      <4>2. seen = {} /\ before.bodies[Objective] = at[Objective]
        BY <1>8, <4>1
      <4>3. Separated(before.bodies, Pairs[n])[Objective] = before.bodies[Objective]
        BY <1>1, <1>3, <3>2, <4>1, PairSparesBall
      <4> QED
        BY <4>2, <4>3
    <3> HIDE DEF Sweep
    <3> QED
      BY <3>1, <3>3, <3>4
  <2>2. CASE ~Overlaps(before.bodies, Pairs[n])
    <3>1. Sweep(before, n) = before
      BY <2>2 DEF Parted
    <3> HIDE DEF Sweep
    <3> QED
      BY <1>8, <3>1
  <2> QED
    BY <2>1, <2>2
<1> HIDE DEF Spared, Sweep, start, total
<1>9. 0 \in S
  BY <1>1, <1>2, <1>7
<1>10. ASSUME NEW n \in Nat, n \in S PROVE n + 1 \in S
  <2> SUFFICES ASSUME n + 1 <= total PROVE Spared(upto[n + 1])
    OBVIOUS
  <2>1. n + 1 \in 0 .. total /\ n + 1 \in 1 .. total /\ n + 1 # 0 /\ (n + 1) - 1 = n /\ n <= total
    BY <1>1
  <2>2. upto[n + 1] = Sweep(upto[n], n + 1)
    BY <1>2, <2>1
  <2>3. Spared(upto[n])
    BY <1>10, <2>1
  <2> QED
    BY <1>8, <2>1, <2>2, <2>3
<1>11. Nat \subseteq S
  <2> HIDE DEF S
  <2> QED
    BY <1>9, <1>10, SetInduction
<1>12. Spared(upto[total])
  BY <1>1, <1>11
<1> QED
  BY <1>2, <1>12 DEF Spared

(* The objective as it would be had nobody been there, from the tick's     *)
(* kickoff to wherever the tick stands.                                    *)
BallAlone ==
  /\ DOMAIN bodies = Body
  /\ stage = "rest" => bodies[Objective] = kickoff.bodies[Objective]
  /\ stage \in {"actuate", "integrate", "collide", "arena"} => substep \in {0, 1}
  /\ touched = {} =>
       LET start == kickoff.bodies[Objective]
           entered == IF substep = 0 THEN start ELSE Alone(start)
       IN  /\ stage \in {"actuate", "integrate"} => bodies[Objective] = entered
           /\ stage \in {"collide", "arena"} => bodies[Objective] = Integrated(entered)
           /\ stage = "report" => bodies[Objective] = Alone(Alone(start))

(* Whatever moves the ball in a tick is reported as a touch, for any       *)
(* bodies, settings and commands: a tick without one leaves the ball where *)
(* two substeps of an empty arena would (collide_spheres).                 *)
THEOREM TouchesAreReported == Spec => []UntouchedFliesAlone
<1> USE DEF Substeps
<1>1. Objective \in Body
  BY BodiesInOrder
<1>2. Init => BallAlone
  BY KickoffAssumption DEF Init, BallAlone
<1>3. BallAlone /\ [Next]_vars => BallAlone'
  <2> SUFFICES ASSUME BallAlone, [Next]_vars PROVE BallAlone'
    OBVIOUS
  <2>1. CASE Latch
    BY <2>1 DEF Latch, BallAlone
  <2>2. CASE ApplyActuators
    <3>1. bodies'[Objective] = bodies[Objective] /\ DOMAIN bodies' = Body
      BY <1>1, <2>2 DEF ApplyActuators
    <3>2. stage = "actuate" /\ stage' = "integrate" /\ UNCHANGED <<substep, touched, kickoff>>
      BY <2>2 DEF ApplyActuators
    <3> QED
      BY <3>1, <3>2 DEF BallAlone
  <2>3. CASE Integrate
    <3>1. bodies'[Objective] = Integrated(bodies[Objective]) /\ DOMAIN bodies' = Body
      BY <1>1, <2>3 DEF Integrate
    <3>2. stage = "integrate" /\ stage' \in {"collide", "arena"} /\ UNCHANGED <<substep, touched, kickoff>>
      BY <2>3 DEF Integrate
    <3> QED
      BY <3>1, <3>2 DEF BallAlone
  <2>4. CASE CollideSpheres
    <3>1. /\ stage = "collide" /\ stage' \in {"collide", "arena"} /\ UNCHANGED <<substep, kickoff>>
          /\ bodies' = Swept(bodies, touched).bodies /\ touched' = Swept(bodies, touched).touched
      BY <2>4 DEF CollideSpheres
    <3>2. DOMAIN bodies = Body
      BY DEF BallAlone
    <3>3. /\ DOMAIN bodies' = Body
          /\ touched' = {} => touched = {} /\ bodies'[Objective] = bodies[Objective]
      BY <3>1, <3>2, SweepSparesBall
    <3> QED
      BY <3>1, <3>3 DEF BallAlone
  <2>5. CASE ResolveArena
    <3>1. /\ bodies'[Objective] = ArenaResolved(Objective, bodies[Objective])
          /\ DOMAIN bodies' = Body
      BY <1>1, <2>5 DEF ResolveArena
    <3>2. /\ stage = "arena" /\ substep' = substep + 1
          /\ stage' = IF substep' = 2 THEN "report" ELSE "actuate"
          /\ UNCHANGED <<touched, kickoff>>
      BY <2>5 DEF ResolveArena
    <3>3. substep \in {0, 1}
      BY <3>2 DEF BallAlone
    <3>4. CASE touched = {}
      <4> DEFINE start == kickoff.bodies[Objective]
      <4>1. bodies[Objective] = Integrated(IF substep = 0 THEN start ELSE Alone(start))
        BY <3>2, <3>4 DEF BallAlone
      <4>2. CASE substep = 0
        <5>1. bodies'[Objective] = Alone(start)
          BY <3>1, <4>1, <4>2 DEF Alone
        <5>2. stage' = "actuate" /\ substep' = 1
          BY <3>2, <4>2
        <5> QED
          BY <3>1, <3>2, <5>1, <5>2 DEF BallAlone
      <4>3. CASE substep = 1
        <5>1. bodies'[Objective] = Alone(Alone(start))
          BY <3>1, <4>1, <4>3 DEF Alone
        <5>2. stage' = "report" /\ substep' = 2
          BY <3>2, <4>3
        <5> QED
          BY <3>1, <3>2, <5>1, <5>2 DEF BallAlone
      <4> QED
        BY <3>3, <4>2, <4>3
    <3>5. CASE touched # {}
      <4>1. stage' \in {"actuate", "report"} /\ (stage' = "actuate" => substep' \in {0, 1})
        BY <3>2, <3>3
      <4> QED
        BY <3>1, <3>2, <3>5, <4>1 DEF BallAlone
    <3> QED
      BY <3>4, <3>5
  <2>6. CASE Report
    BY <2>6 DEF Report, BallAlone
  <2>7. CASE UNCHANGED vars
    BY <2>7 DEF vars, BallAlone
  <2> QED
    BY <2>1, <2>2, <2>3, <2>4, <2>5, <2>6, <2>7 DEF Next
<1>4. BallAlone => UntouchedFliesAlone
  BY DEF BallAlone, UntouchedFliesAlone
<1> QED
  BY <1>2, <1>3, <1>4, PTL DEF Spec

-----------------------------------------------------------------------------

GoalLine == Arena.halfLength + Radius

(* What the refinement needs to know of a substep: where it began and how  *)
(* much travel the tick has reported before it.                            *)
TrackKept ==
  /\ stage \in {"actuate", "integrate", "collide", "arena"} =>
       /\ substep \in {0, 1}
       /\ events.progress \in Int
       /\ substep = 0 => events.progress = 0
       /\ substep = 1 => 2 * AbsOf(events.progress) < WordLimit
  /\ stage \in {"integrate", "collide", "arena"} => entry \in -GoalLine .. GoalLine

LEMMA BallAssumptions ==
  /\ Objective \in Body
  /\ GoalLine \in Nat /\ WordLimit \in Nat \ {0} /\ 4 * GoalLine < WordLimit
  BY BodiesInOrder, ArenaAssumption, FixedAssumption DEF GoalLine

LEMMA BallTyped ==
  ASSUME TypeOK
  PROVE  /\ bodies[Objective].position.x \in Int
         /\ 4 * AbsOf(bodies[Objective].position.x) < WordLimit
         /\ events = [scorer |-> events.scorer, progress |-> events.progress, touch |-> events.touch]
         /\ events.progress \in Int /\ events.scorer \in Team \cup {NoTeam}
         /\ scores \in [Team -> 0 .. ScoreLimit]
<1>1. bodies[Objective].position.x \in Int
  BY BallAssumptions, RoomyCoordinates DEF TypeOK
<1>5. events \in [scorer : Team \cup {NoTeam}, progress : Word, touch : Team \cup {"none", "contested"}]
  BY DEF TypeOK
<1>6. events.progress \in Word /\ events.scorer \in Team \cup {NoTeam}
      /\ events = [scorer |-> events.scorer, progress |-> events.progress, touch |-> events.touch]
  BY <1>5
<1>7. \A value \in Word : value \in Int
  BY FixedAssumption DEF Word
<1> QED
  BY <1>1, <1>6, <1>7 DEF TypeOK

(* Inside the arena is between the goal lines.                             *)
LEMMA ContainedInPlay ==
  ASSUME Contained, stage \in {"rest", "actuate", "report"}, bodies[Objective].position.x \in Int
  PROVE  bodies[Objective].position.x \in -GoalLine .. GoalLine
<1>1. Inside(Objective, bodies[Objective].position)
  BY BallAssumptions DEF Contained
<1> DEFINE x == bodies[Objective].position.x
<1>2. AbsOf(x) <= Arena.halfLength - Radius \/ AbsOf(x) <= Arena.halfLength + Radius
  BY <1>1 DEF Inside
<1>3. x \in Int
  OBVIOUS
<1> HIDE DEF x
<1>4. x \in -GoalLine .. GoalLine
  BY <1>2, <1>3, ArenaIsRoomy DEF AbsOf, GoalLine
<1> QED
  BY <1>4 DEF x

(* What the arena does to the objective is a roll, or a goal from beyond   *)
(* the line its position is beyond.                                        *)
LEMMA RollOrGoal ==
  ASSUME TypeOK, TrackKept, TypeOK', Contained', ResolveArena
  PROVE  LET before == bodies[Objective].position.x
             after == bodies'[Objective].position.x
             travel == events'.progress - events.progress
             team == GoalOf(Objective, bodies[Objective].position)
         IN  /\ after \in -GoalLine .. GoalLine
             /\ travel \in Int
             /\ 2 * AbsOf(travel) < WordLimit
             /\ events'.scorer = IF events.scorer = NoTeam THEN team ELSE events.scorer
             /\ scores' = [t \in Team |-> IF t = team THEN SaturatingAdd(scores[t]) ELSE scores[t]]
             /\ \/ (team = NoTeam /\ travel = after - entry)
                \/ (team = "zero" /\ after = 0 /\ travel = before - entry /\ before > GoalLine)
                \/ (team = "one" /\ after = 0 /\ travel = before - entry /\ before < -GoalLine)
<1> DEFINE before == bodies[Objective].position.x
           after == bodies'[Objective].position.x
           team == GoalOf(Objective, bodies[Objective].position)
           told == events.progress
           way == IF team = NoTeam THEN after - entry ELSE before - entry
<1>1. /\ before \in Int /\ 4 * AbsOf(before) < WordLimit
      /\ after \in Int /\ 4 * AbsOf(after) < WordLimit
      /\ events = [scorer |-> events.scorer, progress |-> told, touch |-> events.touch]
      /\ told \in Int
  <2>1. /\ before \in Int /\ 4 * AbsOf(before) < WordLimit
        /\ events = [scorer |-> events.scorer, progress |-> told, touch |-> events.touch]
        /\ told \in Int
    BY BallTyped
  <2>2. after \in Int
    <3>1. Roomy(bodies')
      BY DEF TypeOK, Roomy, Place
    <3> QED
      BY <3>1, BallAssumptions, RoomyCoordinates
  <2>6. 4 * AbsOf(after) < WordLimit
    BY DEF TypeOK
  <2> HIDE DEF before, after, told
  <2> QED
    BY <2>1, <2>2, <2>6
<1>2. /\ stage = "arena" /\ stage' \in {"report", "actuate"}
      /\ bodies'[Objective] = ArenaResolved(Objective, bodies[Objective])
      /\ scores' = [t \in Team |-> IF t = team THEN SaturatingAdd(scores[t]) ELSE scores[t]]
      /\ events' = [events EXCEPT
           !.progress = Wrap(@ + Progress(entry, bodies[Objective], bodies'[Objective])),
           !.scorer   = IF @ = NoTeam THEN team ELSE @]
  BY BallAssumptions DEF ResolveArena
<1>3. after \in -GoalLine .. GoalLine
  <2>1. bodies'[Objective].position.x \in Int
    BY <1>1
  <2>2. AbsOf(after) <= GoalLine
    <3>1. Inside(Objective, bodies'[Objective].position)
      BY <1>2, BallAssumptions DEF Contained
    <3> HIDE DEF after
    <3>2. AbsOf(after) <= Arena.halfLength - Radius \/ AbsOf(after) <= Arena.halfLength + Radius
      BY <3>1 DEF Inside, after
    <3> QED
      BY <1>1, <3>2, ArenaIsRoomy DEF AbsOf, GoalLine
  <2> HIDE DEF after
  <2> QED
    BY <1>1, <2>2, BallAssumptions DEF AbsOf
<1>4. /\ entry \in -GoalLine .. GoalLine /\ (told = 0 \/ 2 * AbsOf(told) < WordLimit)
  BY <1>2 DEF TrackKept
<1>5. /\ \/ team = NoTeam
         \/ (team = "zero" /\ before > GoalLine)
         \/ (team = "one" /\ before < -GoalLine)
      /\ team # NoTeam => after = 0
  <2>1. /\ team \in {NoTeam, ScoringTeam(before)}
        /\ ScoringTeam(before) = "zero" => before > GoalLine
        /\ ScoringTeam(before) = "one" => before < -GoalLine
        /\ ScoringTeam(before) \in {"zero", "one", NoTeam}
    BY <1>1, ArenaIsRoomy DEF GoalOf, ScoringTeam, GoalLine, NoTeam
  <2>2. team # NoTeam => after = 0
    BY <1>2 DEF ArenaResolved, Scores, Recentred, Vec
  <2> HIDE DEF team, after, before
  <2> QED
    BY <2>1, <2>2
<1>6. Progress(entry, bodies[Objective], bodies'[Objective]) = Wrap(way)
  <2>1. CASE team = NoTeam
    BY <1>1, <1>4, <2>1 DEF Progress
  <2>2. CASE team # NoTeam
    <3>1. after - entry - (-before) = before - entry
      <4>1. after = 0 /\ entry \in Int
        BY <1>4, <1>5, <2>2, BallAssumptions
      <4> HIDE DEF after, before
      <4> QED
        BY <1>1, <4>1
    <3> QED
      BY <2>2, <3>1 DEF Progress
  <2> QED
    BY <2>1, <2>2
<1> HIDE DEF before, after, team, told
<1>7. way \in Int /\ 2 * AbsOf(way) < WordLimit
  <2>1. CASE team = NoTeam
    BY <1>3, <1>4, <2>1, BallAssumptions DEF AbsOf
  <2>2. CASE team # NoTeam
    BY <1>1, <1>4, <2>2, BallAssumptions DEF AbsOf
  <2> QED
    BY <2>1, <2>2
<1> HIDE DEF way
<1>8. way \in Word /\ told + way \in Word
  BY <1>1, <1>4, <1>7, BallAssumptions DEF AbsOf, Word
<1>9. Wrap(told + Wrap(way)) = told + way
  <2>1. Wrap(way) = way
    BY <1>8, WordsDoNotWrap
  <2> QED
    BY <1>8, <2>1, WordsDoNotWrap
<1>10. events'.progress = told + way
       /\ events'.scorer = IF events.scorer = NoTeam THEN team ELSE events.scorer
  <2>1. events'.progress = Wrap(told + Wrap(way))
    BY <1>1, <1>2, <1>6 DEF told
  <2>2. events'.scorer = IF events.scorer = NoTeam THEN team ELSE events.scorer
    BY <1>1, <1>2
  <2> QED
    BY <1>9, <2>1, <2>2
<1>11. events'.progress - told = way
  BY <1>1, <1>7, <1>10
<1>12. /\ team = NoTeam => way = after - entry
       /\ team # NoTeam => way = before - entry
  BY DEF way
<1> QED
  BY <1>2, <1>3, <1>5, <1>7, <1>10, <1>11, <1>12 DEF before, after, team, told

(* Every action keeps TrackKept.                                           *)
LEMMA TrackStays ==
  ASSUME TypeOK, Contained, TypeOK', Contained', TrackKept, [Next]_vars
  PROVE  TrackKept'
<1>1. CASE Latch
  <2>1. stage' = "actuate" /\ substep' = 0 /\ events'.progress = 0
    BY <1>1 DEF Latch, NoEvents
  <2> QED
    BY <2>1 DEF TrackKept
<1>2. CASE ApplyActuators
  <2>1. entry' \in -GoalLine .. GoalLine
    BY <1>2, BallTyped, ContainedInPlay DEF ApplyActuators
  <2> QED
    BY <1>2, <2>1 DEF TrackKept, ApplyActuators
<1>3. CASE Integrate
  BY <1>3 DEF TrackKept, Integrate
<1>4. CASE CollideSpheres
  BY <1>4 DEF TrackKept, CollideSpheres
<1>5. CASE ResolveArena
  <2> DEFINE travel == events'.progress - events.progress
  <2>1. /\ stage = "arena" /\ substep' = substep + 1
        /\ stage' = IF substep' = 2 THEN "report" ELSE "actuate"
    BY <1>5 DEF ResolveArena, Substeps
  <2>2. substep \in {0, 1} /\ (substep = 0 => events.progress = 0) /\ events.progress \in Int
    BY <2>1 DEF TrackKept
  <2>3. travel \in Int /\ 2 * AbsOf(travel) < WordLimit
    BY <1>5, RollOrGoal
  <2>4. events'.progress \in Int
    <3>1. events' \in [scorer : Team \cup {NoTeam}, progress : Word,
                       touch : Team \cup {"none", "contested"}]
      BY DEF TypeOK
    <3>2. events'.progress \in Word
      BY <3>1
    <3> QED
      BY <3>2, FixedAssumption DEF Word
  <2>5. CASE substep = 0
    <3>1. stage' = "actuate" /\ substep' = 1
      BY <2>1, <2>5
    <3>2. events'.progress = travel
      BY <2>2, <2>4, <2>5
    <3> QED
      BY <2>3, <2>4, <3>1, <3>2 DEF TrackKept
  <2>6. CASE substep = 1
    <3>1. stage' = "report"
      BY <2>1, <2>6
    <3> QED
      BY <3>1 DEF TrackKept
  <2> QED
    BY <2>2, <2>5, <2>6
<1>6. CASE Report
  BY <1>6 DEF TrackKept, Report
<1>7. CASE UNCHANGED vars
  BY <1>7 DEF TrackKept, vars
<1> QED
  BY <1>1, <1>2, <1>3, <1>4, <1>5, <1>6, <1>7 DEF Next

(* Every action of physics is a step of the track, or none.                *)
LEMMA StepsAreTrackSteps ==
  ASSUME TypeOK, Contained, TypeOK', Contained', TrackKept, [Next]_vars
  PROVE  [Track!Next]_(Track!vars)
<1>1. CASE Latch
  <2>1. SettledX' = SettledX
    BY <1>1 DEF Latch, SettledX
  <2>2. events'.progress = 0 /\ events'.scorer = NoTeam /\ scores' = scores
    BY <1>1 DEF Latch, NoEvents
  <2>3. Track!NewTick
    BY <2>1, <2>2 DEF Track!NewTick, Track!NoTeam, NoTeam
  <2> QED
    BY <2>3 DEF Track!Next
<1>2. CASE ApplyActuators
  BY <1>2 DEF ApplyActuators, SettledX, Track!vars
<1>3. CASE Integrate
  BY <1>3 DEF Integrate, SettledX, Track!vars
<1>4. CASE CollideSpheres
  BY <1>4 DEF CollideSpheres, SettledX, Track!vars
<1>5. CASE ResolveArena
  <2> DEFINE before == bodies[Objective].position.x
             after == bodies'[Objective].position.x
             told == events.progress
             tells == events'.progress
             team == GoalOf(Objective, bodies[Objective].position)
  <2>1. /\ SettledX = entry
        /\ SettledX' = after
    BY <1>5 DEF ResolveArena, SettledX, Substeps
  <2>2. /\ after \in -GoalLine .. GoalLine
        /\ events'.scorer = IF events.scorer = NoTeam THEN team ELSE events.scorer
        /\ scores' = [t \in Team |-> IF t = team THEN SaturatingAdd(scores[t]) ELSE scores[t]]
        /\ \/ (team = NoTeam /\ tells - told = after - entry)
           \/ (team = "zero" /\ after = 0 /\ tells - told = before - entry /\ before > GoalLine)
           \/ (team = "one" /\ after = 0 /\ tells - told = before - entry /\ before < -GoalLine)
    BY <1>5, RollOrGoal
  <2>3. /\ before \in Int /\ told \in Int
        /\ scores \in [Team -> 0 .. ScoreLimit]
    BY BallTyped
  <2>4. tells \in Int
    <3>1. events' \in [scorer : Team \cup {NoTeam}, progress : Word,
                       touch : Team \cup {"none", "contested"}]
      BY DEF TypeOK
    <3>2. tells \in Word
      BY <3>1
    <3> HIDE DEF tells
    <3> QED
      BY <3>2, FixedAssumption DEF Word
  <2>5. entry \in -GoalLine .. GoalLine
    BY <1>5 DEF ResolveArena, TrackKept
  <2> HIDE DEF before, after, told, tells, team
  <2>6. CASE team = NoTeam
    <3>1. scores' = scores
      BY <2>2, <2>3, <2>6 DEF Team, NoTeam
    <3>2. events'.scorer = events.scorer
      BY <2>2, <2>6
    <3>3. tells = told + (after - entry)
      <4>1. tells - told = after - entry
        BY <2>2, <2>6 DEF NoTeam
      <4>2. after \in Int /\ entry \in Int
        BY <2>2, <2>5, BallAssumptions
      <4> QED
        BY <2>3, <2>4, <4>1, <4>2
    <3>4. Track!Roll
      BY <2>1, <2>2, <3>1, <3>2, <3>3 DEF Track!Roll, Track!InPlay, GoalLine, told, tells
    <3> QED
      BY <3>4 DEF Track!Next
  <2>7. CASE team # NoTeam
    <3>1. /\ team \in {"zero", "one"} /\ after = 0
          /\ tells - told = before - entry
          /\ IF team = "zero" THEN before > GoalLine ELSE before < -GoalLine
      BY <2>2, <2>7
    <3>2. entry + (tells - told) = before
      BY <2>3, <2>5, <3>1, BallAssumptions
    <3>3. scores' = [scores EXCEPT ![team] = IF @ < ScoreLimit THEN @ + 1 ELSE ScoreLimit]
      BY <2>2, <2>3, <3>1 DEF Team, SaturatingAdd
    <3>4. Track!Crossing = before
      BY <2>1, <3>2 DEF Track!Crossing, told, tells
    <3>5. Track!Goal(team)
      BY <2>1, <2>2, <3>1, <3>3, <3>4 DEF Track!Goal, Track!NoTeam, NoTeam, GoalLine
    <3> QED
      BY <3>1, <3>5 DEF Track!Next, Track!Team
  <2> QED
    BY <2>6, <2>7
<1>6. CASE Report
  <2>1. SettledX' = SettledX
    BY <1>6 DEF Report, SettledX
  <2>2. /\ events' = [events EXCEPT !.touch = TouchOf(touched)]
        /\ scores' = scores
    BY <1>6 DEF Report
  <2>3. events'.progress = events.progress /\ events'.scorer = events.scorer
    BY <2>2, BallTyped
  <2> QED
    BY <2>1, <2>2, <2>3 DEF Track!vars
<1>7. CASE UNCHANGED vars
  BY <1>7 DEF vars, SettledX, Track!vars
<1> QED
  BY <1>1, <1>2, <1>3, <1>4, <1>5, <1>6, <1>7 DEF Next

-----------------------------------------------------------------------------

LEMMA RoomFacts ==
  /\ One \in Nat \ {0, 1} /\ WordLimit \in Nat /\ Room \in Nat
  /\ One <= Room /\ 64 * Room <= WordLimit /\ 64 * Room < WordLimit + 1 /\ 63 * Room < WordLimit
  /\ Radius \in Nat /\ 8 * Radius < WordLimit
  /\ Half \in 0 .. One
<1>1. One \in Nat \ {0, 1} /\ WordLimit \in Nat
  BY FixedAssumption
<1>2. Room \in Nat /\ One <= Room /\ 64 * Room <= WordLimit
  BY SettingsAssumption
<1>3. Radius \in Nat /\ Radius <= Arena.halfLength /\ Arena.halfLength \in Nat
      /\ 4 * (Arena.halfLength + Radius) < WordLimit
  BY ArenaAssumption
<1>4. 63 * Room < WordLimit /\ 8 * Radius < WordLimit
  BY <1>1, <1>2, <1>3
<1>5. Half \in 0 .. One
  BY <1>1 DEF Half
<1> QED
  BY <1>1, <1>2, <1>3, <1>4, <1>5

LEMMA SharesAreShares ==
  /\ Config.drag \in -One .. One /\ Config.retention \in -One .. One
  /\ Config.traction \in -One .. One /\ Config.gain \in -One .. One /\ Dt \in -One .. One
  /\ Half \in -One .. One /\ Config.restitution \in 0 .. One
  /\ Config.gravity \in -Room .. Room /\ Config.jump \in -Room .. Room
  /\ Config.boost \in -Room .. Room /\ Config.air \in -Room .. Room
  /\ Config.cap \in Nat /\ Config.magnus \in Nat /\ Config.sweeps \in Nat
<1>1. /\ Config.drag \in 0 .. One /\ Config.retention \in 0 .. One
      /\ Config.traction \in 0 .. One /\ Config.gain \in 0 .. One /\ Config.restitution \in 0 .. One
  BY SettingsAssumption
<1>2. /\ Config.gravity \in 0 .. Room /\ Config.jump \in 0 .. Room
      /\ Config.boost \in 0 .. Room /\ Config.air \in 0 .. Room
  BY SettingsAssumption
<1>3. Dt \in 0 .. One /\ Config.cap \in Nat /\ Config.magnus \in Nat /\ Config.sweeps \in Nat
  BY SettingsAssumption
<1> QED
  BY <1>1, <1>2, <1>3, RoomFacts

(* Everybody has a counterpart in the other team, and the objective is its own. *)
LEMMA CounterpartsExchange ==
  /\ Counterpart(Objective) = Objective
  /\ \A id \in Body : Counterpart(id) \in Body /\ Counterpart(Counterpart(id)) = id
  /\ \A id \in Body : Counterpart(id) = Objective <=> id = Objective
  /\ \A id \in Body \ {Objective} :
       Faces(AttackAxis(TeamOf[Counterpart(id)]), AttackAxis(TeamOf[id]), One)
<1>1. /\ Squad \in Nat /\ Body = 0 .. 2 * Squad /\ Objective = 2 * Squad
      /\ \A id \in Body : TeamOf[id] = IF id < Squad THEN "zero"
                                        ELSE IF id < 2 * Squad THEN "one" ELSE "none"
  BY BodiesInOrder
<1>2. ASSUME NEW id \in Body
      PROVE  Counterpart(id) \in Body /\ Counterpart(Counterpart(id)) = id
             /\ (Counterpart(id) = Objective <=> id = Objective)
  BY <1>1 DEF Counterpart
<1>3. ASSUME NEW id \in Body \ {Objective}
      PROVE  \/ TeamOf[id] = "zero" /\ TeamOf[Counterpart(id)] = "one"
             \/ TeamOf[id] = "one" /\ TeamOf[Counterpart(id)] = "zero"
  <2>1. CASE id < Squad
    <3>1. Counterpart(id) = id + Squad /\ id + Squad \in Body /\ ~(id + Squad < Squad)
          /\ id + Squad < 2 * Squad
      BY <1>1, <2>1 DEF Counterpart
    <3>2. TeamOf[id + Squad] = "one" /\ TeamOf[id] = "zero"
      BY <1>1, <2>1, <3>1
    <3> QED
      BY <3>1, <3>2
  <2>2. CASE ~(id < Squad)
    <3>1. Counterpart(id) = id - Squad /\ id - Squad \in Body /\ id - Squad < Squad
          /\ id < 2 * Squad
      BY <1>1, <2>2 DEF Counterpart
    <3>2. TeamOf[id - Squad] = "zero" /\ TeamOf[id] = "one"
      BY <1>1, <2>2, <3>1
    <3> QED
      BY <3>1, <3>2
  <2> QED
    BY <2>1, <2>2
<1>4. /\ Faces(AttackAxis("zero"), AttackAxis("one"), One)
      /\ Faces(AttackAxis("one"), AttackAxis("zero"), One)
  <2>1. One \in Nat
    BY RoomFacts
  <2> DEFINE u == Vec(One, 0, 0)
             w == Vec(-One, 0, 0)
  <2>2. InCube(u, One) /\ InCube(w, One)
    BY <2>1 DEF InCube, Vec
  <2>3. Turned(u) = w /\ Turned(w) = u
    <3>1. QMul(One, -One) = -One /\ QMul(-One, -One) = One /\ QMul(0, -One) = 0
      <4>1. QMul(One, -One) = -One
        BY <2>1, ProductWithOne
      <4>2. QMul(-One, -One) = -(-One)
        BY <2>1, ProductWithOne
      <4>3. QMul(0, -One) = -0
        BY ProductWithOne
      <4>4. -0 = 0
        <5> DEFINE b == 0
        <5>1. b \in Int /\ b + b = 0
          OBVIOUS
        <5> HIDE DEF b
        <5>2. -b = b
          BY <5>1
        <5> QED
          BY <5>2 DEF b
      <4> QED
        BY <2>1, <4>1, <4>2, <4>3, <4>4
    <3> QED
      BY <3>1 DEF Turned, Vec
  <2>4. AttackAxis("zero") = u /\ AttackAxis("one") = w
    BY DEF AttackAxis, UnitX
  <2> QED
    BY <2>2, <2>3, <2>4 DEF Faces
<1> QED
  BY <1>2, <1>3, <1>4 DEF Counterpart

-----------------------------------------------------------------------------

(* The command frame turns with the body.                                  *)
LEMMA ForwardFaces ==
  ASSUME NEW body, NEW image, Faces(image.position, body.position, Room),
         NEW intent, NEW wish, Faces(wish.position, intent.position, Room),
         NEW normal, NEW facing, Faces(facing, normal, One),
         NEW team, NEW other, Faces(AttackAxis(other), AttackAxis(team), One)
  PROVE  Faces(Forward(image, facing, other, wish), Forward(body, normal, team, intent), One)
<1> DEFINE desired == Minus(intent.position, body.position)
           desiring == Minus(wish.position, image.position)
           depth == Dot(desired, normal)
           tangent == Tangent(body, normal, intent)
           turning == Tangent(image, facing, wish)
<1>1. One \in Nat /\ Room \in Nat /\ WordLimit \in Nat /\ 63 * Room < WordLimit
  BY RoomFacts
<1>2. Faces(desiring, desired, 2 * Room)
  BY <1>1, SumsFace
<1>3. depth \in -(3 * (2 * Room)) .. 3 * (2 * Room) /\ Dot(desiring, facing) = depth
  <2>1. InCube(desired, 2 * Room) /\ IsVector(desired) /\ desiring = Turned(desired)
        /\ InCube(normal, One) /\ IsVector(normal) /\ facing = Turned(normal) /\ 2 * Room \in Nat
    BY <1>1, <1>2, FacesAreVectors
  <2> HIDE DEF desired, desiring
  <2> QED
    BY <2>1, DotsWithin, DotsTurn
<1>4. depth \in -(6 * Room) .. 6 * Room
  BY <1>1, <1>3
<1> HIDE DEF desired, desiring, depth
<1>5. Faces(Scaled(facing, depth), Scaled(normal, depth), 6 * Room)
  BY <1>1, <1>4, UnitsFace
<1>6. tangent = Minus(desired, Scaled(normal, depth))
      /\ turning = Minus(desiring, Scaled(facing, depth))
  BY <1>3 DEF Tangent, desired, desiring, depth
<1>7. Faces(turning, tangent, 8 * Room)
  BY <1>1, <1>2, <1>5, <1>6, SumsFace
<1> HIDE DEF tangent, turning
<1>8. IsVector(tangent) /\ turning = Turned(tangent)
  BY <1>1, <1>7, FacesAreVectors
<1>9. turning = Zero <=> tangent = Zero
  BY <1>8, ZeroStays
<1>10. Faces(Normalized(turning), Normalized(tangent), One)
  BY <1>8, DirectionsFace
<1> QED
  BY <1>9, <1>10 DEF Forward, tangent, turning

LEMMA RightFaces ==
  ASSUME NEW normal, NEW facing, Faces(facing, normal, One),
         NEW forward, NEW ahead, Faces(ahead, forward, One),
         Normalized(Cross(normal, forward)) # Zero
  PROVE  Faces(Right(facing, ahead), Right(normal, forward), One)
<1> DEFINE v == Cross(normal, forward)
           w == Cross(facing, ahead)
<1>1. One \in Nat
  BY RoomFacts
<1>2. IsVector(v) /\ w = Turned(v)
  BY <1>1, FacesAreVectors, CrossesTurn
<1> HIDE DEF v, w
<1>3. Faces(Normalized(w), Normalized(v), One)
  BY <1>2, DirectionsFace
<1>4. IsVector(Normalized(v)) /\ Normalized(w) = Turned(Normalized(v))
  BY <1>1, <1>3, FacesAreVectors
<1>5. Normalized(w) # Zero /\ Normalized(v) # Zero
  BY <1>4, ZeroStays DEF v
<1> QED
  BY <1>3, <1>5 DEF Right, DirectionOr, v, w

IsCommand(command) ==
  /\ command.residual.x \in -Room .. Room /\ command.residual.y \in -Room .. Room
  /\ command.residual.z \in -Room .. Room
  /\ command.hit[1] \in -Room .. Room /\ command.hit[2] \in -Room .. Room

(* So do the impulses, and they are no larger than their settings together. *)
LEMMA ImpulsesFace ==
  ASSUME NEW contact, NEW turning, turning.touching = contact.touching,
         Faces(turning.normal, contact.normal, One),
         NEW forward, NEW ahead, Faces(ahead, forward, One),
         NEW right, NEW beside, Faces(beside, right, One),
         NEW charge, NEW command, IsCommand(command)
  PROVE  Faces(Impulse(turning, charge, command, ahead, beside),
               Impulse(contact, charge, command, forward, right), 3 * Room)
<1> DEFINE acts == SurfaceActs(contact, charge, command)
           jump == IF acts /\ command.jump THEN Scaled(contact.normal, Config.jump) ELSE Zero
           boost == IF acts /\ command.boost THEN Scaled(forward, Config.boost) ELSE Zero
           hit == Minus(Plus(Scaled(right, command.hit[1]), Scaled(contact.normal, command.hit[2])), forward)
           cue == IF AirActs(charge, command)
                  THEN Scaled(DirectionOr(hit, Negated(forward)), Config.air) ELSE Zero
           jumping == IF acts /\ command.jump THEN Scaled(turning.normal, Config.jump) ELSE Zero
           boosting == IF acts /\ command.boost THEN Scaled(ahead, Config.boost) ELSE Zero
           hitting == Minus(Plus(Scaled(beside, command.hit[1]), Scaled(turning.normal, command.hit[2])), ahead)
           cueing == IF AirActs(charge, command)
                     THEN Scaled(DirectionOr(hitting, Negated(ahead)), Config.air) ELSE Zero
<1>1. /\ One \in Nat /\ Room \in Nat /\ WordLimit \in Nat /\ 63 * Room < WordLimit /\ One <= Room
      /\ 2 * Room \in Nat /\ 3 * Room \in Nat /\ Room + Room <= 2 * Room /\ 2 * Room < WordLimit
      /\ 2 * Room + One <= 3 * Room /\ 2 * Room + Room <= 3 * Room /\ 3 * Room < WordLimit
  BY RoomFacts
<1>2. /\ Impulse(contact, charge, command, forward, right) = Plus(Plus(jump, boost), cue)
      /\ Impulse(turning, charge, command, ahead, beside) = Plus(Plus(jumping, boosting), cueing)
  BY DEF Impulse, SurfaceActs
<1>3. Faces(Zero, Zero, Room)
  BY <1>1, ZeroFaces
<1>4. Faces(jumping, jump, Room)
  <2>1. Faces(Scaled(turning.normal, Config.jump), Scaled(contact.normal, Config.jump), Room)
    BY <1>1, SharesAreShares, UnitsFace
  <2> HIDE DEF acts
  <2> QED
    BY <1>3, <2>1
<1>5. Faces(boosting, boost, Room)
  <2>1. Faces(Scaled(ahead, Config.boost), Scaled(forward, Config.boost), Room)
    BY <1>1, SharesAreShares, UnitsFace
  <2> HIDE DEF acts
  <2> QED
    BY <1>3, <2>1
<1>6. Faces(hitting, hit, 3 * Room)
  <2>1. /\ Faces(Scaled(beside, command.hit[1]), Scaled(right, command.hit[1]), Room)
        /\ Faces(Scaled(turning.normal, command.hit[2]), Scaled(contact.normal, command.hit[2]), Room)
    BY <1>1, UnitsFace DEF IsCommand
  <2> DEFINE p == Scaled(right, command.hit[1])
             q == Scaled(contact.normal, command.hit[2])
             pp == Scaled(beside, command.hit[1])
             qq == Scaled(turning.normal, command.hit[2])
  <2> HIDE DEF p, q, pp, qq, hit, hitting, acts
  <2>2. Faces(Plus(pp, qq), Plus(p, q), 2 * Room)
    BY <1>1, <2>1, SumsFace DEF p, q, pp, qq
  <2> DEFINE sum == Plus(p, q)
             summing == Plus(pp, qq)
  <2>3. Faces(summing, sum, 2 * Room) /\ Faces(ahead, forward, One)
    BY <2>2
  <2> HIDE DEF sum, summing
  <2>4. Faces(Minus(summing, ahead), Minus(sum, forward), 3 * Room)
    BY <1>1, <2>3, SumsFace
  <2> QED
    BY <2>4 DEF p, q, pp, qq, sum, summing, hit, hitting
<1> HIDE DEF hit, hitting
<1>7. Faces(DirectionOr(hitting, Negated(ahead)), DirectionOr(hit, Negated(forward)), One)
  <2>1. IsVector(hit) /\ hitting = Turned(hit)
    BY <1>1, <1>6, FacesAreVectors
  <2>2. Faces(Normalized(hitting), Normalized(hit), One)
    BY <2>1, DirectionsFace
  <2>3. Normalized(hitting) = Zero <=> Normalized(hit) = Zero
    BY <1>1, <2>2, FacesAreVectors, ZeroStays
  <2>4. Faces(Negated(ahead), Negated(forward), One)
    BY <1>1, NegatedFaces
  <2> QED
    BY <2>2, <2>3, <2>4 DEF DirectionOr
<1>8. Faces(cueing, cue, Room)
  <2>1. Faces(Scaled(DirectionOr(hitting, Negated(ahead)), Config.air),
              Scaled(DirectionOr(hit, Negated(forward)), Config.air), Room)
    BY <1>1, <1>7, SharesAreShares, UnitsFace
  <2> QED
    BY <1>3, <2>1
<1> HIDE DEF jump, boost, cue, jumping, boosting, cueing, acts
<1>9. Faces(Plus(jumping, boosting), Plus(jump, boost), 2 * Room)
  BY <1>1, <1>4, <1>5, SumsFace
<1>10. Faces(Plus(Plus(jumping, boosting), cueing), Plus(Plus(jump, boost), cue), 3 * Room)
  BY <1>1, <1>8, <1>9, SumsFace
<1> QED
  BY <1>2, <1>10

LEMMA AlongFaces ==
  ASSUME NEW normal, NEW facing, Faces(facing, normal, One),
         NEW forward, NEW ahead, Faces(ahead, forward, One),
         NEW right, NEW beside, Faces(beside, right, One),
         NEW spin, spin.x \in -Room .. Room, spin.y \in -Room .. Room, spin.z \in -Room .. Room
  PROVE  Faces(Along(ahead, beside, facing, spin), Along(forward, right, normal, spin), 3 * Room)
<1> DEFINE p == Scaled(forward, spin.x)
           q == Scaled(right, spin.y)
           r == Scaled(normal, spin.z)
           pp == Scaled(ahead, spin.x)
           qq == Scaled(beside, spin.y)
           rr == Scaled(facing, spin.z)
<1>1. One \in Nat /\ Room \in Nat /\ WordLimit \in Nat /\ 63 * Room < WordLimit
  BY RoomFacts
<1>2. Faces(pp, p, Room) /\ Faces(qq, q, Room) /\ Faces(rr, r, Room)
  BY <1>1, UnitsFace
<1> HIDE DEF p, q, r, pp, qq, rr
<1>3. Faces(Plus(pp, qq), Plus(p, q), 2 * Room)
  BY <1>1, <1>2, SumsFace
<1>4. Faces(Plus(Plus(pp, qq), rr), Plus(Plus(p, q), r), 3 * Room)
  BY <1>1, <1>2, <1>3, SumsFace
<1> QED
  BY <1>4 DEF Along, p, q, r, pp, qq, rr

-----------------------------------------------------------------------------

(* A body on its way through a substep, and its contact.                   *)
IsMoving(body) ==
  /\ body = [position |-> body.position, velocity |-> body.velocity, spin |-> body.spin]
  /\ InCube(body.position, Room) /\ InCube(body.velocity, 4 * Room) /\ InCube(body.spin, 6 * Room)

IsContact(contact) ==
  /\ contact = [touching |-> contact.touching, normal |-> contact.normal]
  /\ InCube(contact.normal, One)

TurnedContact(contact) == [contact EXCEPT !.normal = Turned(@)]

LEMMA ContactsFace ==
  ASSUME NEW contact, IsContact(contact)
  PROVE  /\ TurnedContact(contact) = [touching |-> contact.touching, normal |-> Turned(contact.normal)]
         /\ Faces(TurnedContact(contact).normal, contact.normal, One)
<1> DEFINE t == contact.touching
           n == contact.normal
<1>1. contact = [touching |-> t, normal |-> n]
  BY DEF IsContact
<1>2. TurnedContact(contact) = [contact EXCEPT !.normal = Turned(n)]
  BY DEF TurnedContact
<1> HIDE DEF t, n
<1>3. TurnedContact(contact) = [touching |-> t, normal |-> Turned(n)]
  BY <1>1, <1>2
<1> QED
  BY <1>3 DEF Faces, IsContact, t, n

LEMMA BodiesMove ==
  ASSUME NEW body, IsBody(body)
  PROVE  IsMoving(body)
<1>1. Room \in Nat /\ 4 * Room \in Nat /\ 6 * Room \in Nat /\ Room <= 4 * Room /\ Room <= 6 * Room
  BY RoomFacts
<1> QED
  BY <1>1, CubesHoldVectors DEF IsBody, IsMoving

LEMMA RecordsChange ==
  ASSUME NEW p, NEW v, NEW s, NEW q, NEW w, NEW u,
         NEW body, body = [position |-> p, velocity |-> v, spin |-> s]
  PROVE  /\ [body EXCEPT !.velocity = w] = [position |-> p, velocity |-> w, spin |-> s]
         /\ [body EXCEPT !.position = q] = [position |-> q, velocity |-> v, spin |-> s]
         /\ [body EXCEPT !.spin = u, !.velocity = w] = [position |-> p, velocity |-> w, spin |-> u]
         /\ [body EXCEPT !.velocity = w, !.position = q] = [position |-> q, velocity |-> w, spin |-> s]
         /\ [body EXCEPT !.position = q, !.velocity = w] = [position |-> q, velocity |-> w, spin |-> s]
<1>1. /\ [body EXCEPT !.spin = u] = [position |-> p, velocity |-> v, spin |-> u]
      /\ [body EXCEPT !.velocity = w] = [position |-> p, velocity |-> w, spin |-> s]
      /\ [body EXCEPT !.position = q] = [position |-> q, velocity |-> v, spin |-> s]
  OBVIOUS
<1>2. [[position |-> p, velocity |-> v, spin |-> u] EXCEPT !.velocity = w] =
        [position |-> p, velocity |-> w, spin |-> u]
  OBVIOUS
<1>3. [[position |-> p, velocity |-> w, spin |-> s] EXCEPT !.position = q] =
        [position |-> q, velocity |-> w, spin |-> s]
  OBVIOUS
<1>4. [[position |-> q, velocity |-> v, spin |-> s] EXCEPT !.velocity = w] =
        [position |-> q, velocity |-> w, spin |-> s]
  OBVIOUS
<1>5. /\ [body EXCEPT !.spin = u, !.velocity = w] = [[body EXCEPT !.spin = u] EXCEPT !.velocity = w]
      /\ [body EXCEPT !.velocity = w, !.position = q] = [[body EXCEPT !.velocity = w] EXCEPT !.position = q]
      /\ [body EXCEPT !.position = q, !.velocity = w] = [[body EXCEPT !.position = q] EXCEPT !.velocity = w]
  OBVIOUS
<1> QED
  BY <1>1, <1>2, <1>3, <1>4, <1>5

LEMMA ActuatedFaces ==
  ASSUME NEW body, IsBody(body), NEW contact, IsContact(contact), NEW charge,
         NEW intent, NEW wish, Faces(wish.position, intent.position, Room),
         Faces(wish.spin, intent.spin, Room),
         NEW command, IsCommand(command),
         NEW team, NEW other, Faces(AttackAxis(other), AttackAxis(team), One),
         Normalized(Cross(contact.normal, Forward(body, contact.normal, team, intent))) # Zero
  PROVE  /\ IsMoving(Actuated(body, contact, charge, team, intent, command))
         /\ Actuated(TurnedBody(body), TurnedContact(contact), charge, other, wish, command)
              = TurnedBody(Actuated(body, contact, charge, team, intent, command))
<1> DEFINE image == TurnedBody(body)
           turning == TurnedContact(contact)
           normal == contact.normal
           facing == turning.normal
           forward == Forward(body, normal, team, intent)
           ahead == Forward(image, facing, other, wish)
           right == Right(normal, forward)
           beside == Right(facing, ahead)
           along == Along(forward, right, normal, command.residual)
           aside == Along(ahead, beside, facing, command.residual)
           desired == Plus(intent.spin, Scaled(along, Config.gain))
           desiring == Plus(wish.spin, Scaled(aside, Config.gain))
           change == Scaled(Minus(desired, body.spin), Config.traction)
           changing == Scaled(Minus(desiring, image.spin), Config.traction)
           spin == IF contact.touching THEN Plus(body.spin, change) ELSE body.spin
           spinning == IF contact.touching THEN Plus(image.spin, changing) ELSE image.spin
           impulse == Impulse(contact, charge, command, forward, right)
           pushing == Impulse(turning, charge, command, ahead, beside)
<1>1. /\ One \in Nat /\ Room \in Nat /\ WordLimit \in Nat /\ 63 * Room < WordLimit
      /\ 2 * Room \in Nat /\ 3 * Room \in Nat /\ 4 * Room \in Nat /\ 5 * Room \in Nat /\ 6 * Room \in Nat
  BY RoomFacts
<1>2. /\ Faces(image.position, body.position, Room)
      /\ Faces(image.velocity, body.velocity, Room)
      /\ Faces(image.spin, body.spin, Room)
  BY DEF TurnedBody, IsBody, Faces
<1>3. /\ Faces(facing, normal, One) /\ turning.touching = contact.touching
  BY ContactsFace
<1> HIDE DEF image, turning, facing, normal
<1>4. Faces(ahead, forward, One)
  BY <1>2, <1>3, ForwardFaces
<1>5. Normalized(Cross(normal, forward)) # Zero
  BY DEF normal
<1> HIDE DEF ahead, forward
<1>6. Faces(beside, right, One)
  BY <1>3, <1>4, <1>5, RightFaces
<1> HIDE DEF right, beside
<1>7. Faces(aside, along, 3 * Room)
  BY <1>3, <1>4, <1>6, AlongFaces DEF IsCommand
<1>8. Faces(pushing, impulse, 3 * Room)
  BY <1>3, <1>4, <1>6, ImpulsesFace DEF facing, normal
<1> HIDE DEF along, aside, impulse, pushing
<1>9. Faces(desiring, desired, 4 * Room)
  <2>1. Faces(Scaled(aside, Config.gain), Scaled(along, Config.gain), 3 * Room)
    BY <1>1, <1>7, SharesAreShares, SharesFace
  <2> QED
    BY <1>1, <2>1, SumsFace
<1> HIDE DEF desired, desiring
<1>10. Faces(changing, change, 5 * Room)
  <2>1. Faces(Minus(desiring, image.spin), Minus(desired, body.spin), 5 * Room)
    <3>1. (4 * Room) + Room <= 5 * Room /\ 5 * Room < WordLimit
      BY <1>1
    <3> QED
      BY <1>1, <1>2, <1>9, <3>1, SumsFace
  <2> QED
    BY <1>1, <2>1, SharesAreShares, SharesFace
<1> HIDE DEF change, changing
<1>11. Faces(spinning, spin, 6 * Room)
  <2>1. Faces(Plus(image.spin, changing), Plus(body.spin, change), 6 * Room)
    BY <1>1, <1>2, <1>10, SumsFace
  <2>2. Faces(image.spin, body.spin, 6 * Room)
    BY <1>1, <1>2, FacesAreVectors
  <2> QED
    BY <2>1, <2>2
<1>12. Faces(Plus(image.velocity, pushing), Plus(body.velocity, impulse), 4 * Room)
  BY <1>1, <1>2, <1>8, SumsFace
<1>13. /\ Actuated(body, contact, charge, team, intent, command) =
            [body EXCEPT !.spin = spin, !.velocity = Plus(body.velocity, impulse)]
       /\ Actuated(image, turning, charge, other, wish, command) =
            [image EXCEPT !.spin = spinning, !.velocity = Plus(image.velocity, pushing)]
  <2>1. Actuated(body, contact, charge, team, intent, command) =
            [body EXCEPT !.spin = spin, !.velocity = Plus(body.velocity, impulse)]
    BY DEF Actuated, spin, change, desired, along, impulse, right, forward, normal
  <2>2. Actuated(image, turning, charge, other, wish, command) =
            [image EXCEPT !.spin = spinning, !.velocity = Plus(image.velocity, pushing)]
    BY <1>3 DEF Actuated, spinning, changing, desiring, aside, pushing, beside, ahead, facing
  <2> QED
    BY <2>1, <2>2
<1> HIDE DEF spin, spinning
<1> DEFINE moved == Plus(body.velocity, impulse)
           moving == Plus(image.velocity, pushing)
<1>14. Actuated(body, contact, charge, team, intent, command) =
            [position |-> body.position, velocity |-> moved, spin |-> spin]
  <2>1. body = [position |-> body.position, velocity |-> body.velocity, spin |-> body.spin]
    BY DEF IsBody
  <2> QED
    BY <1>13, <2>1, RecordsChange
<1>15. Actuated(image, turning, charge, other, wish, command) =
            [position |-> Turned(body.position), velocity |-> moving, spin |-> spinning]
  <2>1. image = [position |-> Turned(body.position), velocity |-> Turned(body.velocity),
                 spin |-> Turned(body.spin)]
    BY DEF image, TurnedBody
  <2> QED
    BY <1>13, <2>1, RecordsChange
<1>16. /\ InCube(moved, 4 * Room) /\ moving = Turned(moved)
       /\ InCube(spin, 6 * Room) /\ spinning = Turned(spin)
  BY <1>11, <1>12 DEF Faces
<1> HIDE DEF moved, moving
<1>17. InCube(body.position, Room)
  BY DEF IsBody
<1> QED
  BY <1>14, <1>15, <1>16, <1>17 DEF IsMoving, TurnedBody, image, turning

-----------------------------------------------------------------------------

(* Spin and speed give a lift well within the word.                        *)
LEMMA LiftFits ==
  ASSUME NEW spin, InCube(spin, 6 * Room), NEW velocity, InCube(velocity, 4 * Room)
  PROVE  LET lift == Scaled(Cross(spin, velocity), Config.magnus)
             quarter == WordLimit \div 4
         IN  InCube(lift, quarter)
<1> DEFINE m == Config.magnus
           quarter == WordLimit \div 4
           bound == 2 * ((6 * Room) * (4 * Room))
<1>1. /\ One \in Nat \ {0} /\ WordLimit \in Nat /\ Room \in Nat /\ m \in Nat
      /\ 6 * Room \in Nat /\ 4 * Room \in Nat
  BY RoomFacts, SharesAreShares
<1>2. /\ quarter \in Nat
      /\ \A n \in Nat : 4 * n <= WordLimit => n <= quarter
  BY <1>1
<1>3. 192 * m * Room * Room <= One * One * WordLimit
  BY SettingsAssumption
<1>4. bound \in Nat /\ 4 * (bound * m) <= (One * One) * WordLimit
  <2>1. Room * Room \in Nat /\ m * (Room * Room) \in Nat
    BY <1>1
  <2>2. bound = 48 * (Room * Room)
    BY <1>1
  <2>3. bound * m = 48 * (m * (Room * Room))
    BY <1>1, <2>1, <2>2
  <2>4. 192 * m * Room * Room = 192 * (m * (Room * Room))
    BY <1>1
  <2> HIDE DEF bound
  <2> QED
    BY <1>1, <1>3, <2>1, <2>2, <2>3, <2>4
<1> HIDE DEF m, quarter, bound
<1>5. ASSUME NEW c \in Int, AbsOf(c) * One <= bound PROVE QMul(c, m) \in -quarter .. quarter
  <2> DEFINE n == AbsOf(c)
             q == QMul(c, m)
             k == AbsOf(q)
  <2>1. n \in Nat /\ AbsOf(c * m) = n * m /\ c * m \in Int
    BY <1>1 DEF AbsOf
  <2>2. q \in Int /\ k * One <= n * m
    BY <1>1, <2>1, TruncatedLosesMagnitude DEF QMul
  <2>3. k \in Nat /\ (k <= quarter => q \in -quarter .. quarter)
    <3> HIDE DEF q
    <3> QED
      BY <1>2, <2>2 DEF AbsOf
  <2> HIDE DEF n, q, k
  <2>4. (k * One) * One <= (n * m) * One
    <3> DEFINE a == k * One
               b == n * m
    <3>1. a \in Nat /\ b \in Nat /\ a <= b
      BY <1>1, <2>1, <2>2, <2>3
    <3> HIDE DEF a, b
    <3>2. a * One <= b * One
      BY <1>1, <3>1, ProductsGrow
    <3> QED
      BY <3>2 DEF a, b
  <2>5. (n * m) * One = (n * One) * m
    BY <1>1, <2>1
  <2>6. (n * One) * m <= bound * m
    <3> DEFINE a == n * One
    <3>1. a \in Nat /\ a <= bound
      BY <1>1, <1>5, <2>1 DEF n
    <3> HIDE DEF a
    <3>2. a * m <= bound * m
      BY <1>1, <1>4, <3>1, ProductsGrow
    <3> QED
      BY <3>2 DEF a
  <2>7. (k * One) * One = (One * One) * k
    BY <1>1, <2>3
  <2> DEFINE w == One * One
             x == w * k
             y == bound * m
  <2>8. w \in Nat \ {0} /\ x \in Nat /\ y \in Nat
    BY <1>1, <1>4, <2>3
  <2>9. x <= y /\ 4 * y <= w * WordLimit
    <3>1. (n * m) * One \in Nat
      BY <1>1, <2>1
    <3> QED
      BY <1>4, <2>4, <2>5, <2>6, <2>7, <2>8, <3>1
  <2>10. w * WordLimit \in Nat /\ w * (4 * k) = 4 * x
    BY <1>1, <2>3, <2>8
  <2>11. w * (4 * k) <= w * WordLimit
    <3> HIDE DEF w, x, y
    <3> QED
      BY <2>8, <2>9, <2>10
  <2> HIDE DEF w, x, y
  <2>12. 4 * k <= WordLimit
    <3>1. 4 * k \in Nat
      BY <2>3
    <3> QED
      BY <1>1, <2>8, <2>11, <3>1, ProductsCancel
  <2> QED
    BY <1>2, <2>3, <2>12 DEF q
<1>6. \A axis \in {"x", "y", "z"} : /\ Cross(spin, velocity)[axis] \in Int
                                   /\ AbsOf(Cross(spin, velocity)[axis]) * One <= bound
  BY <1>1, CrossesWithin DEF bound
<1>7. \A axis \in {"x", "y", "z"} : QMul(Cross(spin, velocity)[axis], m) \in -quarter .. quarter
  BY <1>5, <1>6
<1>8. InCube(Scaled(Cross(spin, velocity), m), quarter)
  BY <1>7 DEF InCube, Scaled, Vec
<1> QED
  BY <1>8 DEF m, quarter

LEMMA AcceleratedFaces ==
  ASSUME NEW body, NEW image,
         Faces(image.velocity, body.velocity, 4 * Room), Faces(image.spin, body.spin, 6 * Room)
  PROVE  IsVector(Accelerated(body)) /\ Accelerated(image) = Turned(Accelerated(body))
<1> DEFINE lift == Scaled(Cross(body.spin, body.velocity), Config.magnus)
           lifting == Scaled(Cross(image.spin, image.velocity), Config.magnus)
           weight == Scaled(UnitZ, Config.gravity)
           pull == Minus(lift, weight)
           pulling == Minus(lifting, weight)
           gain == Scaled(pull, Dt)
           gaining == Scaled(pulling, Dt)
           v == Scaled(Plus(body.velocity, gain), Config.drag)
           w == Scaled(Plus(image.velocity, gaining), Config.drag)
           quarter == WordLimit \div 4
           more == quarter + Room
           most == more + 4 * Room
<1>1. /\ One \in Nat /\ Room \in Nat /\ WordLimit \in Nat /\ 63 * Room < WordLimit
      /\ 64 * Room <= WordLimit /\ 4 * Room \in Nat /\ 6 * Room \in Nat /\ WordLimit # 0
  BY RoomFacts, FixedAssumption
<1>2. quarter \in Nat /\ 4 * quarter <= WordLimit
  BY <1>1
<1> HIDE DEF quarter
<1>3. more \in Nat /\ more < WordLimit /\ most \in Nat /\ most < WordLimit
  BY <1>1, <1>2
<1>4. Faces(lifting, lift, quarter)
  <2>1. /\ InCube(body.spin, 6 * Room) /\ InCube(body.velocity, 4 * Room)
        /\ image.spin = Turned(body.spin) /\ image.velocity = Turned(body.velocity)
        /\ IsVector(body.spin) /\ IsVector(body.velocity)
    BY <1>1, FacesAreVectors
  <2>2. InCube(lift, quarter)
    BY <2>1, LiftFits DEF quarter
  <2>3. /\ IsVector(Cross(body.spin, body.velocity))
        /\ Cross(image.spin, image.velocity) = Turned(Cross(body.spin, body.velocity))
    BY <2>1, CrossesTurn
  <2>4. lifting = Turned(lift)
    <3>1. Config.magnus \in Int
      BY SharesAreShares
    <3> QED
      BY <2>3, <3>1, ScaledTurns
  <2> QED
    BY <2>2, <2>4 DEF Faces
<1>5. Faces(weight, weight, Room)
  <2>1. Faces(UnitZ, UnitZ, One)
    <3>1. InCube(UnitZ, One)
      BY <1>1 DEF InCube, UnitZ, Vec
    <3> QED
      BY <1>1, <3>1, VerticalStays DEF Faces, UnitZ
  <2> QED
    BY <1>1, <2>1, SharesAreShares, UnitsFace
<1> HIDE DEF lift, lifting, weight, more, most
<1>6. Faces(pulling, pull, more)
  <2>1. quarter + Room <= more
    BY <1>1, <1>2 DEF more
  <2> QED
    BY <1>1, <1>2, <1>3, <1>4, <1>5, <2>1, SumsFace
<1> HIDE DEF pull, pulling
<1>7. Faces(gaining, gain, more)
  BY <1>3, <1>6, SharesAreShares, SharesFace
<1> HIDE DEF gain, gaining
<1>8. Faces(Plus(image.velocity, gaining), Plus(body.velocity, gain), most)
  <2>1. 4 * Room + more <= most
    BY <1>1, <1>3 DEF most
  <2> QED
    BY <1>1, <1>3, <1>7, <2>1, SumsFace
<1>9. Faces(w, v, most)
  BY <1>3, <1>8, SharesAreShares, SharesFace
<1>10. Accelerated(body) = CapSpeed(v) /\ Accelerated(image) = CapSpeed(w)
  BY DEF Accelerated, v, w, gain, gaining, pull, pulling, lift, lifting, weight
<1> HIDE DEF v, w
<1>11. IsVector(v) /\ w = Turned(v)
  BY <1>3, <1>9, FacesAreVectors
<1>12. Length(w) = Length(v) /\ Length(v) \in Nat
  BY <1>11, LengthsTurn, LengthsBound
<1> DEFINE length == Length(v)
           factor == QDiv(Config.cap, length)
<1> HIDE DEF length
<1>13. CASE length > Config.cap
  <2>1. factor \in Int
    <3>1. length \in Nat \ {0} /\ Config.cap * One \in Int
      BY <1>1, <1>12, <1>13, SharesAreShares DEF length
    <3> QED
      BY <3>1, TruncatedKeepsSign DEF QDiv
  <2> HIDE DEF factor
  <2>2. IsVector(Scaled(v, factor)) /\ Scaled(w, factor) = Turned(Scaled(v, factor))
    BY <1>11, <2>1, ScaledTurns
  <2>3. CapSpeed(v) = Scaled(v, factor) /\ CapSpeed(w) = Scaled(w, factor)
    BY <1>12, <1>13 DEF CapSpeed, factor, length
  <2> QED
    BY <1>10, <2>2, <2>3
<1>14. CASE ~(length > Config.cap)
  <2>1. CapSpeed(v) = v /\ CapSpeed(w) = w
    BY <1>12, <1>14 DEF CapSpeed, length
  <2> QED
    BY <1>10, <1>11, <2>1
<1> QED
  BY <1>13, <1>14

LEMMA TurnedBodies ==
  ASSUME NEW p, NEW v, NEW s
  PROVE  TurnedBody([position |-> p, velocity |-> v, spin |-> s]) =
           [position |-> Turned(p), velocity |-> Turned(v), spin |-> Turned(s)]
BY DEF TurnedBody

LEMMA IntegratedFaces ==
  ASSUME NEW body, IsMoving(body), InCube(Integrated(body).velocity, Room)
  PROVE  Integrated(TurnedBody(body)) = TurnedBody(Integrated(body))
<1> DEFINE image == TurnedBody(body)
           p == body.position
           s == body.spin
           v == Accelerated(body)
           w == Accelerated(image)
           q == Plus(p, Scaled(v, Dt))
           qq == Plus(Turned(p), Scaled(w, Dt))
<1>1. One \in Nat /\ Room \in Nat /\ WordLimit \in Nat /\ 63 * Room < WordLimit /\ 2 * Room \in Nat
  BY RoomFacts
<1>2. body = [position |-> p, velocity |-> body.velocity, spin |-> s]
      /\ image = [position |-> Turned(p), velocity |-> Turned(body.velocity), spin |-> Turned(s)]
  BY DEF IsMoving, TurnedBody
<1>3. Integrated(body) = [position |-> q, velocity |-> v, spin |-> s]
  <2>1. Integrated(body) = [body EXCEPT !.velocity = v, !.position = q]
    BY DEF Integrated
  <2> QED
    BY <1>2, <2>1, RecordsChange
<1>4. Integrated(image) = [position |-> qq, velocity |-> w, spin |-> Turned(s)]
  <2>1. image.position = Turned(p)
    BY <1>2
  <2>2. Integrated(image) = [image EXCEPT !.velocity = w, !.position = qq]
    <3>1. Integrated(image) =
            [image EXCEPT !.velocity = w, !.position = Plus(image.position, Scaled(w, Dt))]
      BY DEF Integrated
    <3> HIDE DEF image, w
    <3> QED
      BY <2>1, <3>1
  <2> HIDE DEF image, w, qq
  <2> QED
    BY <1>2, <2>2, RecordsChange
<1>5. InCube(v, Room)
  BY <1>3
<1>6. w = Turned(v)
  <2>1. /\ Faces(image.velocity, body.velocity, 4 * Room)
        /\ Faces(image.spin, body.spin, 6 * Room)
    BY DEF IsMoving, TurnedBody, Faces
  <2> HIDE DEF image
  <2> QED
    BY <2>1, AcceleratedFaces
<1> HIDE DEF v, w, image
<1>7. Faces(w, v, Room) /\ Faces(Turned(p), p, Room)
  BY <1>5, <1>6 DEF Faces, IsMoving
<1>8. Faces(Scaled(w, Dt), Scaled(v, Dt), Room)
  BY <1>1, <1>7, SharesAreShares, SharesFace
<1>9. Faces(qq, q, 2 * Room)
  BY <1>1, <1>7, <1>8, SumsFace
<1>10. qq = Turned(q)
  BY <1>9 DEF Faces
<1> HIDE DEF p, s, q, qq
<1> QED
  BY <1>3, <1>4, <1>6, <1>10, TurnedBodies DEF image

-----------------------------------------------------------------------------

(* A pair that parts: who comes first does not matter, and the image of    *)
(* the pair parts as the pair does.                                        *)
Opposite(v) == Vec(-v.x, -v.y, -v.z)

LEMMA OppositesAgree ==
  ASSUME NEW v, IsVector(v), NEW factor \in Int, NEW w, IsVector(w)
  PROVE  /\ IsVector(Opposite(v))
         /\ Length(Opposite(v)) = Length(v)
         /\ Dot(Opposite(v), Opposite(w)) = Dot(v, w)
         /\ Scaled(Opposite(v), factor) = Opposite(Scaled(v, factor))
<1> DEFINE a == v.x
           b == v.y
           c == v.z
           d == w.x
           e == w.y
           f == w.z
<1>1. a \in Int /\ b \in Int /\ c \in Int /\ d \in Int /\ e \in Int /\ f \in Int
  BY DEF IsVector
<1>2. /\ RawDot(v, w) = a * d + b * e + c * f
      /\ RawDot(Opposite(v), Opposite(w)) = (-a) * (-d) + (-b) * (-e) + (-c) * (-f)
      /\ RawDot(v, v) = a * a + b * b + c * c
      /\ RawDot(Opposite(v), Opposite(v)) = (-a) * (-a) + (-b) * (-b) + (-c) * (-c)
  BY DEF RawDot, Opposite, Vec
<1>3. /\ QMul(-a, factor) = -QMul(a, factor) /\ QMul(-b, factor) = -QMul(b, factor)
      /\ QMul(-c, factor) = -QMul(c, factor)
  BY <1>1, ProductIsOdd
<1>4. Scaled(Opposite(v), factor) = Opposite(Scaled(v, factor))
  BY <1>3 DEF Scaled, Opposite, Vec
<1>5. IsVector(Opposite(v))
  BY <1>1 DEF IsVector, Opposite, Vec
<1> HIDE DEF a, b, c, d, e, f
<1>6. (-a) * (-d) = a * d /\ (-b) * (-e) = b * e /\ (-c) * (-f) = c * f
  BY <1>1
<1>7. (-a) * (-a) = a * a /\ (-b) * (-b) = b * b /\ (-c) * (-c) = c * c
  BY <1>1
<1>8. RawDot(Opposite(v), Opposite(w)) = RawDot(v, w)
      /\ RawDot(Opposite(v), Opposite(v)) = RawDot(v, v)
  BY <1>2, <1>6, <1>7
<1> QED
  BY <1>4, <1>5, <1>8 DEF Dot, Length

LEMMA OppositeSums ==
  ASSUME NEW r \in Nat, NEW s \in Nat, r + s < WordLimit,
         NEW v, InCube(v, r), NEW w, InCube(w, s)
  PROVE  /\ Minus(w, v) = Opposite(Minus(v, w))
         /\ InCube(Opposite(w), s)
         /\ Plus(v, Opposite(w)) = Minus(v, w)
         /\ Minus(v, Opposite(w)) = Plus(v, w)
<1>1. /\ v.x \in Int /\ v.y \in Int /\ v.z \in Int /\ w.x \in Int /\ w.y \in Int /\ w.z \in Int
      /\ s + r < WordLimit
  BY DEF InCube
<1>2. InCube(Opposite(w), s)
  BY DEF InCube, Opposite, Vec
<1>3. /\ Minus(v, w) = Vec(v.x - w.x, v.y - w.y, v.z - w.z)
      /\ Plus(v, w) = Vec(v.x + w.x, v.y + w.y, v.z + w.z)
  BY SumsAreExact
<1>4. Minus(w, v) = Vec(w.x - v.x, w.y - v.y, w.z - v.z)
  BY <1>1, SumsAreExact
<1>5. /\ Minus(v, Opposite(w)) = Vec(v.x - (-w.x), v.y - (-w.y), v.z - (-w.z))
      /\ Plus(v, Opposite(w)) = Vec(v.x + (-w.x), v.y + (-w.y), v.z + (-w.z))
  BY <1>2, SumsAreExact DEF Opposite, Vec
<1>6. /\ w.x - v.x = -(v.x - w.x) /\ w.y - v.y = -(v.y - w.y) /\ w.z - v.z = -(v.z - w.z)
      /\ v.x - (-w.x) = v.x + w.x /\ v.y - (-w.y) = v.y + w.y /\ v.z - (-w.z) = v.z + w.z
      /\ v.x + (-w.x) = v.x - w.x /\ v.y + (-w.y) = v.y - w.y /\ v.z + (-w.z) = v.z - w.z
  BY <1>1
<1>7. Minus(w, v) = Opposite(Minus(v, w))
  BY <1>3, <1>4, <1>6 DEF Opposite, Vec
<1> QED
  BY <1>2, <1>3, <1>5, <1>6, <1>7

LEMMA OppositeDirections ==
  ASSUME NEW v, IsVector(v)
  PROVE  Normalized(Opposite(v)) = Opposite(Normalized(v))
<1> DEFINE length == Length(v)
<1>1. length \in Nat /\ Length(Opposite(v)) = length
  BY LengthsBound, OppositesAgree
<1> HIDE DEF length
<1>2. CASE length = 0
  <2>1. Normalized(Opposite(v)) = Zero /\ Normalized(v) = Zero
    BY <1>1, <1>2 DEF Normalized, length
  <2> DEFINE b == 0
  <2>2. b \in Int /\ b + b = 0 /\ Zero = Vec(b, b, b)
    BY DEF Zero
  <2> HIDE DEF b
  <2>3. -b = b
    BY <2>2
  <2>4. Opposite(Vec(b, b, b)) = Vec(b, b, b)
    BY <2>3 DEF Opposite, Vec
  <2> QED
    BY <2>1, <2>2, <2>4
<1>3. CASE length # 0
  <2>1. ASSUME NEW c \in Int PROVE QDiv(-c, length) = -QDiv(c, length)
    <3>1. One \in Nat
      BY RoomFacts
    <3>2. (-c) * One = -(c * One) /\ c * One \in Int
      BY <3>1
    <3> QED
      BY <1>1, <1>3, <3>2, TruncatedIsOdd DEF QDiv
  <2>2. /\ Normalized(v) = Vec(QDiv(v.x, length), QDiv(v.y, length), QDiv(v.z, length))
        /\ Normalized(Opposite(v)) = Vec(QDiv(-v.x, length), QDiv(-v.y, length), QDiv(-v.z, length))
    BY <1>1, <1>3 DEF Normalized, Opposite, Vec, length
  <2>3. /\ QDiv(-v.x, length) = -QDiv(v.x, length) /\ QDiv(-v.y, length) = -QDiv(v.y, length)
        /\ QDiv(-v.z, length) = -QDiv(v.z, length)
    BY <2>1 DEF IsVector
  <2> QED
    BY <2>2, <2>3 DEF Opposite, Vec
<1> QED
  BY <1>2, <1>3

Offset(at, a, b) == Minus(at[b].position, at[a].position)
Rush(at, a, b) == Minus(at[b].velocity, at[a].velocity)
Depth(at, a, b) == QMul(2 * Radius - Length(Offset(at, a, b)), Half)
Rate(at, a, b) == Dot(Rush(at, a, b), Normalized(Offset(at, a, b)))
Kick(at, a, b) == QMul(QMul(-Rate(at, a, b), One + Config.restitution), Half)
Shift(at, a, b) == Scaled(Normalized(Offset(at, a, b)), Depth(at, a, b))
Bounce(at, a, b) ==
  IF Rate(at, a, b) >= 0 THEN Zero ELSE Scaled(Normalized(Offset(at, a, b)), Kick(at, a, b))

(* Two bodies in each other, not in one place. *)
Pressed(at, a, b) ==
  /\ a \in Body /\ b \in Body /\ a # b
  /\ Overlaps(at, <<a, b>>) /\ Gap(at, <<a, b>>) # 0

Moved(body, position, velocity) == [position |-> position, velocity |-> velocity, spin |-> body.spin]

LEMMA PositionsChange ==
  ASSUME NEW body, body = [position |-> body.position, velocity |-> body.velocity, spin |-> body.spin],
         NEW position
  PROVE  [body EXCEPT !.position = position] =
           [position |-> position, velocity |-> body.velocity, spin |-> body.spin]
<1> DEFINE p == body.position
           v == body.velocity
           s == body.spin
<1>1. body = [position |-> p, velocity |-> v, spin |-> s]
  OBVIOUS
<1> HIDE DEF p, v, s
<1>2. [body EXCEPT !.position = position] = [position |-> position, velocity |-> v, spin |-> s]
  BY <1>1
<1> QED
  BY <1>2 DEF v, s

LEMMA VelocitiesChange ==
  ASSUME NEW body, NEW position, NEW velocity
  PROVE  [[position |-> position, velocity |-> body.velocity, spin |-> body.spin]
            EXCEPT !.velocity = velocity] = Moved(body, position, velocity)
<1> DEFINE v == body.velocity
           s == body.spin
<1> HIDE DEF v, s
<1>1. [[position |-> position, velocity |-> v, spin |-> s] EXCEPT !.velocity = velocity] =
        [position |-> position, velocity |-> velocity, spin |-> s]
  OBVIOUS
<1> QED
  BY <1>1 DEF Moved, v, s

LEMMA PartingIs ==
  ASSUME NEW at, Roomy(at), NEW a, NEW b, Pressed(at, a, b)
  PROVE  LET shift == Shift(at, a, b)
             bounce == Bounce(at, a, b)
         IN  Separated(at, <<a, b>>) =
               [id \in Body |->
                  IF id = a THEN Moved(at[a], Minus(at[a].position, shift), Minus(at[a].velocity, bounce))
                  ELSE IF id = b THEN Moved(at[b], Plus(at[b].position, shift), Plus(at[b].velocity, bounce))
                  ELSE at[id]]
<1> DEFINE shift == Shift(at, a, b)
           bounce == Bounce(at, a, b)
           p == Minus(at[a].position, shift)
           q == Plus(at[b].position, shift)
           v == Minus(at[a].velocity, bounce)
           w == Plus(at[b].velocity, bounce)
           A == at[a]
           B == at[b]
           x == [position |-> p, velocity |-> A.velocity, spin |-> A.spin]
           y == [position |-> q, velocity |-> B.velocity, spin |-> B.spin]
           X == Moved(A, p, v)
           Y == Moved(B, q, w)
<1>1. a \in Body /\ b \in Body /\ a # b /\ at = [id \in Body |-> at[id]]
  BY RoomyBodies DEF Pressed
<1>2. /\ A = [position |-> A.position, velocity |-> A.velocity, spin |-> A.spin]
      /\ B = [position |-> B.position, velocity |-> B.velocity, spin |-> B.spin]
  BY <1>1, RoomyBodies DEF IsBody
<1>3. Separated(at, <<a, b>>) =
        [at EXCEPT ![a].position = p, ![b].position = q, ![a].velocity = v, ![b].velocity = w]
  <2> DEFINE pair == <<a, b>>
             gap == Gap(at, pair)
             offset == Minus(at[pair[2]].position, at[pair[1]].position)
             normal == IF gap = 0 THEN UnitX
                       ELSE Vec(QDiv(offset.x, gap), QDiv(offset.y, gap), QDiv(offset.z, gap))
             push == Scaled(normal, QMul(2 * Radius - gap, Half))
             impulse == QMul(QMul(-Closing(at, pair, normal), One + Config.restitution), Half)
             rebound == IF Closing(at, pair, normal) >= 0 THEN Zero ELSE Scaled(normal, impulse)
  <2>1. pair[1] = a /\ pair[2] = b /\ offset = Offset(at, a, b)
    BY DEF Offset
  <2>2. gap # 0 /\ gap = Length(offset)
    BY DEF Pressed, Gap
  <2>3. normal = Normalized(offset)
    <3> HIDE DEF offset, gap
    <3> QED
      BY <2>2 DEF Normalized
  <2>4. Closing(at, pair, normal) = Rate(at, a, b)
    <3>1. Closing(at, pair, normal) = Dot(Rush(at, a, b), normal)
      BY DEF Closing, Rush
    <3> HIDE DEF normal, offset, pair
    <3> QED
      BY <2>1, <2>3, <3>1 DEF Rate
  <2>5. Separated(at, pair) =
          [at EXCEPT ![pair[1]].position = Minus(at[pair[1]].position, push),
                     ![pair[2]].position = Plus(at[pair[2]].position, push),
                     ![pair[1]].velocity = Minus(at[pair[1]].velocity, rebound),
                     ![pair[2]].velocity = Plus(at[pair[2]].velocity, rebound)]
    <3> HIDE DEF pair
    <3> QED
      BY DEF Separated
  <2> HIDE DEF gap, offset, normal
  <2>6. push = shift
    BY <2>1, <2>2, <2>3 DEF Shift, Depth
  <2>7. rebound = bounce
    <3> HIDE DEF pair
    <3> QED
      BY <2>1, <2>3, <2>4 DEF Bounce, Kick
  <2> HIDE DEF push, rebound, pair, shift, bounce
  <2> QED
    BY <2>1, <2>5, <2>6, <2>7 DEF pair
<1> HIDE DEF shift, bounce
<1> DEFINE at1 == [at EXCEPT ![a].position = p]
           at2 == [at1 EXCEPT ![b].position = q]
           at3 == [at2 EXCEPT ![a].velocity = v]
           at4 == [at3 EXCEPT ![b].velocity = w]
<1>4. Separated(at, <<a, b>>) = at4
  <2> HIDE DEF p, q, v, w
  <2> QED
    BY <1>3
<1>5. [A EXCEPT !.position = p] = x /\ [B EXCEPT !.position = q] = y
  <2> HIDE DEF p, q, A, B
  <2> QED
    BY <1>2, PositionsChange
<1>6. [x EXCEPT !.velocity = v] = X /\ [y EXCEPT !.velocity = w] = Y
  <2> HIDE DEF p, q, v, w, A, B
  <2> QED
    BY VelocitiesChange
<1>7. at1 = [id \in Body |-> IF id = a THEN x ELSE at[id]]
  <2>1. at1 = [at EXCEPT ![a] = [A EXCEPT !.position = p]]
    OBVIOUS
  <2> HIDE DEF x, p, A, at1
  <2> QED
    BY <1>1, <1>5, <2>1
<1>8. at2 = [id \in Body |-> IF id = a THEN x ELSE IF id = b THEN y ELSE at[id]]
  <2>1. at1[b] = B
    BY <1>1, <1>7
  <2>2. at2 = [at1 EXCEPT ![b] = [B EXCEPT !.position = q]]
    <3>1. at2 = [at1 EXCEPT ![b] = [at1[b] EXCEPT !.position = q]]
      OBVIOUS
    <3> HIDE DEF at1, at2
    <3> QED
      BY <2>1, <3>1
  <2> HIDE DEF x, y, q, B, at1, at2
  <2> QED
    BY <1>1, <1>5, <1>7, <2>2
<1>9. at3 = [id \in Body |-> IF id = a THEN X ELSE IF id = b THEN y ELSE at[id]]
  <2>1. at2[a] = x
    BY <1>1, <1>8
  <2>2. at3 = [at2 EXCEPT ![a] = [x EXCEPT !.velocity = v]]
    <3>1. at3 = [at2 EXCEPT ![a] = [at2[a] EXCEPT !.velocity = v]]
      OBVIOUS
    <3> HIDE DEF at2, at3, x
    <3> QED
      BY <2>1, <3>1
  <2> HIDE DEF x, y, X, v, at2, at3
  <2> QED
    BY <1>1, <1>6, <1>8, <2>2
<1>10. at4 = [id \in Body |-> IF id = a THEN X ELSE IF id = b THEN Y ELSE at[id]]
  <2>1. at3[b] = y
    BY <1>1, <1>9
  <2>2. at4 = [at3 EXCEPT ![b] = [y EXCEPT !.velocity = w]]
    <3>1. at4 = [at3 EXCEPT ![b] = [at3[b] EXCEPT !.velocity = w]]
      OBVIOUS
    <3> HIDE DEF at3, at4, y
    <3> QED
      BY <2>1, <3>1
  <2> HIDE DEF y, X, Y, w, at3, at4
  <2> QED
    BY <1>1, <1>6, <1>9, <2>2
<1> QED
  BY <1>4, <1>10 DEF shift, bounce

-----------------------------------------------------------------------------

LEMMA GapsFit ==
  ASSUME NEW at, Roomy(at), NEW a \in Body, NEW b \in Body
  PROVE  /\ InCube(Offset(at, a, b), 2 * Room) /\ IsVector(Offset(at, a, b))
         /\ InCube(Rush(at, a, b), 2 * Room) /\ IsVector(Rush(at, a, b))
         /\ Offset(at, b, a) = Opposite(Offset(at, a, b))
         /\ Rush(at, b, a) = Opposite(Rush(at, a, b))
         /\ Gap(at, <<a, b>>) = Length(Offset(at, a, b)) /\ Gap(at, <<a, b>>) \in Nat
         /\ Gap(at, <<b, a>>) = Gap(at, <<a, b>>)
<1> DEFINE p == at[a].position
           q == at[b].position
           v == at[a].velocity
           w == at[b].velocity
           twice == 2 * Room
<1>1. /\ Room \in Nat /\ WordLimit \in Nat /\ twice \in Nat /\ Room + Room = twice /\ twice < WordLimit
  BY RoomFacts
<1>2. InCube(p, Room) /\ InCube(q, Room) /\ InCube(v, Room) /\ InCube(w, Room)
  BY RoomyBodies DEF IsBody
<1>3. /\ Offset(at, a, b) = Minus(q, p) /\ Offset(at, b, a) = Minus(p, q)
      /\ Rush(at, a, b) = Minus(w, v) /\ Rush(at, b, a) = Minus(v, w)
  BY DEF Offset, Rush
<1>4. /\ Gap(at, <<a, b>>) = Length(Offset(at, a, b)) /\ Gap(at, <<b, a>>) = Length(Offset(at, b, a))
  BY DEF Gap, Offset
<1> HIDE DEF p, q, v, w, twice
<1>5. /\ InCube(Minus(q, p), twice) /\ InCube(Minus(w, v), twice)
      /\ Minus(p, q) = Opposite(Minus(q, p)) /\ Minus(v, w) = Opposite(Minus(w, v))
  BY <1>1, <1>2, SumsAreExact, OppositeSums
<1>6. IsVector(Minus(q, p)) /\ IsVector(Minus(w, v))
  BY <1>1, <1>5, CubesHoldVectors
<1>7. /\ Length(Opposite(Minus(q, p))) = Length(Minus(q, p)) /\ Length(Minus(q, p)) \in Nat
  BY <1>6, OppositesAgree, LengthsBound
<1> QED
  BY <1>3, <1>4, <1>5, <1>6, <1>7 DEF twice

(* How far, and how fast, a pair is pushed apart is within the word.       *)
LEMMA PartingFits ==
  ASSUME NEW at, Roomy(at), NEW a, NEW b, Pressed(at, a, b)
  PROVE  /\ InCube(Normalized(Offset(at, a, b)), One)
         /\ Depth(at, a, b) \in -(2 * Radius) .. 2 * Radius
         /\ Rate(at, a, b) \in -(6 * Room) .. 6 * Room
         /\ Kick(at, a, b) \in -(12 * Room) .. 12 * Room
         /\ InCube(Shift(at, a, b), 2 * Radius)
         /\ InCube(Bounce(at, a, b), 12 * Room)
<1> DEFINE normal == Normalized(Offset(at, a, b))
           depth == Depth(at, a, b)
           rate == Rate(at, a, b)
           kick == Kick(at, a, b)
           deep == 2 * Radius
           fast == 6 * Room
           most == 12 * Room
<1>1. /\ One \in Nat \ {0} /\ Room \in Nat /\ Radius \in Nat /\ Half \in 0 .. One
      /\ Config.restitution \in 0 .. One /\ deep \in Nat /\ fast \in Nat /\ most \in Nat
      /\ 2 * Room \in Nat /\ most = 2 * fast /\ fast = 3 * (2 * Room)
  BY RoomFacts, SharesAreShares
<1>2. a \in Body /\ b \in Body
  BY DEF Pressed
<1>3. /\ InCube(Offset(at, a, b), 2 * Room) /\ IsVector(Offset(at, a, b))
      /\ InCube(Rush(at, a, b), 2 * Room)
      /\ Length(Offset(at, a, b)) \in 0 .. deep
  <2> DEFINE gap == Length(Offset(at, a, b))
  <2>1. Gap(at, <<a, b>>) = gap /\ Gap(at, <<a, b>>) < 2 * Radius
    BY <1>2, GapsFit DEF Pressed, Overlaps
  <2>2. /\ InCube(Offset(at, a, b), 2 * Room) /\ IsVector(Offset(at, a, b))
        /\ InCube(Rush(at, a, b), 2 * Room) /\ gap \in Nat
    BY <1>2, <2>1, GapsFit
  <2> HIDE DEF gap
  <2>3. gap \in 0 .. deep
    BY <1>1, <2>1, <2>2
  <2> QED
    BY <2>2, <2>3 DEF gap
<1>4. InCube(normal, One)
  BY <1>3, DirectionsAreUnits
<1>5. ASSUME NEW r \in Nat, NEW c \in -r .. r, NEW d \in 0 .. One
      PROVE  QMul(c, d) \in -r .. r
  <2>1. c * d \in Int /\ AbsOf(c * d) <= r * One
    BY <1>1, ProductsWithin
  <2> QED
    BY <1>1, <2>1, TruncatedWithin DEF QMul
<1>6. depth \in -deep .. deep
  <2> DEFINE c == 2 * Radius - Length(Offset(at, a, b))
  <2>1. c \in -deep .. deep
    BY <1>1, <1>3
  <2> HIDE DEF c, deep
  <2>2. QMul(c, Half) \in -deep .. deep
    BY <1>1, <1>5, <2>1
  <2> QED
    BY <2>2 DEF Depth, c
<1> HIDE DEF fast, most, deep
<1>7. rate \in -fast .. fast
  BY <1>1, <1>3, <1>4, DotsWithin DEF Rate
<1>8. kick \in -most .. most
  <2> DEFINE gain == One + Config.restitution
             c == -rate
             n == QMul(c, gain)
  <2>1. c \in -fast .. fast
    BY <1>1, <1>7
  <2>2. gain \in -(2 * One) .. 2 * One /\ 2 * One \in Nat
    BY <1>1
  <2>3. kick = QMul(n, Half)
    BY DEF Kick
  <2> HIDE DEF gain, c, rate
  <2>4. c * gain \in Int /\ AbsOf(c * gain) <= fast * (2 * One)
    BY <1>1, <2>1, <2>2, ProductsWithin
  <2>5. fast * (2 * One) = most * One
    BY <1>1
  <2>6. n \in -most .. most
    BY <1>1, <2>4, <2>5, TruncatedWithin DEF QMul
  <2> HIDE DEF n
  <2> QED
    BY <1>1, <1>5, <2>3, <2>6
<1> HIDE DEF normal, depth, rate, kick
<1>9. InCube(Scaled(normal, depth), deep)
  BY <1>1, <1>4, <1>6, UnitsFace DEF Faces
<1>10. InCube(Scaled(normal, kick), most)
  BY <1>1, <1>4, <1>8, UnitsFace DEF Faces
<1>11. InCube(Zero, most)
  BY <1>1, ZeroFaces DEF Faces
<1>12. /\ Shift(at, a, b) = Scaled(normal, depth)
       /\ Bounce(at, a, b) \in {Zero, Scaled(normal, kick)}
  BY DEF Shift, Bounce, normal, depth, kick
<1>13. /\ normal = Normalized(Offset(at, a, b)) /\ depth = Depth(at, a, b) /\ rate = Rate(at, a, b)
       /\ kick = Kick(at, a, b)
  BY DEF normal, depth, rate, kick
<1> QED
  BY <1>4, <1>6, <1>7, <1>8, <1>9, <1>10, <1>11, <1>12, <1>13 DEF deep, fast, most

(* Who is called first does not matter.                                    *)
LEMMA PairSwaps ==
  ASSUME NEW at, Roomy(at), NEW a, NEW b, Pressed(at, a, b)
  PROVE  Separated(at, <<b, a>>) = Separated(at, <<a, b>>)
<1> DEFINE offset == Offset(at, a, b)
           normal == Normalized(offset)
           shift == Shift(at, a, b)
           bounce == Bounce(at, a, b)
<1>1. /\ One \in Nat /\ Room \in Nat /\ Radius \in Nat /\ WordLimit \in Nat
      /\ 2 * Radius \in Nat /\ 12 * Room \in Nat /\ Room + 2 * Radius < WordLimit
      /\ Room + 12 * Room < WordLimit /\ Config.restitution \in Int /\ Half \in Int
  BY RoomFacts, SharesAreShares
<1>2. a \in Body /\ b \in Body /\ a # b
  BY DEF Pressed
<1>3. /\ IsVector(offset) /\ IsVector(Rush(at, a, b)) /\ Offset(at, b, a) = Opposite(offset)
      /\ Rush(at, b, a) = Opposite(Rush(at, a, b)) /\ Gap(at, <<b, a>>) = Gap(at, <<a, b>>)
  BY <1>2, GapsFit
<1>4. Pressed(at, b, a)
  BY <1>3 DEF Pressed, Overlaps
<1>5. /\ InCube(normal, One) /\ Depth(at, a, b) \in Int /\ Rate(at, a, b) \in Int /\ Kick(at, a, b) \in Int
      /\ InCube(shift, 2 * Radius) /\ InCube(bounce, 12 * Room)
  BY PartingFits
<1> HIDE DEF offset, shift, bounce
<1>6. IsVector(normal) /\ Normalized(Offset(at, b, a)) = Opposite(normal)
  BY <1>1, <1>3, <1>5, CubesHoldVectors, OppositeDirections
<1>7. Depth(at, b, a) = Depth(at, a, b)
  BY <1>3, OppositesAgree DEF Depth, offset
<1>8. Rate(at, b, a) = Rate(at, a, b)
  <2> HIDE DEF normal
  <2>1. Rate(at, a, b) = Dot(Rush(at, a, b), normal)
    BY DEF Rate, offset, normal
  <2>2. Rate(at, b, a) = Dot(Opposite(Rush(at, a, b)), Opposite(normal))
    BY <1>3, <1>6 DEF Rate
  <2> QED
    BY <1>3, <1>6, <2>1, <2>2, OppositesAgree
<1>9. Kick(at, b, a) = Kick(at, a, b)
  BY <1>8 DEF Kick
<1>10. Shift(at, b, a) = Opposite(shift)
  <2>1. Shift(at, b, a) = Scaled(Opposite(normal), Depth(at, a, b))
    BY <1>6, <1>7 DEF Shift
  <2>2. shift = Scaled(normal, Depth(at, a, b))
    BY DEF Shift, shift, normal, offset
  <2> HIDE DEF normal
  <2> QED
    BY <1>5, <1>6, <2>1, <2>2, OppositesAgree
<1>11. Bounce(at, b, a) = Opposite(bounce)
  <2> DEFINE z == 0
  <2>1. z \in Int /\ z + z = 0 /\ Zero = Vec(z, z, z)
    BY DEF Zero
  <2> HIDE DEF z
  <2>2. Opposite(Zero) = Zero
    <3>1. -z = z
      BY <2>1
    <3>2. Opposite(Vec(z, z, z)) = Vec(-z, -z, -z)
      BY DEF Opposite, Vec
    <3> QED
      BY <2>1, <3>1, <3>2
  <2>3. Bounce(at, b, a) = IF Rate(at, a, b) >= 0 THEN Zero ELSE Scaled(Opposite(normal), Kick(at, a, b))
    BY <1>6, <1>8, <1>9 DEF Bounce
  <2>4. bounce = IF Rate(at, a, b) >= 0 THEN Zero ELSE Scaled(normal, Kick(at, a, b))
    BY DEF Bounce, bounce, normal, offset
  <2> HIDE DEF normal
  <2>5. Scaled(Opposite(normal), Kick(at, a, b)) = Opposite(Scaled(normal, Kick(at, a, b)))
    BY <1>5, <1>6, OppositesAgree
  <2> QED
    BY <2>2, <2>3, <2>4, <2>5
<1>12. /\ InCube(at[a].position, Room) /\ InCube(at[b].position, Room)
       /\ InCube(at[a].velocity, Room) /\ InCube(at[b].velocity, Room)
  BY <1>2, RoomyBodies DEF IsBody
<1>13. /\ Minus(at[b].position, Opposite(shift)) = Plus(at[b].position, shift)
       /\ Plus(at[a].position, Opposite(shift)) = Minus(at[a].position, shift)
  BY <1>1, <1>5, <1>12, OppositeSums
<1>14. /\ Minus(at[b].velocity, Opposite(bounce)) = Plus(at[b].velocity, bounce)
       /\ Plus(at[a].velocity, Opposite(bounce)) = Minus(at[a].velocity, bounce)
  BY <1>1, <1>5, <1>12, OppositeSums
<1> DEFINE p == Minus(at[a].position, shift)
           q == Plus(at[b].position, shift)
           v == Minus(at[a].velocity, bounce)
           w == Plus(at[b].velocity, bounce)
           A == Moved(at[a], p, v)
           B == Moved(at[b], q, w)
<1>15. Separated(at, <<a, b>>) = [id \in Body |-> IF id = a THEN A ELSE IF id = b THEN B ELSE at[id]]
  BY PartingIs DEF shift, bounce
<1>16. Separated(at, <<b, a>>) = [id \in Body |-> IF id = b THEN B ELSE IF id = a THEN A ELSE at[id]]
  <2>1. Separated(at, <<b, a>>) =
          [id \in Body |->
             IF id = b THEN Moved(at[b], Minus(at[b].position, Opposite(shift)),
                                         Minus(at[b].velocity, Opposite(bounce)))
             ELSE IF id = a THEN Moved(at[a], Plus(at[a].position, Opposite(shift)),
                                              Plus(at[a].velocity, Opposite(bounce)))
             ELSE at[id]]
    BY <1>4, <1>10, <1>11, PartingIs
  <2> QED
    BY <1>13, <1>14, <2>1
<1> HIDE DEF A, B
<1> QED
  BY <1>2, <1>15, <1>16

-----------------------------------------------------------------------------

(* The bodies turned, each in its counterpart's place.                     *)
Across(at) == [id \in Body |-> TurnedBody(at[Counterpart(id)])]

LEMMA AcrossIsRoomy ==
  ASSUME NEW at, Roomy(at)
  PROVE  /\ Roomy(Across(at))
         /\ \A id \in Body : Across(at)[id] = TurnedBody(at[Counterpart(id)])
         /\ \A id \in Body : Across(at)[Counterpart(id)] = TurnedBody(at[id])
<1>1. ASSUME NEW body, IsBody(body) PROVE IsBody(TurnedBody(body))
  <2>1. /\ InCube(Turned(body.position), Room) /\ InCube(Turned(body.velocity), Room)
        /\ InCube(Turned(body.spin), Room)
    BY <1>1, RoomFacts, CubesHoldVectors DEF IsBody
  <2> QED
    BY <2>1 DEF IsBody, TurnedBody
<1>2. \A id \in Body : IsBody(at[id])
  BY RoomyBodies
<1>3. \A id \in Body : Across(at)[id] = TurnedBody(at[Counterpart(id)])
  BY DEF Across
<1>4. \A id \in Body : IsBody(Across(at)[id])
  BY <1>1, <1>2, <1>3, CounterpartsExchange
<1>5. Across(at) = [id \in Body |-> Across(at)[id]]
  BY DEF Across
<1> QED
  BY <1>3, <1>4, <1>5, RoomyBodies, CounterpartsExchange

LEMMA GapsTurn ==
  ASSUME NEW at, Roomy(at), NEW a \in Body, NEW b \in Body
  PROVE  LET c == Counterpart(a)
             d == Counterpart(b)
         IN  /\ Offset(Across(at), c, d) = Turned(Offset(at, a, b))
             /\ Rush(Across(at), c, d) = Turned(Rush(at, a, b))
             /\ Gap(Across(at), <<c, d>>) = Gap(at, <<a, b>>)
<1> DEFINE c == Counterpart(a)
           d == Counterpart(b)
           p == at[a].position
           q == at[b].position
           v == at[a].velocity
           w == at[b].velocity
<1>1. /\ Room \in Nat /\ WordLimit \in Nat /\ Room + Room < WordLimit
  BY RoomFacts
<1>2. InCube(p, Room) /\ InCube(q, Room) /\ InCube(v, Room) /\ InCube(w, Room)
  BY RoomyBodies DEF IsBody
<1>3. c \in Body /\ d \in Body
  BY CounterpartsExchange
<1>4. /\ Across(at)[c].position = Turned(p) /\ Across(at)[d].position = Turned(q)
      /\ Across(at)[c].velocity = Turned(v) /\ Across(at)[d].velocity = Turned(w)
  <2>1. Across(at)[c] = TurnedBody(at[a]) /\ Across(at)[d] = TurnedBody(at[b])
    BY AcrossIsRoomy
  <2> HIDE DEF c, d
  <2> QED
    BY <2>1 DEF TurnedBody
<1>5. /\ Offset(at, a, b) = Minus(q, p) /\ Rush(at, a, b) = Minus(w, v)
  BY DEF Offset, Rush
<1>6. /\ Offset(Across(at), c, d) = Minus(Turned(q), Turned(p))
      /\ Rush(Across(at), c, d) = Minus(Turned(w), Turned(v))
  <2> HIDE DEF c, d
  <2> QED
    BY <1>4 DEF Offset, Rush
<1> HIDE DEF p, q, v, w, c, d
<1>7. /\ Minus(Turned(q), Turned(p)) = Turned(Minus(q, p))
      /\ Minus(Turned(w), Turned(v)) = Turned(Minus(w, v))
  BY <1>1, <1>2, SumsTurnInCubes
<1>8. IsVector(Offset(at, a, b)) /\ Gap(at, <<a, b>>) = Length(Offset(at, a, b))
      /\ Gap(Across(at), <<c, d>>) = Length(Offset(Across(at), c, d))
  BY <1>3, GapsFit, AcrossIsRoomy
<1>9. Offset(Across(at), c, d) = Turned(Offset(at, a, b))
  BY <1>5, <1>6, <1>7
<1>10. Length(Turned(Offset(at, a, b))) = Length(Offset(at, a, b))
  BY <1>8, LengthsTurn
<1> QED
  BY <1>5, <1>6, <1>7, <1>8, <1>9, <1>10 DEF c, d

LEMMA PairTurns ==
  ASSUME NEW at, Roomy(at), NEW a, NEW b, Pressed(at, a, b)
  PROVE  LET c == Counterpart(a)
             d == Counterpart(b)
         IN  /\ Pressed(Across(at), c, d)
             /\ Separated(Across(at), <<c, d>>) = Across(Separated(at, <<a, b>>))
<1> DEFINE c == Counterpart(a)
           d == Counterpart(b)
           image == Across(at)
           offset == Offset(at, a, b)
           normal == Normalized(offset)
           shift == Shift(at, a, b)
           bounce == Bounce(at, a, b)
<1>1. /\ One \in Nat /\ Room \in Nat /\ Radius \in Nat /\ WordLimit \in Nat
      /\ 2 * Radius \in Nat /\ 12 * Room \in Nat /\ Room + 2 * Radius < WordLimit
      /\ Room + 12 * Room < WordLimit /\ Config.restitution \in Int /\ Half \in Int
  BY RoomFacts, SharesAreShares
<1>2. a \in Body /\ b \in Body /\ a # b
  BY DEF Pressed
<1>3. c \in Body /\ d \in Body /\ c # d /\ Counterpart(c) = a /\ Counterpart(d) = b
  BY <1>2, CounterpartsExchange
<1>4. Roomy(image) /\ image[c] = TurnedBody(at[a]) /\ image[d] = TurnedBody(at[b])
      /\ \A id \in Body : image[id] = TurnedBody(at[Counterpart(id)])
  BY <1>2, AcrossIsRoomy
<1>5. /\ Offset(image, c, d) = Turned(offset) /\ Rush(image, c, d) = Turned(Rush(at, a, b))
      /\ Gap(image, <<c, d>>) = Gap(at, <<a, b>>)
  BY <1>2, GapsTurn
<1> HIDE DEF image, c, d
<1>6. Pressed(image, c, d)
  BY <1>3, <1>5 DEF Pressed, Overlaps
<1>7. IsVector(offset) /\ IsVector(Rush(at, a, b))
  BY <1>2, GapsFit
<1>8. /\ InCube(normal, One) /\ Depth(at, a, b) \in Int /\ Rate(at, a, b) \in Int /\ Kick(at, a, b) \in Int
      /\ InCube(shift, 2 * Radius) /\ InCube(bounce, 12 * Room)
  BY PartingFits
<1> HIDE DEF offset, shift, bounce
<1>9. IsVector(normal) /\ Normalized(Offset(image, c, d)) = Turned(normal)
  BY <1>1, <1>5, <1>7, <1>8, CubesHoldVectors, DirectionsTurn
<1>10. Depth(image, c, d) = Depth(at, a, b)
  BY <1>5, <1>7, LengthsTurn DEF Depth, offset
<1>11. Rate(image, c, d) = Rate(at, a, b)
  <2> HIDE DEF normal
  <2>1. Rate(at, a, b) = Dot(Rush(at, a, b), normal)
    BY DEF Rate, offset, normal
  <2>2. Rate(image, c, d) = Dot(Turned(Rush(at, a, b)), Turned(normal))
    BY <1>5, <1>9 DEF Rate
  <2> QED
    BY <1>7, <1>9, <2>1, <2>2, DotsTurn
<1>12. Kick(image, c, d) = Kick(at, a, b)
  BY <1>11 DEF Kick
<1>13. Shift(image, c, d) = Turned(shift)
  <2>1. Shift(image, c, d) = Scaled(Turned(normal), Depth(at, a, b))
    BY <1>9, <1>10 DEF Shift
  <2>2. shift = Scaled(normal, Depth(at, a, b))
    BY DEF Shift, shift, normal, offset
  <2> HIDE DEF normal
  <2> QED
    BY <1>8, <1>9, <2>1, <2>2, ScaledTurns
<1>14. Bounce(image, c, d) = Turned(bounce)
  <2>1. Bounce(image, c, d) = IF Rate(at, a, b) >= 0 THEN Zero ELSE Scaled(Turned(normal), Kick(at, a, b))
    BY <1>9, <1>11, <1>12 DEF Bounce
  <2>2. bounce = IF Rate(at, a, b) >= 0 THEN Zero ELSE Scaled(normal, Kick(at, a, b))
    BY DEF Bounce, bounce, normal, offset
  <2> HIDE DEF normal
  <2>3. Scaled(Turned(normal), Kick(at, a, b)) = Turned(Scaled(normal, Kick(at, a, b)))
    BY <1>8, <1>9, ScaledTurns
  <2> QED
    BY <2>1, <2>2, <2>3, ZeroStays
<1>15. /\ InCube(at[a].position, Room) /\ InCube(at[b].position, Room)
       /\ InCube(at[a].velocity, Room) /\ InCube(at[b].velocity, Room)
  BY <1>2, RoomyBodies DEF IsBody
<1> DEFINE p == Minus(at[a].position, shift)
           q == Plus(at[b].position, shift)
           v == Minus(at[a].velocity, bounce)
           w == Plus(at[b].velocity, bounce)
<1>16. /\ Minus(Turned(at[a].position), Turned(shift)) = Turned(p)
       /\ Plus(Turned(at[b].position), Turned(shift)) = Turned(q)
  BY <1>1, <1>8, <1>15, SumsTurnInCubes
<1>17. /\ Minus(Turned(at[a].velocity), Turned(bounce)) = Turned(v)
       /\ Plus(Turned(at[b].velocity), Turned(bounce)) = Turned(w)
  BY <1>1, <1>8, <1>15, SumsTurnInCubes
<1>18. Separated(at, <<a, b>>) =
         [id \in Body |-> IF id = a THEN Moved(at[a], p, v) ELSE IF id = b THEN Moved(at[b], q, w) ELSE at[id]]
  BY PartingIs DEF shift, bounce
<1>19. Separated(image, <<c, d>>) =
         [id \in Body |-> IF id = c THEN Moved(image[c], Turned(p), Turned(v))
                          ELSE IF id = d THEN Moved(image[d], Turned(q), Turned(w)) ELSE image[id]]
  <2>1. Separated(image, <<c, d>>) =
          [id \in Body |->
             IF id = c THEN Moved(image[c], Minus(image[c].position, Turned(shift)),
                                            Minus(image[c].velocity, Turned(bounce)))
             ELSE IF id = d THEN Moved(image[d], Plus(image[d].position, Turned(shift)),
                                                 Plus(image[d].velocity, Turned(bounce)))
             ELSE image[id]]
    BY <1>4, <1>6, <1>13, <1>14, PartingIs
  <2>2. /\ image[c].position = Turned(at[a].position) /\ image[c].velocity = Turned(at[a].velocity)
        /\ image[d].position = Turned(at[b].position) /\ image[d].velocity = Turned(at[b].velocity)
    BY <1>4 DEF TurnedBody
  <2> HIDE DEF p, q, v, w
  <2> QED
    BY <1>16, <1>17, <2>1, <2>2 DEF p, q, v, w
<1> HIDE DEF p, q, v, w
<1>20. /\ Moved(image[c], Turned(p), Turned(v)) = TurnedBody(Moved(at[a], p, v))
       /\ Moved(image[d], Turned(q), Turned(w)) = TurnedBody(Moved(at[b], q, w))
  BY <1>4 DEF Moved, TurnedBody
<1> DEFINE after == Separated(at, <<a, b>>)
<1>21. ASSUME NEW id \in Body PROVE Separated(image, <<c, d>>)[id] = TurnedBody(after[Counterpart(id)])
  <2>1. CASE id = c
    BY <1>2, <1>3, <1>18, <1>19, <1>20, <2>1
  <2>2. CASE id = d
    BY <1>2, <1>3, <1>18, <1>19, <1>20, <2>2
  <2>3. CASE id # c /\ id # d
    <3>1. Counterpart(id) \in Body /\ Counterpart(id) # a /\ Counterpart(id) # b
      BY <1>2, <2>3, CounterpartsExchange DEF c, d
    <3>2. after[Counterpart(id)] = at[Counterpart(id)]
      BY <1>18, <3>1
    <3>3. Separated(image, <<c, d>>)[id] = image[id]
      BY <1>19, <2>3
    <3> QED
      BY <1>4, <3>2, <3>3
  <2> QED
    BY <2>1, <2>2, <2>3
<1>22. Separated(image, <<c, d>>) = [id \in Body |-> Separated(image, <<c, d>>)[id]]
  BY <1>19
<1> HIDE DEF after
<1>23. Separated(image, <<c, d>>) = [id \in Body |-> TurnedBody(after[Counterpart(id)])]
  BY <1>21, <1>22
<1>24. Separated(image, <<c, d>>) = Across(after)
  BY <1>23 DEF Across
<1> QED
  BY <1>6, <1>24 DEF c, d, image, after

-----------------------------------------------------------------------------

LEMMA SweepsUnroll ==
  ASSUME NEW at, NEW seen
  PROVE  /\ Sweeps(at, seen)[0] = [bodies |-> at, touched |-> seen]
         /\ \A n \in 1 .. Config.sweeps :
              Sweeps(at, seen)[n] = Swept(Sweeps(at, seen)[n - 1].bodies, Sweeps(at, seen)[n - 1].touched)
<1> DEFINE Again(before) == Swept(before.bodies, before.touched)
           start == [bodies |-> at, touched |-> seen]
           Equation(f, k) == f = [n \in 0 .. k |-> IF n = 0 THEN start ELSE Again(f[n - 1])]
           total == Config.sweeps
           upto == CHOOSE f : Equation(f, total)
<1>1. total \in Nat
  BY SharesAreShares
<1>2. Sweeps(at, seen) = upto
  BY DEF Sweeps
<1>3. ASSUME NEW k \in Nat PROVE \E f : Equation(f, k)
  <2> HIDE DEF Again, start
  <2> DEFINE S == {n \in Nat : \E f : Equation(f, n)}
  <2>1. 0 \in S
    <3>1. Equation([n \in 0 .. 0 |-> start], 0)
      OBVIOUS
    <3> HIDE DEF Equation
    <3> QED
      BY <3>1
  <2>2. ASSUME NEW m \in Nat, m \in S PROVE m + 1 \in S
    <3>1. PICK f : Equation(f, m)
      BY <2>2
    <3> DEFINE g == [n \in 0 .. m + 1 |-> IF n = m + 1 THEN Again(f[m]) ELSE f[n]]
    <3>2. ASSUME NEW n \in 0 .. m + 1
          PROVE  g[n] = IF n = 0 THEN start ELSE Again(g[n - 1])
      <4>1. CASE n = 0
        <5>1. f[0] = start
          BY <3>1
        <5> QED
          BY <4>1, <5>1
      <4>2. CASE n = m + 1
        <5>1. g[n] = Again(f[m]) /\ n - 1 = m /\ g[m] = f[m] /\ n # 0
          BY <4>2
        <5> HIDE DEF g
        <5> QED
          BY <5>1
      <4>3. CASE n # 0 /\ n # m + 1
        <5>1. n \in 0 .. m /\ n - 1 \in 0 .. m + 1 /\ n - 1 # m + 1
          BY <4>3
        <5>2. f[n] = Again(f[n - 1])
          BY <3>1, <4>3, <5>1
        <5>3. g[n] = f[n] /\ g[n - 1] = f[n - 1]
          BY <4>3, <5>1
        <5> HIDE DEF g
        <5> QED
          BY <4>3, <5>2, <5>3
      <4> QED
        BY <4>1, <4>2, <4>3
    <3>3. Equation(g, m + 1)
      BY <3>2
    <3> HIDE DEF Equation, g
    <3> QED
      BY <3>3
  <2>3. Nat \subseteq S
    <3> HIDE DEF S
    <3> QED
      BY <2>1, <2>2, SetInduction
  <2> QED
    BY <2>3
<1>4. Equation(upto, total)
  <2> HIDE DEF Equation
  <2> QED
    BY <1>1, <1>3
<1> HIDE DEF upto
<1>5. ASSUME NEW n \in 0 .. total
      PROVE  upto[n] = IF n = 0 THEN start ELSE Again(upto[n - 1])
  <2> HIDE DEF Again, start, total
  <2> QED
    BY <1>4
<1>6. 0 \in 0 .. total /\ \A n \in 1 .. total : n \in 0 .. total /\ n # 0
  BY <1>1
<1> HIDE DEF Again, start
<1>7. upto[0] = start /\ \A n \in 1 .. total : upto[n] = Again(upto[n - 1])
  BY <1>5, <1>6
<1> QED
  BY <1>2, <1>7 DEF Again, start

(* Who a pair shows to touch the objective depends on nobody's place.      *)
OtherSide(seen) == {TurnedTouch(team) : team \in seen}

LEMMA TouchersTurn ==
  ASSUME NEW a \in Body, NEW b \in Body
  PROVE  \A at : /\ Toucher(at, <<b, a>>) = Toucher(at, <<a, b>>)
                 /\ Toucher(Across(at), <<Counterpart(a), Counterpart(b)>>) = OtherSide(Toucher(at, <<a, b>>))
                 /\ Toucher(at, <<a, b>>) \subseteq Team
<1> DEFINE Held(c, d) == {c, d} \ {Objective}
           Sides(those) == {TeamOf[body] : body \in those}
           p == Counterpart(a)
           q == Counterpart(b)
<1>1. \A k, c, d : Toucher(k, <<c, d>>) = IF Objective \in {c, d} THEN Sides(Held(c, d)) ELSE {}
  BY DEF Toucher
<1>2. {b, a} = {a, b} /\ Sides(Held(b, a)) = Sides(Held(a, b))
  <2>1. Held(b, a) = Held(a, b)
    OBVIOUS
  <2> HIDE DEF Held
  <2> QED
    BY <2>1
<1>3. \A id \in Body \ {Objective} :
        TeamOf[id] \in Team /\ TeamOf[Counterpart(id)] = TurnedTouch(TeamOf[id])
  BY BodiesInOrder DEF Counterpart, TurnedTouch, Team
<1>4. /\ p \in Body /\ q \in Body
      /\ p = Objective <=> a = Objective
      /\ q = Objective <=> b = Objective
  BY CounterpartsExchange
<1>5. Objective \in {p, q} <=> Objective \in {a, b}
  BY <1>4
<1>6. Sides(Held(p, q)) = OtherSide(Sides(Held(a, b)))
  <2>1. ASSUME NEW team PROVE team \in Sides(Held(p, q)) <=>
               (a # Objective /\ team = TeamOf[p]) \/ (b # Objective /\ team = TeamOf[q])
    BY <1>4
  <2>2. ASSUME NEW team PROVE team \in OtherSide(Sides(Held(a, b))) <=>
               (a # Objective /\ team = TurnedTouch(TeamOf[a])) \/ (b # Objective /\ team = TurnedTouch(TeamOf[b]))
    BY DEF OtherSide
  <2>3. (a # Objective => TeamOf[p] = TurnedTouch(TeamOf[a])) /\ (b # Objective => TeamOf[q] = TurnedTouch(TeamOf[b]))
    BY <1>3
  <2> HIDE DEF p, q, Sides, Held
  <2> QED
    BY <2>1, <2>2, <2>3
<1>7. Sides(Held(a, b)) \subseteq Team
  BY <1>3
<1>8. OtherSide({}) = {}
  BY DEF OtherSide
<1> HIDE DEF Sides, Held, p, q
<1>9. \A at : Toucher(at, <<b, a>>) = Toucher(at, <<a, b>>)
  BY <1>1, <1>2
<1>10. \A at : Toucher(Across(at), <<p, q>>) = OtherSide(Toucher(at, <<a, b>>))
  BY <1>1, <1>5, <1>6, <1>8
<1>11. \A at : Toucher(at, <<a, b>>) \subseteq Team
  BY <1>1, <1>7
<1> QED
  BY <1>9, <1>10, <1>11 DEF p, q

(* Nobody in anybody; or one pair only, before it parts and after.         *)
Free(at) == \A c, d \in Body : c < d => ~Overlaps(at, <<c, d>>)

Sole(at, a, b) ==
  /\ Pressed(at, a, b)
  /\ \A c, d \in Body :
       /\ c < d
       /\ Overlaps(at, <<c, d>>) \/ Overlaps(Separated(at, <<a, b>>), <<c, d>>)
       => {c, d} = {a, b}

LEMMA SweptFree ==
  ASSUME NEW at, NEW seen, Free(at)
  PROVE  Swept(at, seen).bodies = at /\ Swept(at, seen).touched = seen
<1> DEFINE total == Len(Pairs)
           start == [bodies |-> at, touched |-> seen]
<1>1. total \in Nat /\ \A n \in 1 .. total : ~Overlaps(at, Pairs[n])
  <2>1. ASSUME NEW n \in 1 .. total PROVE ~Overlaps(at, Pairs[n])
    <3> DEFINE c == Pairs[n][1]
               d == Pairs[n][2]
    <3>1. c \in Body /\ d \in Body /\ c < d /\ Pairs[n] = <<c, d>>
      BY PairsAreTwo
    <3> HIDE DEF c, d
    <3> QED
      BY <3>1 DEF Free
  <2> QED
    BY <2>1, PairsAreTwo
<1>2. PICK f : /\ f[0] = start
               /\ \A n \in 1 .. total : f[n] = Parted(f[n - 1], Pairs[n])
               /\ Swept(at, seen) = f[total]
  BY SweepUnrolls
<1> DEFINE S == {n \in Nat : n <= total => f[n] = start}
<1>6. start.bodies = at /\ start.touched = seen
  OBVIOUS
<1> HIDE DEF total, start
<1>3. 0 \in S
  BY <1>2
<1>4. ASSUME NEW n \in Nat, n \in S PROVE n + 1 \in S
  <2> SUFFICES ASSUME n + 1 <= total PROVE f[n + 1] = start
    OBVIOUS
  <2>1. n + 1 \in 1 .. total /\ (n + 1) - 1 = n /\ n <= total
    BY <1>1
  <2>2. f[n] = start
    BY <1>4, <2>1
  <2>3. f[n + 1] = Parted(f[n], Pairs[n + 1]) /\ ~Overlaps(at, Pairs[n + 1])
    BY <1>1, <1>2, <2>1
  <2> QED
    BY <1>6, <2>2, <2>3 DEF Parted
<1>5. Nat \subseteq S
  <2> HIDE DEF S
  <2> QED
    BY <1>3, <1>4, SetInduction
<1> QED
  BY <1>1, <1>2, <1>5, <1>6

LEMMA SweptInOrder ==
  ASSUME NEW at, NEW seen, NEW a, NEW b, Sole(at, a, b), a < b
  PROVE  /\ Swept(at, seen).bodies = Separated(at, <<a, b>>)
         /\ Swept(at, seen).touched = seen \cup Toucher(at, <<a, b>>)
<1> DEFINE total == Len(Pairs)
           after == Separated(at, <<a, b>>)
           start == [bodies |-> at, touched |-> seen]
           end == [bodies |-> after, touched |-> seen \cup Toucher(at, <<a, b>>)]
<1>1. a \in Body /\ b \in Body /\ Overlaps(at, <<a, b>>)
  BY DEF Sole, Pressed
<1>2. total \in Nat
  BY PairsAreTwo
<1>3. PICK k \in 1 .. total : Pairs[k] = <<a, b>>
  BY <1>1, PairsAreTwo
<1>4. ASSUME NEW n \in 1 .. total, n # k
      PROVE  ~Overlaps(at, Pairs[n]) /\ ~Overlaps(after, Pairs[n])
  <2> DEFINE c == Pairs[n][1]
             d == Pairs[n][2]
  <2>1. c \in Body /\ d \in Body /\ c < d /\ Pairs[n] = <<c, d>>
    BY PairsAreTwo
  <2>2. Pairs[n] # Pairs[k]
    BY <1>4, PairsAreTwo
  <2> HIDE DEF c, d
  <2>3. {c, d} # {a, b}
    <3>1. a \in Int /\ b \in Int /\ c \in Int /\ d \in Int
      BY <1>1, <2>1, BodiesInOrder
    <3>2. c # a \/ d # b
      BY <1>3, <2>1, <2>2
    <3>3. ~(c = b /\ d = a)
      BY <2>1, <3>1
    <3>4. c # d
      BY <2>1, <3>1
    <3> QED
      BY <3>2, <3>3, <3>4
  <2> QED
    BY <2>1, <2>3 DEF Sole
<1>5. PICK f : /\ f[0] = start
               /\ \A n \in 1 .. total : f[n] = Parted(f[n - 1], Pairs[n])
               /\ Swept(at, seen) = f[total]
  BY SweepUnrolls
<1> DEFINE S == {n \in Nat : n <= total => f[n] = IF n < k THEN start ELSE end}
<1>10. /\ start.bodies = at /\ start.touched = seen
       /\ end.bodies = after /\ end.touched = seen \cup Toucher(at, <<a, b>>)
  OBVIOUS
<1>11. Parted(start, <<a, b>>) = end
  BY <1>1 DEF Parted
<1> HIDE DEF total, after, start, end
<1>6. 0 \in S
  <2>1. 0 < k
    BY <1>2
  <2> QED
    BY <1>5, <2>1
<1>7. ASSUME NEW n \in Nat, n \in S PROVE n + 1 \in S
  <2> SUFFICES ASSUME n + 1 <= total PROVE f[n + 1] = IF n + 1 < k THEN start ELSE end
    OBVIOUS
  <2>1. n + 1 \in 1 .. total /\ (n + 1) - 1 = n /\ n <= total /\ k \in Nat
    BY <1>2
  <2>2. f[n] = IF n < k THEN start ELSE end
    BY <1>7, <2>1
  <2>3. f[n + 1] = Parted(f[n], Pairs[n + 1])
    BY <1>5, <2>1
  <2>4. CASE n + 1 = k
    <3>1. n < k /\ ~(n + 1 < k)
      BY <2>1, <2>4
    <3>2. f[n] = start /\ Pairs[n + 1] = <<a, b>>
      BY <1>3, <2>2, <2>4, <3>1
    <3>3. f[n + 1] = end
      BY <1>11, <2>3, <3>2
    <3> QED
      BY <3>1, <3>3
  <2>5. CASE n + 1 # k
    <3>1. n < k <=> n + 1 < k
      BY <2>1, <2>5
    <3>2. ~Overlaps(f[n].bodies, Pairs[n + 1])
      BY <1>4, <1>10, <2>1, <2>2, <2>5
    <3>3. f[n + 1] = f[n]
      BY <2>3, <3>2 DEF Parted
    <3> QED
      BY <2>2, <3>1, <3>3
  <2> QED
    BY <2>4, <2>5
<1>8. Nat \subseteq S
  <2> HIDE DEF S
  <2> QED
    BY <1>6, <1>7, SetInduction
<1>9. ~(total < k) /\ total <= total
  BY <1>2
<1> QED
  BY <1>2, <1>5, <1>8, <1>9, <1>10 DEF after

LEMMA SweptSole ==
  ASSUME NEW at, Roomy(at), NEW seen, NEW a, NEW b, Sole(at, a, b)
  PROVE  /\ Swept(at, seen).bodies = Separated(at, <<a, b>>)
         /\ Swept(at, seen).touched = seen \cup Toucher(at, <<a, b>>)
<1>1. Pressed(at, a, b) /\ a \in Body /\ b \in Body /\ a # b
  BY DEF Sole, Pressed
<1>2. CASE a < b
  BY <1>2, SweptInOrder
<1>3. CASE ~(a < b)
  <2>1. b < a
    BY <1>1, <1>3, BodiesInOrder
  <2>2. Pressed(at, b, a)
    BY <1>1, GapsFit DEF Pressed, Overlaps
  <2>3. Separated(at, <<b, a>>) = Separated(at, <<a, b>>)
    BY <1>1, PairSwaps
  <2>4. {a, b} = {b, a}
    OBVIOUS
  <2>5. Sole(at, b, a)
    BY <2>2, <2>3, <2>4 DEF Sole
  <2>6. Toucher(at, <<b, a>>) = Toucher(at, <<a, b>>)
    BY <1>1, TouchersTurn
  <2> QED
    BY <2>1, <2>3, <2>5, <2>6, SweptInOrder
<1> QED
  BY <1>2, <1>3

(* A sweep without several pairs at once is one of the two.                *)
LEMMA OrderlySweeps ==
  ASSUME NEW at, Orderly(at)
  PROVE  Free(at) \/ \E a, b \in Body : Sole(at, a, b)
<1>1. DOMAIN Pairs = 1 .. Len(Pairs)
  BY PairsAreTwo
<1>2. ASSUME NEW c \in Body, NEW d \in Body, c < d
      PROVE  \E n \in DOMAIN Pairs : Pairs[n] = <<c, d>>
  BY <1>1, <1>2, PairsAreTwo
<1>3. CASE Overlapping(at) = {}
  <2>1. ASSUME NEW c \in Body, NEW d \in Body, c < d PROVE ~Overlaps(at, <<c, d>>)
    BY <1>2, <1>3, <2>1 DEF Overlapping
  <2> QED
    BY <2>1 DEF Free
<1>4. CASE Overlapping(at) # {}
  <2>1. PICK k \in Overlapping(at) : TRUE
    BY <1>4
  <2> DEFINE a == Pairs[k][1]
             b == Pairs[k][2]
  <2>2. k \in 1 .. Len(Pairs) /\ Overlaps(at, Pairs[k])
    BY <1>1, <2>1 DEF Overlapping
  <2>3. a \in Body /\ b \in Body /\ a # b /\ Pairs[k] = <<a, b>>
    BY <2>2, PairsAreTwo
  <2> HIDE DEF a, b
  <2>4. Pressed(at, a, b)
    <3>1. Gap(at, Pairs[k]) # 0
      BY <2>1 DEF Orderly
    <3> QED
      BY <2>2, <2>3, <3>1 DEF Pressed
  <2>5. ASSUME NEW n \in DOMAIN Pairs, Overlaps(at, Pairs[n]) \/ Overlaps(Separated(at, <<a, b>>), Pairs[n])
        PROVE  n = k
    <3>1. Overlapping(at) \subseteq Met(at) /\ Overlapping(Separated(at, Pairs[k])) \subseteq Met(at)
      BY <2>1 DEF Met
    <3>2. n \in Overlapping(at) \cup Overlapping(Separated(at, Pairs[k]))
      BY <2>3, <2>5 DEF Overlapping
    <3> QED
      BY <2>1, <3>1, <3>2 DEF Orderly
  <2>6. ASSUME NEW c \in Body, NEW d \in Body, c < d,
               Overlaps(at, <<c, d>>) \/ Overlaps(Separated(at, <<a, b>>), <<c, d>>)
        PROVE  {c, d} = {a, b}
    <3>1. PICK n \in DOMAIN Pairs : Pairs[n] = <<c, d>>
      BY <1>2, <2>6
    <3>2. n = k
      BY <2>5, <2>6, <3>1
    <3>3. <<c, d>> = <<a, b>>
      BY <2>3, <3>1, <3>2
    <3> QED
      BY <3>3
  <2>7. Sole(at, a, b)
    BY <2>4, <2>6 DEF Sole
  <2> QED
    BY <2>3, <2>7
<1> QED
  BY <1>3, <1>4

LEMMA FreeTurns ==
  ASSUME NEW at, Roomy(at), Free(at)
  PROVE  Free(Across(at))
<1>1. ASSUME NEW c \in Body, NEW d \in Body, c < d PROVE ~Overlaps(Across(at), <<c, d>>)
  <2> DEFINE a == Counterpart(c)
             b == Counterpart(d)
  <2>1. a \in Body /\ b \in Body /\ Counterpart(a) = c /\ Counterpart(b) = d
    BY CounterpartsExchange
  <2> HIDE DEF a, b
  <2>2. c # d /\ a # b
    BY <1>1, <2>1, BodiesInOrder
  <2>3. a < b \/ b < a
    BY <2>1, <2>2, BodiesInOrder
  <2>4. Gap(Across(at), <<c, d>>) = Gap(at, <<a, b>>) /\ Gap(at, <<a, b>>) = Gap(at, <<b, a>>)
    BY <2>1, GapsTurn, GapsFit
  <2>5. ~Overlaps(at, <<a, b>>)
    BY <2>1, <2>3, <2>4 DEF Free, Overlaps
  <2> QED
    BY <2>4, <2>5 DEF Overlaps
<1> QED
  BY <1>1 DEF Free

LEMMA SoleTurns ==
  ASSUME NEW at, Roomy(at), NEW a, NEW b, Sole(at, a, b), Roomy(Separated(at, <<a, b>>))
  PROVE  LET c == Counterpart(a)
             d == Counterpart(b)
         IN  /\ Sole(Across(at), c, d)
             /\ Separated(Across(at), <<c, d>>) = Across(Separated(at, <<a, b>>))
<1> DEFINE p == Counterpart(a)
           q == Counterpart(b)
           after == Separated(at, <<a, b>>)
<1>1. Pressed(at, a, b) /\ a \in Body /\ b \in Body /\ a # b
  BY DEF Sole, Pressed
<1>2. Pressed(Across(at), p, q) /\ Separated(Across(at), <<p, q>>) = Across(after)
  BY <1>1, PairTurns
<1>3. Counterpart(p) = a /\ Counterpart(q) = b /\ p \in Body /\ q \in Body
  BY <1>1, CounterpartsExchange
<1> HIDE DEF p, q, after
<1>4. ASSUME NEW c \in Body, NEW d \in Body, c < d,
             Overlaps(Across(at), <<c, d>>) \/ Overlaps(Across(after), <<c, d>>)
      PROVE  {c, d} = {p, q}
  <2> DEFINE e == Counterpart(c)
             f == Counterpart(d)
  <2>1. e \in Body /\ f \in Body /\ Counterpart(e) = c /\ Counterpart(f) = d
    BY CounterpartsExchange
  <2> HIDE DEF e, f
  <2>2. c # d /\ e # f
    BY <1>4, <2>1, BodiesInOrder
  <2>3. e < f \/ f < e
    BY <2>1, <2>2, BodiesInOrder
  <2>4. /\ Gap(Across(at), <<c, d>>) = Gap(at, <<e, f>>) /\ Gap(at, <<e, f>>) = Gap(at, <<f, e>>)
    BY <2>1, GapsTurn, GapsFit
  <2>5. /\ Gap(Across(after), <<c, d>>) = Gap(after, <<e, f>>) /\ Gap(after, <<e, f>>) = Gap(after, <<f, e>>)
    BY <2>1, GapsTurn, GapsFit DEF after
  <2>6. /\ Overlaps(at, <<e, f>>) \/ Overlaps(after, <<e, f>>)
        /\ Overlaps(at, <<f, e>>) \/ Overlaps(after, <<f, e>>)
    BY <1>4, <2>4, <2>5 DEF Overlaps
  <2>7. {e, f} = {a, b} \/ {f, e} = {a, b}
    BY <2>1, <2>3, <2>6 DEF Sole, after
  <2>8. (e = a /\ f = b) \/ (e = b /\ f = a)
    BY <1>1, <2>2, <2>7
  <2> QED
    BY <2>1, <2>8 DEF p, q
<1>5. Sole(Across(at), p, q)
  BY <1>2, <1>4 DEF Sole
<1> QED
  BY <1>2, <1>5 DEF p, q, after

(* So an orderly sweep turns, and so does who is seen to touch the         *)
(* objective in it.                                                        *)
LEMMA SweepTurns ==
  ASSUME NEW at, Roomy(at), Orderly(at), NEW seen, Roomy(Swept(at, seen).bodies)
  PROVE  /\ Swept(Across(at), OtherSide(seen)).bodies = Across(Swept(at, seen).bodies)
         /\ Swept(Across(at), OtherSide(seen)).touched = OtherSide(Swept(at, seen).touched)
<1>1. CASE Free(at)
  <2>1. Swept(at, seen).bodies = at /\ Swept(at, seen).touched = seen /\ Free(Across(at))
    BY <1>1, SweptFree, FreeTurns
  <2> QED
    BY <2>1, SweptFree
<1>2. ASSUME NEW a \in Body, NEW b \in Body, Sole(at, a, b)
      PROVE  /\ Swept(Across(at), OtherSide(seen)).bodies = Across(Swept(at, seen).bodies)
             /\ Swept(Across(at), OtherSide(seen)).touched = OtherSide(Swept(at, seen).touched)
  <2> DEFINE c == Counterpart(a)
             d == Counterpart(b)
  <2>1. /\ Swept(at, seen).bodies = Separated(at, <<a, b>>)
        /\ Swept(at, seen).touched = seen \cup Toucher(at, <<a, b>>)
    BY <1>2, SweptSole
  <2>2. Sole(Across(at), c, d) /\ Separated(Across(at), <<c, d>>) = Across(Separated(at, <<a, b>>))
    BY <1>2, <2>1, SoleTurns
  <2>3. Roomy(Across(at))
    BY AcrossIsRoomy
  <2>4. Toucher(Across(at), <<c, d>>) = OtherSide(Toucher(at, <<a, b>>))
    BY TouchersTurn
  <2> HIDE DEF c, d
  <2>5. /\ Swept(Across(at), OtherSide(seen)).bodies = Separated(Across(at), <<c, d>>)
        /\ Swept(Across(at), OtherSide(seen)).touched = OtherSide(seen) \cup Toucher(Across(at), <<c, d>>)
    BY <2>2, <2>3, SweptSole
  <2>6. \A one, two : OtherSide(one \cup two) = OtherSide(one) \cup OtherSide(two)
    BY DEF OtherSide
  <2> QED
    BY <2>1, <2>2, <2>4, <2>5, <2>6
<1> QED
  BY <1>1, <1>2, OrderlySweeps

LEMMA SweepsTurn ==
  ASSUME NEW at, NEW seen, Untangled(Sweeps(at, seen))
  PROVE  \A n \in 0 .. Config.sweeps :
           /\ Sweeps(Across(at), OtherSide(seen))[n].bodies = Across(Sweeps(at, seen)[n].bodies)
           /\ Sweeps(Across(at), OtherSide(seen))[n].touched = OtherSide(Sweeps(at, seen)[n].touched)
<1> DEFINE f == Sweeps(at, seen)
           g == Sweeps(Across(at), OtherSide(seen))
           total == Config.sweeps
           Turns(n) == g[n].bodies = Across(f[n].bodies) /\ g[n].touched = OtherSide(f[n].touched)
           S == {n \in Nat : n <= total => Turns(n)}
<1>1. total \in Nat
  BY SharesAreShares
<1>2. /\ f[0].bodies = at /\ g[0].bodies = Across(at)
      /\ f[0].touched = seen /\ g[0].touched = OtherSide(seen)
      /\ \A n \in 1 .. total : f[n] = Swept(f[n - 1].bodies, f[n - 1].touched)
      /\ \A n \in 1 .. total : g[n] = Swept(g[n - 1].bodies, g[n - 1].touched)
  <2>1. /\ f[0] = [bodies |-> at, touched |-> seen]
        /\ \A n \in 1 .. total : f[n] = Swept(f[n - 1].bodies, f[n - 1].touched)
    BY SweepsUnroll
  <2>2. /\ g[0] = [bodies |-> Across(at), touched |-> OtherSide(seen)]
        /\ \A n \in 1 .. total : g[n] = Swept(g[n - 1].bodies, g[n - 1].touched)
    BY SweepsUnroll
  <2> HIDE DEF f, g, total
  <2> QED
    BY <2>1, <2>2
<1>3. \A n \in 0 .. total : Roomy(f[n].bodies) /\ (n < total => Orderly(f[n].bodies))
  BY DEF Untangled
<1> HIDE DEF f, g, total
<1>4. 0 \in S
  BY <1>2
<1>5. ASSUME NEW n \in Nat, n \in S PROVE n + 1 \in S
  <2> SUFFICES ASSUME n + 1 <= total PROVE Turns(n + 1)
    OBVIOUS
  <2>1. /\ n + 1 \in 1 .. total /\ n + 1 \in 0 .. total /\ n \in 0 .. total /\ (n + 1) - 1 = n
        /\ n <= total /\ n < total
    BY <1>1
  <2>2. g[n].bodies = Across(f[n].bodies) /\ g[n].touched = OtherSide(f[n].touched)
    BY <1>5, <2>1
  <2>3. f[n + 1] = Swept(f[n].bodies, f[n].touched) /\ g[n + 1] = Swept(g[n].bodies, g[n].touched)
    BY <1>2, <2>1
  <2>4. Roomy(f[n].bodies) /\ Orderly(f[n].bodies) /\ Roomy(f[n + 1].bodies)
    BY <1>3, <2>1
  <2> QED
    BY <2>2, <2>3, <2>4, SweepTurns
<1>6. Nat \subseteq S
  <2> HIDE DEF S
  <2> QED
    BY <1>4, <1>5, SetInduction
<1>7. \A n \in 0 .. total : n \in Nat /\ n <= total
  BY <1>1
<1> QED
  BY <1>6, <1>7 DEF f, g, total

-----------------------------------------------------------------------------

(* The arena is the same from the other side.                              *)
LEMMA WallsTurn ==
  ASSUME NEW id \in Body, NEW p, InCube(p, Room)
  PROVE  LET other == Counterpart(id)
             q == Turned(p)
         IN  /\ GoalOf(other, q) # NoTeam <=> GoalOf(id, p) # NoTeam
             /\ IsVector(Corrected(id, p)) /\ Corrected(other, q) = Turned(Corrected(id, p))
             /\ Corrected(other, q) # q <=> Corrected(id, p) # p
             /\ Faces(WallNormal(other, q), WallNormal(id, p), One)
<1> DEFINE other == Counterpart(id)
           q == Turned(p)
           long == Arena.halfLength
           wide == Arena.halfWidth
           high == Arena.height
           a == p.x
           b == p.y
           c == p.z
<1>1. /\ Room \in Nat /\ One \in Nat /\ Radius \in Nat /\ long \in Nat /\ wide \in Nat /\ high \in Nat
      /\ Radius <= long /\ Radius <= wide /\ 2 * Radius <= high
      /\ Arena.goalHalfWidth \in Nat /\ Arena.goalHeight \in Nat
  BY RoomFacts, ArenaIsRoomy
<1>2. p = Vec(a, b, c) /\ a \in Int /\ b \in Int /\ c \in Int /\ IsVector(p)
  BY <1>1, CubesHoldVectors DEF InCube
<1>3. q = Vec(-a, -b, c) /\ q.x = -a /\ q.y = -b /\ q.z = c
  <2>1. q = Vec(-a, -b, c)
    BY <1>2, TurnedChangesSigns
  <2> QED
    BY <2>1 DEF Vec
<1>4. other = Objective <=> id = Objective
  BY CounterpartsExchange
<1> HIDE DEF q, other, a, b, c, long, wide, high
<1>5. AbsOf(-b) = AbsOf(b)
  BY <1>2 DEF AbsOf
<1>6. InGoalMouth(other, q) <=> InGoalMouth(id, p)
  BY <1>3, <1>4, <1>5 DEF InGoalMouth, b, c
<1>7. ScoringTeam(-a) # NoTeam <=> ScoringTeam(a) # NoTeam
  BY <1>1, <1>2 DEF ScoringTeam, NoTeam, long
<1>8. GoalOf(other, q) # NoTeam <=> GoalOf(id, p) # NoTeam
  BY <1>3, <1>6, <1>7 DEF GoalOf, a
<1>9. ASSUME NEW v \in Int, NEW wall \in Nat, Radius <= wall
      PROVE  Within(v, -wall, wall) \in Int /\ Within(-v, -wall, wall) = -Within(v, -wall, wall)
  BY <1>1, <1>9 DEF Within, ClampTo
<1> DEFINE x == IF InGoalMouth(id, p) THEN a ELSE Within(a, -long, long)
           y == Within(b, -wide, wide)
           z == Within(c, 0, high)
<1>10. x \in Int /\ y \in Int /\ z \in Int
  <2>1. z \in Int
    BY <1>1, <1>2 DEF Within, ClampTo
  <2> QED
    BY <1>1, <1>2, <1>9, <2>1
<1>11. Corrected(id, p) = Vec(x, y, z)
  BY DEF Corrected, a, b, c, long, wide, high
<1>12. Corrected(other, q) = Vec(-x, -y, z)
  <2>1. Corrected(other, q) = Vec(IF InGoalMouth(id, p) THEN -a ELSE Within(-a, -long, long),
                                  Within(-b, -wide, wide), Within(c, 0, high))
    BY <1>3, <1>6 DEF Corrected, long, wide, high
  <2>2. Within(-a, -long, long) = -Within(a, -long, long) /\ Within(-b, -wide, wide) = -Within(b, -wide, wide)
    BY <1>1, <1>2, <1>9
  <2> QED
    BY <2>1, <2>2
<1> HIDE DEF x, y, z
<1>13. IsVector(Vec(x, y, z)) /\ Turned(Vec(x, y, z)) = Vec(-x, -y, z)
  <2>1. IsVector(Vec(x, y, z))
    BY <1>10 DEF IsVector, Vec
  <2>2. Vec(x, y, z).x = x /\ Vec(x, y, z).y = y /\ Vec(x, y, z).z = z
    BY DEF Vec
  <2> QED
    BY <2>1, <2>2, TurnedChangesSigns
<1>14. Corrected(other, q) # q <=> Corrected(id, p) # p
  <2>1. Corrected(id, p) = p => Corrected(other, q) = q
    BY <1>11, <1>12, <1>13 DEF q
  <2>2. ASSUME Corrected(other, q) = q PROVE Corrected(id, p) = p
    <3>1. Turned(Turned(Vec(x, y, z))) = Turned(Turned(p))
      BY <1>12, <1>13, <2>2 DEF q
    <3> QED
      BY <1>2, <1>11, <1>13, <3>1, TurnedTwice
  <2> QED
    BY <2>1, <2>2
<1> DEFINE push == Vec(One * SignOf(x - a), One * SignOf(y - b), One * SignOf(z - c))
<1>15. /\ WallNormal(id, p) = Normalized(push)
       /\ WallNormal(other, q) =
            Normalized(Vec(One * SignOf((-x) - (-a)), One * SignOf((-y) - (-b)), One * SignOf(z - c)))
  <2>1. Vec(x, y, z)["x"] = x /\ Vec(x, y, z)["y"] = y /\ Vec(x, y, z)["z"] = z
    BY DEF Vec
  <2>2. Vec(-x, -y, z)["x"] = -x /\ Vec(-x, -y, z)["y"] = -y /\ Vec(-x, -y, z)["z"] = z
    BY DEF Vec
  <2>3. WallNormal(id, p) = Normalized(push)
    BY <1>11, <2>1 DEF WallNormal, a, b, c
  <2>4. WallNormal(other, q) =
            Normalized(Vec(One * SignOf((-x) - (-a)), One * SignOf((-y) - (-b)), One * SignOf(z - c)))
    BY <1>3, <1>12, <2>2 DEF WallNormal
  <2> QED
    BY <2>3, <2>4
<1>16. ASSUME NEW i \in Int, NEW j \in Int
       PROVE  One * SignOf(i - j) \in Int /\ One * SignOf((-i) - (-j)) = -(One * SignOf(i - j))
  BY <1>1 DEF SignOf
<1>17. IsVector(push) /\ Turned(push) =
         Vec(One * SignOf((-x) - (-a)), One * SignOf((-y) - (-b)), One * SignOf(z - c))
  <2> DEFINE k == One * SignOf(x - a)
             l == One * SignOf(y - b)
             m == One * SignOf(z - c)
  <2>1. /\ k \in Int /\ l \in Int /\ m \in Int
        /\ One * SignOf((-x) - (-a)) = -k /\ One * SignOf((-y) - (-b)) = -l
    BY <1>2, <1>10, <1>16
  <2> HIDE DEF k, l, m
  <2>2. IsVector(Vec(k, l, m))
    BY <2>1 DEF IsVector, Vec
  <2>3. Vec(k, l, m).x = k /\ Vec(k, l, m).y = l /\ Vec(k, l, m).z = m
    BY DEF Vec
  <2>4. Turned(Vec(k, l, m)) = Vec(-k, -l, m)
    BY <2>2, <2>3, TurnedChangesSigns
  <2> QED
    BY <2>1, <2>2, <2>4 DEF k, l, m
<1> HIDE DEF push
<1>18. Faces(WallNormal(other, q), WallNormal(id, p), One)
  BY <1>15, <1>17, DirectionsFace
<1> QED
  BY <1>8, <1>11, <1>12, <1>13, <1>14, <1>18 DEF other, q

LEMMA ReboundsFace ==
  ASSUME NEW velocity, NEW turning, Faces(turning, velocity, Room),
         NEW normal, NEW facing, Faces(facing, normal, One)
  PROVE  Rebounded(turning, facing) = Turned(Rebounded(velocity, normal))
<1> DEFINE outward == Dot(velocity, normal)
           gain == One + Config.restitution
           out == Scaled(normal, outward)
           outing == Scaled(facing, outward)
           back == Scaled(out, gain)
           backing == Scaled(outing, gain)
           kept == IF outward < 0 THEN Minus(velocity, back) ELSE velocity
           keeping == IF outward < 0 THEN Minus(turning, backing) ELSE turning
           depth == Dot(kept, normal)
           along == Scaled(normal, depth)
           aligned == Scaled(facing, depth)
           side == Scaled(Minus(kept, along), Config.retention)
           aside == Scaled(Minus(keeping, aligned), Config.retention)
           three == 3 * Room
           six == 6 * Room
           seven == 7 * Room
           most == 21 * Room
           more == 28 * Room
           all == 49 * Room
<1>1. /\ One \in Nat \ {0} /\ Room \in Nat /\ WordLimit \in Nat /\ gain \in -(2 * One) .. 2 * One
      /\ 2 * One \in Nat
      /\ three \in Nat /\ six \in Nat /\ seven \in Nat /\ most \in Nat /\ more \in Nat /\ all \in Nat
      /\ most = 3 * seven /\ seven + most = more /\ most + more = all /\ Room + six = seven
      /\ seven < WordLimit /\ more < WordLimit /\ all < WordLimit /\ Room <= seven
      /\ three * (2 * One) = six * One
  BY RoomFacts, SharesAreShares
<1>2. /\ IsVector(velocity) /\ InCube(velocity, Room) /\ turning = Turned(velocity)
      /\ IsVector(normal) /\ InCube(normal, One) /\ facing = Turned(normal)
  BY <1>1, FacesAreVectors
<1>3. outward \in -three .. three /\ Dot(turning, facing) = outward
  BY <1>1, <1>2, DotsWithin, DotsTurn
<1> HIDE DEF three, six, seven, most, more, all, gain, outward
<1>4. Faces(outing, out, three)
  BY <1>1, <1>3, UnitsFace
<1> HIDE DEF out, outing
<1>5. Faces(backing, back, six)
  <2>1. InCube(out, three) /\ IsVector(out) /\ outing = Turned(out)
    BY <1>1, <1>4, FacesAreVectors
  <2>2. ASSUME NEW v \in -three .. three PROVE QMul(v, gain) \in -six .. six
    <3>1. v * gain \in Int /\ AbsOf(v * gain) <= three * (2 * One)
      BY <1>1, ProductsWithin
    <3>2. AbsOf(v * gain) <= six * One
      BY <1>1, <3>1
    <3> QED
      BY <1>1, <3>1, <3>2, TruncatedWithin DEF QMul
  <2>3. InCube(back, six)
    BY <2>1, <2>2 DEF InCube, Scaled, Vec
  <2>4. backing = Turned(back)
    BY <1>1, <2>1, ScaledTurns
  <2> QED
    BY <2>3, <2>4 DEF Faces
<1> HIDE DEF back, backing
<1>6. Faces(keeping, kept, seven)
  <2>1. Faces(Minus(turning, backing), Minus(velocity, back), seven)
    BY <1>1, <1>5, SumsFace
  <2>2. Faces(turning, velocity, seven)
    BY <1>1, FacesAreVectors
  <2> QED
    BY <2>1, <2>2
<1>7. Rebounded(velocity, normal) = Plus(along, side)
  BY DEF Rebounded, outward, back, out, gain
<1>8. Rebounded(turning, facing) =
        Plus(Scaled(facing, Dot(keeping, facing)),
             Scaled(Minus(keeping, Scaled(facing, Dot(keeping, facing))), Config.retention))
  BY <1>3 DEF Rebounded, backing, outing, gain
<1> HIDE DEF kept, keeping
<1>9. IsVector(kept) /\ InCube(kept, seven) /\ keeping = Turned(kept)
  BY <1>1, <1>6, FacesAreVectors
<1>10. depth \in -most .. most /\ Dot(keeping, facing) = depth
  BY <1>1, <1>2, <1>9, DotsWithin, DotsTurn
<1>11. Rebounded(turning, facing) = Plus(aligned, aside)
  <2> HIDE DEF depth
  <2> QED
    BY <1>8, <1>10
<1> HIDE DEF depth
<1>12. Faces(aligned, along, most)
  BY <1>1, <1>10, UnitsFace
<1> HIDE DEF along, aligned
<1>13. Faces(Minus(keeping, aligned), Minus(kept, along), more)
  BY <1>1, <1>6, <1>12, SumsFace
<1> DEFINE rest == Minus(kept, along)
           resting == Minus(keeping, aligned)
<1> HIDE DEF rest, resting
<1>14. Faces(aside, side, more)
  BY <1>1, <1>13, SharesAreShares, SharesFace
<1> HIDE DEF side, aside
<1>15. Faces(Plus(aligned, aside), Plus(along, side), all)
  BY <1>1, <1>12, <1>14, SumsFace
<1> QED
  BY <1>7, <1>11, <1>15 DEF Faces

LEMMA TurnedContacts ==
  ASSUME NEW touching, NEW normal
  PROVE  TurnedContact([touching |-> touching, normal |-> normal]) =
           [touching |-> touching, normal |-> Turned(normal)]
<1> DEFINE contact == [touching |-> touching, normal |-> normal]
           image == Turned(normal)
<1>1. contact.normal = normal
  OBVIOUS
<1>2. TurnedContact(contact) = [contact EXCEPT !.normal = image]
  <2>1. TurnedContact(contact) = [contact EXCEPT !.normal = Turned(contact.normal)]
    BY DEF TurnedContact
  <2> HIDE DEF contact
  <2> QED
    BY <1>1, <2>1
<1> HIDE DEF image
<1>3. [contact EXCEPT !.normal = image] = [touching |-> touching, normal |-> image]
  OBVIOUS
<1> QED
  BY <1>2, <1>3 DEF image

LEMMA ArenaTurns ==
  ASSUME NEW id \in Body, NEW body, IsBody(body), NEW contact, IsContact(contact), NEW charge
  PROVE  LET other == Counterpart(id)
             image == TurnedBody(body)
         IN  /\ ArenaResolved(other, image) = TurnedBody(ArenaResolved(id, body))
             /\ ArenaContact(other, image, TurnedContact(contact)) =
                  TurnedContact(ArenaContact(id, body, contact))
             /\ Recharged(other, image, charge) = Recharged(id, body, charge)
<1> DEFINE other == Counterpart(id)
           image == TurnedBody(body)
           p == body.position
           v == body.velocity
           s == body.spin
           corrected == Corrected(id, p)
           normal == WallNormal(id, p)
           rebound == Rebounded(v, normal)
<1>1. One \in Nat /\ Room \in Nat /\ Radius \in Nat
  BY RoomFacts
<1>2. /\ body = [position |-> p, velocity |-> v, spin |-> s]
      /\ InCube(p, Room) /\ InCube(v, Room)
  BY DEF IsBody
<1>3. /\ image = [position |-> Turned(p), velocity |-> Turned(v), spin |-> Turned(s)]
      /\ image.position = Turned(p) /\ image.velocity = Turned(v) /\ image.spin = Turned(s)
  BY DEF TurnedBody
<1> HIDE DEF image, other
<1>4. /\ Scores(other, image) <=> Scores(id, body)
      /\ HitsWall(other, image) <=> HitsWall(id, body)
      /\ Corrected(other, Turned(p)) = Turned(corrected)
      /\ Faces(WallNormal(other, Turned(p)), normal, One)
  BY <1>2, <1>3, WallsTurn DEF Scores, HitsWall, other
<1>5. WallNormal(other, Turned(p)) = Turned(normal)
  BY <1>4 DEF Faces
<1>6. Rebounded(Turned(v), Turned(normal)) = Turned(rebound)
  <2>1. Faces(Turned(v), v, Room) /\ Faces(Turned(normal), normal, One)
    BY <1>2, <1>4, <1>5 DEF Faces
  <2> HIDE DEF v, normal
  <2> QED
    BY <2>1, ReboundsFace
<1> HIDE DEF p, v, s, corrected, normal, rebound
<1>7. AgainstWalls(id, body) = [position |-> corrected, velocity |-> rebound, spin |-> s]
  <2>1. AgainstWalls(id, body) =
          [body EXCEPT !.position = corrected, !.velocity = rebound]
    BY DEF AgainstWalls, corrected, rebound, normal, p, v
  <2> QED
    BY <1>2, <2>1, RecordsChange
<1>8. AgainstWalls(other, image) =
        [position |-> Turned(corrected), velocity |-> Turned(rebound), spin |-> Turned(s)]
  <2>1. AgainstWalls(other, image) =
          [image EXCEPT !.position = Corrected(other, image.position),
                        !.velocity = Rebounded(image.velocity, WallNormal(other, image.position))]
    BY DEF AgainstWalls
  <2>2. AgainstWalls(other, image) =
          [image EXCEPT !.position = Turned(corrected), !.velocity = Turned(rebound)]
    BY <1>3, <1>4, <1>5, <1>6, <2>1
  <2> QED
    BY <1>3, <2>2, RecordsChange
<1>9. AgainstWalls(other, image) = TurnedBody(AgainstWalls(id, body))
  BY <1>7, <1>8, TurnedBodies
<1>10. TurnedBody(Recentred) = Recentred
  <2>1. Turned(Vec(0, 0, Radius)) = Vec(0, 0, Radius) /\ Turned(Zero) = Zero
    BY <1>1, VerticalStays, ZeroStays
  <2> QED
    BY <2>1 DEF Recentred, TurnedBody
<1>11. ArenaResolved(other, image) = TurnedBody(ArenaResolved(id, body))
  BY <1>4, <1>9, <1>10 DEF ArenaResolved, image
<1>12. TurnedContact(DefaultContact) = DefaultContact
  <2>1. Turned(UnitZ) = UnitZ
    BY <1>1, VerticalStays DEF UnitZ
  <2> QED
    BY <2>1, TurnedContacts DEF DefaultContact
<1>13. TurnedContact([touching |-> TRUE, normal |-> normal]) = [touching |-> TRUE, normal |-> Turned(normal)]
  BY TurnedContacts
<1>14. ArenaContact(other, image, TurnedContact(contact)) = TurnedContact(ArenaContact(id, body, contact))
  <2>1. ArenaContact(id, body, contact) =
          IF Scores(id, body) THEN DefaultContact
          ELSE IF HitsWall(id, body) THEN [touching |-> TRUE, normal |-> normal] ELSE contact
    BY DEF ArenaContact, normal, p
  <2>2. ArenaContact(other, image, TurnedContact(contact)) =
          IF Scores(id, body) THEN DefaultContact
          ELSE IF HitsWall(id, body) THEN [touching |-> TRUE, normal |-> Turned(normal)]
          ELSE TurnedContact(contact)
    BY <1>3, <1>4, <1>5 DEF ArenaContact
  <2> QED
    BY <1>12, <1>13, <2>1, <2>2
<1>15. Recharged(other, image, charge) = Recharged(id, body, charge)
  BY <1>4 DEF Recharged
<1> QED
  BY <1>11, <1>14, <1>15 DEF other, image

-----------------------------------------------------------------------------

(* What a substep is given: bodies with room, contacts with a direction,   *)
(* and orders of the settings' size.                                       *)
Given(world, wanted, given) ==
  /\ Roomy(world.bodies)
  /\ \A id \in Body :
       /\ IsContact(world.contacts[id])
       /\ InCube(wanted[id].position, Room) /\ InCube(wanted[id].spin, Room)
       /\ IsCommand(given[id])

Steered(world, wanted) ==
  \A id \in Body \ {Objective} :
    Normalized(Cross(world.contacts[id].normal,
                     Forward(world.bodies[id], world.contacts[id].normal, TeamOf[id], wanted[id]))) # Zero

LEMMA WorldsTurn ==
  ASSUME NEW world
  PROVE  /\ TurnedWorld(world).bodies = Across(world.bodies)
         /\ \A id \in Body :
              /\ TurnedWorld(world).contacts[id] = TurnedContact(world.contacts[Counterpart(id)])
              /\ TurnedWorld(world).charges[id] = world.charges[Counterpart(id)]
<1> DEFINE b == [id \in Body |-> TurnedBody(world.bodies[Counterpart(id)])]
           k == [id \in Body |-> TurnedContact(world.contacts[Counterpart(id)])]
           h == [id \in Body |-> world.charges[Counterpart(id)]]
<1>1. TurnedWorld(world) = [bodies |-> b, contacts |-> k, charges |-> h]
  BY DEF TurnedWorld, TurnedContact
<1>2. b = Across(world.bodies)
  BY DEF Across
<1>3. \A id \in Body : k[id] = TurnedContact(world.contacts[Counterpart(id)]) /\ h[id] = world.charges[Counterpart(id)]
  OBVIOUS
<1> HIDE DEF b, k, h
<1>4. TurnedWorld(world).bodies = b /\ TurnedWorld(world).contacts = k /\ TurnedWorld(world).charges = h
  BY <1>1
<1> QED
  BY <1>2, <1>3, <1>4

LEMMA OrdersTurn ==
  ASSUME NEW wanted, NEW given, NEW id \in Body
  PROVE  /\ TurnedIntents(wanted)[id].position = Turned(wanted[Counterpart(id)].position)
         /\ TurnedIntents(wanted)[id].spin = Turned(wanted[Counterpart(id)].spin)
         /\ TurnedCommands(given)[id] = given[Counterpart(id)]
BY DEF TurnedIntents, TurnedCommands

LEMMA DrivenTurns ==
  ASSUME NEW world, NEW wanted, NEW given, Given(world, wanted, given), Steered(world, wanted),
         Roomy(Driven(world, wanted, given))
  PROVE  Driven(TurnedWorld(world), TurnedIntents(wanted), TurnedCommands(given)) =
           Across(Driven(world, wanted, given))
<1> DEFINE driven == Driven(world, wanted, given)
           image == TurnedWorld(world)
           wishes == TurnedIntents(wanted)
           orders == TurnedCommands(given)
           driving == Driven(image, wishes, orders)
           Pushed(id) == IF id = Objective THEN world.bodies[id]
                         ELSE Actuated(world.bodies[id], world.contacts[id], world.charges[id], TeamOf[id],
                                       wanted[id], given[id])
           Pushing(id) == IF id = Objective THEN image.bodies[id]
                          ELSE Actuated(image.bodies[id], image.contacts[id], image.charges[id], TeamOf[id],
                                        wishes[id], orders[id])
<1>1. driven = [id \in Body |-> Integrated(Pushed(id))]
  BY DEF Driven
<1>2. driving = [id \in Body |-> Integrated(Pushing(id))]
  BY DEF Driven
<1>3. \A id \in Body : IsBody(driven[id]) /\ IsBody(world.bodies[id])
  BY RoomyBodies DEF Given
<1>4. /\ image.bodies = Across(world.bodies)
      /\ \A id \in Body : /\ image.contacts[id] = TurnedContact(world.contacts[Counterpart(id)])
                          /\ image.charges[id] = world.charges[Counterpart(id)]
                          /\ wishes[id].position = Turned(wanted[Counterpart(id)].position)
                          /\ wishes[id].spin = Turned(wanted[Counterpart(id)].spin)
                          /\ orders[id] = given[Counterpart(id)]
  <2>1. /\ image.bodies = Across(world.bodies)
        /\ \A id \in Body : /\ image.contacts[id] = TurnedContact(world.contacts[Counterpart(id)])
                            /\ image.charges[id] = world.charges[Counterpart(id)]
    BY WorldsTurn
  <2>2. ASSUME NEW id \in Body
        PROVE  /\ wishes[id].position = Turned(wanted[Counterpart(id)].position)
               /\ wishes[id].spin = Turned(wanted[Counterpart(id)].spin)
               /\ orders[id] = given[Counterpart(id)]
    BY OrdersTurn
  <2> HIDE DEF image, wishes, orders
  <2> QED
    BY <2>1, <2>2
<1> HIDE DEF driven, driving, image, wishes, orders
<1>5. ASSUME NEW id \in Body
      PROVE  Integrated(Pushing(id)) = TurnedBody(driven[Counterpart(id)])
  <2> DEFINE c == Counterpart(id)
             body == world.bodies[c]
  <2>1. c \in Body /\ Counterpart(c) = id /\ (c = Objective <=> id = Objective)
    BY CounterpartsExchange
  <2>2. image.bodies[id] = TurnedBody(body)
    BY <1>4, AcrossIsRoomy DEF Given
  <2>3. IsMoving(Pushed(c)) /\ Pushing(id) = TurnedBody(Pushed(c))
    <3>1. CASE id = Objective
      <4>1. IsMoving(body)
        BY <1>3, <2>1, BodiesMove
      <4>2. Pushed(c) = body /\ Pushing(id) = image.bodies[id]
        BY <2>1, <3>1
      <4> QED
        BY <2>2, <4>1, <4>2
    <3>2. CASE id # Objective
      <4> DEFINE contact == world.contacts[c]
                 charge == world.charges[c]
                 intent == wanted[c]
                 wish == wishes[id]
                 command == given[c]
                 team == TeamOf[c]
                 rival == TeamOf[id]
      <4>1. IsBody(body) /\ IsContact(contact) /\ IsCommand(command)
        BY <1>3, <2>1 DEF Given
      <4>2. Faces(wish.position, intent.position, Room) /\ Faces(wish.spin, intent.spin, Room)
        BY <1>4, <2>1 DEF Given, Faces
      <4>3. Faces(AttackAxis(rival), AttackAxis(team), One)
        BY <2>1, <3>2, CounterpartsExchange
      <4>4. Normalized(Cross(contact.normal, Forward(body, contact.normal, team, intent))) # Zero
        BY <2>1, <3>2 DEF Steered
      <4>5. Pushed(c) = Actuated(body, contact, charge, team, intent, command)
        BY <2>1, <3>2
      <4>6. Pushing(id) = Actuated(TurnedBody(body), TurnedContact(contact), charge, rival, wish, command)
        BY <1>4, <2>2, <3>2
      <4> HIDE DEF body, contact, charge, intent, wish, command, team, rival, Pushed, Pushing
      <4>7. /\ IsMoving(Actuated(body, contact, charge, team, intent, command))
            /\ Actuated(TurnedBody(body), TurnedContact(contact), charge, rival, wish, command)
                 = TurnedBody(Actuated(body, contact, charge, team, intent, command))
        BY <4>1, <4>2, <4>3, <4>4, ActuatedFaces
      <4> QED
        BY <4>5, <4>6, <4>7
    <3> QED
      BY <3>1, <3>2
  <2>4. driven[c] = Integrated(Pushed(c))
    BY <1>1, <2>1
  <2>5. InCube(driven[c].velocity, Room)
    BY <1>3, <2>1 DEF IsBody
  <2> HIDE DEF c, Pushed, Pushing
  <2>6. Integrated(TurnedBody(Pushed(c))) = TurnedBody(Integrated(Pushed(c)))
    BY <2>3, <2>4, <2>5, IntegratedFaces
  <2> QED
    BY <2>3, <2>4, <2>6 DEF c
<1> HIDE DEF Pushing, Pushed
<1>6. driving = [id \in Body |-> TurnedBody(driven[Counterpart(id)])]
  BY <1>2, <1>5
<1> QED
  BY <1>6 DEF Across, driven, driving, image, wishes, orders

LEMMA ContactsSpend ==
  ASSUME NEW contact, IsContact(contact), NEW charge, NEW command
  PROVE  /\ IsContact(Released(contact))
         /\ Released(TurnedContact(contact)) = TurnedContact(Released(contact))
         /\ IsContact(ContactSpent(contact, charge, command))
         /\ ContactSpent(TurnedContact(contact), charge, command) =
              TurnedContact(ContactSpent(contact, charge, command))
         /\ ChargeSpent(TurnedContact(contact), charge, command) = ChargeSpent(contact, charge, command)
<1> DEFINE t == contact.touching
           n == contact.normal
           acts == t /\ charge.surface /\ (command.jump \/ command.boost)
<1>1. contact = [touching |-> t, normal |-> n] /\ InCube(n, One)
  BY DEF IsContact
<1>2. TurnedContact(contact) = [touching |-> t, normal |-> Turned(n)]
  BY ContactsFace
<1>3. /\ Released(contact) = [touching |-> FALSE, normal |-> n]
      /\ ContactSpent(contact, charge, command) = [touching |-> t /\ ~acts, normal |-> n]
  BY DEF Released, ContactSpent, SurfaceActs
<1>4. TurnedContact(contact).touching = t /\ TurnedContact(contact).normal = Turned(n)
  BY <1>2
<1>5. SurfaceActs(TurnedContact(contact), charge, command) = acts
      /\ SurfaceActs(contact, charge, command) = acts
  BY <1>4 DEF SurfaceActs
<1>6. /\ Released(TurnedContact(contact)) = [touching |-> FALSE, normal |-> Turned(n)]
      /\ ContactSpent(TurnedContact(contact), charge, command) = [touching |-> t /\ ~acts, normal |-> Turned(n)]
      /\ ChargeSpent(TurnedContact(contact), charge, command) = ChargeSpent(contact, charge, command)
  BY <1>4, <1>5 DEF Released, ContactSpent, ChargeSpent
<1> DEFINE left == t /\ ~acts
<1> HIDE DEF t, n, left, acts
<1>7. ASSUME NEW k PROVE IsContact([touching |-> k, normal |-> n])
  BY <1>1 DEF IsContact
<1>8. ASSUME NEW k PROVE TurnedContact([touching |-> k, normal |-> n]) = [touching |-> k, normal |-> Turned(n)]
  BY TurnedContacts
<1>9. IsContact(Released(contact)) /\ Released(TurnedContact(contact)) = TurnedContact(Released(contact))
  BY <1>3, <1>6, <1>7, <1>8
<1>10. /\ IsContact(ContactSpent(contact, charge, command))
       /\ ContactSpent(TurnedContact(contact), charge, command) =
            TurnedContact(ContactSpent(contact, charge, command))
  <2>1. /\ ContactSpent(contact, charge, command) = [touching |-> left, normal |-> n]
        /\ ContactSpent(TurnedContact(contact), charge, command) = [touching |-> left, normal |-> Turned(n)]
    BY <1>3, <1>6 DEF left
  <2> QED
    BY <1>7, <1>8, <2>1
<1> QED
  BY <1>6, <1>9, <1>10

LEMMA SubstepTurns ==
  ASSUME NEW world, NEW wanted, NEW given, Given(world, wanted, given), Steered(world, wanted),
         Untangled(Sweeps(Driven(world, wanted, given), {}))
  PROVE  LET after  == Substep(world, {}, wanted, given)
             turned == Substep(TurnedWorld(world), {}, TurnedIntents(wanted), TurnedCommands(given))
         IN  /\ SameWorld(TurnedWorld(after), turned)
             /\ turned.touched = {TurnedTouch(team) : team \in after.touched}
<1> DEFINE driven == Driven(world, wanted, given)
           image == TurnedWorld(world)
           orders == TurnedCommands(given)
           last == Config.sweeps
           swept == Sweeps(driven, {})[last]
           sweeping == Sweeps(Across(driven), {})[last]
           Ready(id) == IF id = Objective THEN world.contacts[id]
                        ELSE ContactSpent(world.contacts[id], world.charges[id], given[id])
           Readied(id) == IF id = Objective THEN image.contacts[id]
                          ELSE ContactSpent(image.contacts[id], image.charges[id], orders[id])
           Left(id) == IF id = Objective THEN world.charges[id]
                       ELSE ChargeSpent(world.contacts[id], world.charges[id], given[id])
           Leaving(id) == IF id = Objective THEN image.charges[id]
                          ELSE ChargeSpent(image.contacts[id], image.charges[id], orders[id])
           after == Substep(world, {}, wanted, given)
           turned == Substep(image, {}, TurnedIntents(wanted), orders)
<1>1. last \in Nat /\ last \in 0 .. last /\ 0 \in 0 .. last
  BY SharesAreShares
<1>2. Roomy(driven) /\ Roomy(swept.bodies)
  <2>1. Roomy(Sweeps(driven, {})[0].bodies) /\ Roomy(swept.bodies)
    BY <1>1 DEF Untangled
  <2>2. Sweeps(driven, {})[0] = [bodies |-> driven, touched |-> {}]
    BY SweepsUnroll
  <2> HIDE DEF driven, swept
  <2> QED
    BY <2>1, <2>2
<1>3. Driven(image, TurnedIntents(wanted), orders) = Across(driven)
  BY <1>2, DrivenTurns
<1>4. sweeping.bodies = Across(swept.bodies) /\ sweeping.touched = OtherSide(swept.touched)
  <2>1. OtherSide({}) = {}
    BY DEF OtherSide
  <2> QED
    BY SMTT(30), <1>1, <2>1, SweepsTurn
<1>5. /\ after = Settled(swept, world, given) /\ turned = Settled(sweeping, image, orders)
  BY <1>3 DEF Substep
<1> HIDE DEF after, turned, swept, sweeping, driven
<1>6. /\ after = [bodies   |-> [id \in Body |-> ArenaResolved(id, swept.bodies[id])],
                  contacts |-> [id \in Body |-> ArenaContact(id, swept.bodies[id], Released(Ready(id)))],
                  charges  |-> [id \in Body |-> Recharged(id, swept.bodies[id], Left(id))],
                  touched  |-> swept.touched]
      /\ turned = [bodies   |-> [id \in Body |-> ArenaResolved(id, sweeping.bodies[id])],
                   contacts |-> [id \in Body |-> ArenaContact(id, sweeping.bodies[id], Released(Readied(id)))],
                   charges  |-> [id \in Body |-> Recharged(id, sweeping.bodies[id], Leaving(id))],
                   touched  |-> sweeping.touched]
  BY <1>5 DEF Settled
<1>7. ASSUME NEW id \in Body
      PROVE  LET c == Counterpart(id)
             IN  /\ Released(Readied(id)) = TurnedContact(Released(Ready(c))) /\ IsContact(Released(Ready(c)))
                 /\ Leaving(id) = Left(c)
  <2> DEFINE c == Counterpart(id)
             contact == world.contacts[c]
             charge == world.charges[c]
             command == given[c]
  <2>1. c \in Body /\ (c = Objective <=> id = Objective)
    BY CounterpartsExchange
  <2>2. /\ image.contacts[id] = TurnedContact(contact) /\ image.charges[id] = charge
        /\ orders[id] = command
    BY WorldsTurn, OrdersTurn
  <2>3. IsContact(contact)
    BY <2>1 DEF Given
  <2> HIDE DEF image, orders
  <2>4. CASE id = Objective
    <3>1. Ready(c) = contact /\ Readied(id) = TurnedContact(contact) /\ Left(c) = charge /\ Leaving(id) = charge
      BY <2>1, <2>2, <2>4
    <3> HIDE DEF Ready, Readied, Left, Leaving, c, contact, charge
    <3>2. /\ IsContact(Released(contact)) /\ Released(TurnedContact(contact)) = TurnedContact(Released(contact))
      BY <2>3, ContactsSpend
    <3> QED
      BY <3>1, <3>2 DEF c
  <2>5. CASE id # Objective
    <3>1. /\ Ready(c) = ContactSpent(contact, charge, command) /\ Left(c) = ChargeSpent(contact, charge, command)
          /\ Readied(id) = ContactSpent(TurnedContact(contact), charge, command)
          /\ Leaving(id) = ChargeSpent(TurnedContact(contact), charge, command)
      BY <2>1, <2>2, <2>5
    <3> HIDE DEF Ready, Readied, Left, Leaving, c, contact, charge, command
    <3> DEFINE kept == ContactSpent(contact, charge, command)
    <3>2. /\ IsContact(kept) /\ ContactSpent(TurnedContact(contact), charge, command) = TurnedContact(kept)
          /\ ChargeSpent(TurnedContact(contact), charge, command) = ChargeSpent(contact, charge, command)
      BY <2>3, ContactsSpend
    <3> HIDE DEF kept
    <3>3. IsContact(Released(kept)) /\ Released(TurnedContact(kept)) = TurnedContact(Released(kept))
      BY <3>2, ContactsSpend
    <3>4. Ready(c) = kept /\ Readied(id) = TurnedContact(kept)
      BY <3>1, <3>2 DEF kept
    <3> QED
      BY <3>1, <3>2, <3>3, <3>4 DEF c
  <2> QED
    BY <2>4, <2>5
<1> HIDE DEF Ready, Readied, Left, Leaving, image, orders
<1>8. /\ after.bodies = [id \in Body |-> ArenaResolved(id, swept.bodies[id])]
      /\ after.contacts = [id \in Body |-> ArenaContact(id, swept.bodies[id], Released(Ready(id)))]
      /\ after.charges = [id \in Body |-> Recharged(id, swept.bodies[id], Left(id))]
  BY <1>6
<1>9. /\ turned.bodies = [id \in Body |-> ArenaResolved(id, sweeping.bodies[id])]
      /\ turned.contacts = [id \in Body |-> ArenaContact(id, sweeping.bodies[id], Released(Readied(id)))]
      /\ turned.charges = [id \in Body |-> Recharged(id, sweeping.bodies[id], Leaving(id))]
  BY <1>6
<1>10. ASSUME NEW id \in Body
       PROVE  /\ turned.bodies[id] = TurnedBody(after.bodies[Counterpart(id)])
              /\ turned.contacts[id] = TurnedContact(after.contacts[Counterpart(id)])
              /\ turned.charges[id] = after.charges[Counterpart(id)]
  <2> DEFINE c == Counterpart(id)
             body == swept.bodies[c]
             contact == Released(Ready(c))
             charge == Left(c)
  <2>1. c \in Body /\ Counterpart(c) = id
    BY CounterpartsExchange
  <2>2. sweeping.bodies[id] = TurnedBody(body) /\ IsBody(body)
    BY <1>2, <1>4, <2>1, AcrossIsRoomy, RoomyBodies
  <2>3. Released(Readied(id)) = TurnedContact(contact) /\ IsContact(contact) /\ Leaving(id) = charge
    BY <1>7
  <2>4. /\ after.bodies[c] = ArenaResolved(c, body) /\ after.contacts[c] = ArenaContact(c, body, contact)
        /\ after.charges[c] = Recharged(c, body, charge)
    BY <1>8, <2>1
  <2>5. /\ turned.bodies[id] = ArenaResolved(id, TurnedBody(body))
        /\ turned.contacts[id] = ArenaContact(id, TurnedBody(body), TurnedContact(contact))
        /\ turned.charges[id] = Recharged(id, TurnedBody(body), charge)
    BY <1>9, <2>2, <2>3
  <2> HIDE DEF c, body, contact, charge
  <2>6. /\ ArenaResolved(id, TurnedBody(body)) = TurnedBody(ArenaResolved(c, body))
        /\ ArenaContact(id, TurnedBody(body), TurnedContact(contact)) = TurnedContact(ArenaContact(c, body, contact))
        /\ Recharged(id, TurnedBody(body), charge) = Recharged(c, body, charge)
    BY <2>1, <2>2, <2>3, ArenaTurns
  <2> QED
    BY <2>4, <2>5, <2>6 DEF c
<1>11. /\ TurnedWorld(after).bodies = [id \in Body |-> TurnedBody(after.bodies[Counterpart(id)])]
       /\ TurnedWorld(after).contacts = [id \in Body |-> TurnedContact(after.contacts[Counterpart(id)])]
       /\ TurnedWorld(after).charges = [id \in Body |-> after.charges[Counterpart(id)]]
  BY DEF TurnedWorld, TurnedContact
<1>12. /\ turned.bodies = [id \in Body |-> turned.bodies[id]]
       /\ turned.contacts = [id \in Body |-> turned.contacts[id]]
       /\ turned.charges = [id \in Body |-> turned.charges[id]]
  BY <1>9
<1>13. /\ TurnedWorld(after).bodies = turned.bodies
       /\ TurnedWorld(after).contacts = turned.contacts
       /\ TurnedWorld(after).charges = turned.charges
  BY <1>10, <1>11, <1>12
<1>14. turned.touched = OtherSide(after.touched)
  BY <1>4, <1>6
<1> QED
  BY <1>13, <1>14 DEF SameWorld, OtherSide, after, turned, image, orders

(* Contacts keep a direction, and what was latched is among the orders.    *)
OrdersLatched ==
  /\ \A id \in Body : IsContact(contacts[id])
  /\ stage \in {"actuate", "integrate", "collide", "arena"} => intents \in Intents /\ commands \in Commands

LEMMA OrdersStay ==
  ASSUME Roomy(bodies), OrdersLatched, [Next]_vars
  PROVE  OrdersLatched'
<1>1. \A id \in Body : IsContact(contacts[id])
  BY DEF OrdersLatched
<1>2. CASE UNCHANGED vars
  BY <1>2 DEF OrdersLatched, vars
<1>3. CASE Latch
  BY <1>1, <1>3 DEF OrdersLatched, Latch
<1>4. CASE ApplyActuators
  <2>1. ASSUME NEW id \in Body PROVE IsContact(contacts'[id])
    <3>1. contacts'[id] = IF id = Objective THEN contacts[id]
                          ELSE ContactSpent(contacts[id], charges[id], commands[id])
      BY <1>4 DEF ApplyActuators
    <3> QED
      BY <1>1, <3>1, ContactsSpend
  <2>2. intents' = intents /\ commands' = commands /\ stage = "actuate" /\ stage' = "integrate"
    BY <1>4 DEF ApplyActuators
  <2> QED
    BY <2>1, <2>2 DEF OrdersLatched
<1>5. CASE Integrate
  <2>1. ASSUME NEW id \in Body PROVE IsContact(contacts'[id])
    <3>1. contacts'[id] = Released(contacts[id])
      BY <1>5 DEF Integrate
    <3> QED
      BY <1>1, <3>1, ContactsSpend
  <2>2. intents' = intents /\ commands' = commands /\ stage = "integrate"
    BY <1>5 DEF Integrate
  <2> QED
    BY <2>1, <2>2 DEF OrdersLatched
<1>6. CASE CollideSpheres
  <2>1. contacts' = contacts /\ intents' = intents /\ commands' = commands /\ stage = "collide"
    BY <1>6 DEF CollideSpheres
  <2> QED
    BY <1>1, <2>1 DEF OrdersLatched
<1>7. CASE ResolveArena
  <2>1. ASSUME NEW id \in Body PROVE IsContact(contacts'[id])
    <3> DEFINE normal == WallNormal(id, bodies[id].position)
    <3>1. contacts'[id] = ArenaContact(id, bodies[id], contacts[id])
      BY <1>7 DEF ResolveArena
    <3>2. contacts'[id] \in {DefaultContact, [touching |-> TRUE, normal |-> normal], contacts[id]}
      BY <3>1 DEF ArenaContact
    <3>3. InCube(bodies[id].position, Room)
      BY RoomyBodies DEF IsBody
    <3>4. InCube(normal, One)
      BY <3>3, WallsTurn DEF Faces
    <3> HIDE DEF normal
    <3>5. IsContact([touching |-> TRUE, normal |-> normal])
      BY <3>4 DEF IsContact
    <3>6. IsContact(DefaultContact)
      BY RoomFacts DEF IsContact, DefaultContact, InCube, UnitZ, Vec
    <3> QED
      BY <1>1, <3>2, <3>5, <3>6
  <2>2. intents' = intents /\ commands' = commands /\ stage = "arena"
    BY <1>7 DEF ResolveArena
  <2> QED
    BY <2>1, <2>2 DEF OrdersLatched
<1>8. CASE Report
  <2>1. contacts' = contacts /\ stage' = "rest"
    BY <1>8 DEF Report
  <2> QED
    BY <1>1, <2>1 DEF OrdersLatched
<1> QED
  BY <1>2, <1>3, <1>4, <1>5, <1>6, <1>7, <1>8 DEF Next

LEMMA OrdersFit ==
  ASSUME Roomy(bodies), OrdersLatched, stage = "actuate"
  PROVE  Given(World, intents, commands)
<1>1. intents \in [Body -> [position : Place, spin : Place]] /\ commands \in Commands
  BY OrdersAssumption DEF OrdersLatched
<1>2. World.bodies = bodies /\ World.contacts = contacts
  BY DEF World
<1>3. ASSUME NEW id \in Body
      PROVE  /\ InCube(intents[id].position, Room) /\ InCube(intents[id].spin, Room)
             /\ IsCommand(commands[id])
  <2>1. intents[id].position \in Place /\ intents[id].spin \in Place
    BY <1>1
  <2>2. /\ commands[id].residual \in Place
        /\ commands[id].hit[1] \in -Room .. Room /\ commands[id].hit[2] \in -Room .. Room
    BY <1>1, OrdersAssumption
  <2>3. InCube(commands[id].residual, Room)
    BY <2>2, PlacesAreCubes
  <2> QED
    BY <2>1, <2>2, <2>3, PlacesAreCubes DEF IsCommand, InCube
<1> QED
  BY <1>2, <1>3 DEF Given, OrdersLatched

(* Every kickoff's normals are directions.                                 *)
LEMMA OrdersStart ==
  ASSUME Init
  PROVE  OrdersLatched
<1>1. PICK start \in Kickoffs : contacts = start.contacts
  BY DEF Init
<1>2. contacts \in [Body -> [touching : BOOLEAN, normal : UnitPlace]]
  BY <1>1, KickoffAssumption
<1>3. ASSUME NEW id \in Body PROVE IsContact(contacts[id])
  <2>1. contacts[id] \in [touching : BOOLEAN, normal : UnitPlace]
    BY <1>2
  <2>2. contacts[id].normal \in UnitPlace
        /\ contacts[id] = [touching |-> contacts[id].touching, normal |-> contacts[id].normal]
    BY <2>1
  <2> QED
    BY <2>2, PlacesAreCubes DEF IsContact
<1>4. stage = "rest"
  BY DEF Init
<1> QED
  BY <1>3, <1>4 DEF OrdersLatched
(* A substep of the turned world is the turned substep, for every squad,   *)
(* arena and setting: neither team is served first, no rounding leans to   *)
(* one side, and the touches are the other team's (apply_actuators,        *)
(* integrate, collide_spheres and resolve_body_arena together).            *)
THEOREM SidesAreAlike == Spec /\ []Roomy(bodies) => []HalfTurnFair
<1>1. Init => OrdersLatched
  BY OrdersStart
<1>2. Roomy(bodies) /\ OrdersLatched /\ [Next]_vars => OrdersLatched'
  BY OrdersStay
<1>3. Roomy(bodies) /\ OrdersLatched => HalfTurnFair
  <2> SUFFICES ASSUME Roomy(bodies), OrdersLatched, stage = "actuate", Framed,
                      Untangled(Sweeps(Driven(World, intents, commands), {}))
               PROVE  LET after  == Substep(World, {}, intents, commands)
                          turned == Substep(TurnedWorld(World), {}, TurnedIntents(intents), TurnedCommands(commands))
                      IN  /\ SameWorld(TurnedWorld(after), turned)
                          /\ turned.touched = {TurnedTouch(team) : team \in after.touched}
    BY DEF HalfTurnFair
  <2>1. Given(World, intents, commands)
    BY OrdersFit
  <2>2. Steered(World, intents)
    <3>1. World.bodies = bodies /\ World.contacts = contacts
      BY DEF World
    <3> QED
      BY <3>1 DEF Steered, Framed
  <2> QED
    BY <2>1, <2>2, SubstepTurns
<1> QED
  BY <1>1, <1>2, <1>3, PTL DEF Spec

-----------------------------------------------------------------------------

(* Only teams touch, whatever the sweep.                                   *)
LEMMA SweepKeepsTeams ==
  ASSUME NEW at, NEW seen, seen \subseteq Team
  PROVE  Swept(at, seen).touched \subseteq Team
<1> DEFINE total == Len(Pairs)
<1>1. total \in Nat
  BY PairsAreTwo
<1>2. PICK f : /\ f[0] = [bodies |-> at, touched |-> seen]
               /\ \A n \in 1 .. total : f[n] = Parted(f[n - 1], Pairs[n])
               /\ Swept(at, seen) = f[total]
  BY SweepUnrolls
<1> DEFINE S == {n \in Nat : n <= total => f[n].touched \subseteq Team}
<1>3. ASSUME NEW n \in 1 .. total, NEW before, before.touched \subseteq Team
      PROVE  Parted(before, Pairs[n]).touched \subseteq Team
  <2>1. PICK a \in Body, b \in Body : Pairs[n] = <<a, b>>
    BY PairsAreTwo
  <2>2. Toucher(before.bodies, Pairs[n]) \subseteq Team
    BY <2>1, TouchersTurn
  <2> QED
    BY <1>3, <2>2 DEF Parted
<1> HIDE DEF total
<1>4. 0 \in S
  BY <1>2
<1>5. ASSUME NEW n \in Nat, n \in S PROVE n + 1 \in S
  <2> SUFFICES ASSUME n + 1 <= total PROVE f[n + 1].touched \subseteq Team
    OBVIOUS
  <2>1. n + 1 \in 1 .. total /\ (n + 1) - 1 = n /\ n <= total
    BY <1>1
  <2>2. f[n].touched \subseteq Team /\ f[n + 1] = Parted(f[n], Pairs[n + 1])
    BY <1>2, <1>5, <2>1
  <2> QED
    BY <1>3, <2>1, <2>2
<1>6. Nat \subseteq S
  <2> HIDE DEF S
  <2> QED
    BY <1>4, <1>5, SetInduction
<1> QED
  BY <1>1, <1>2, <1>6

LEMMA WrapsAreWords ==
  ASSUME NEW a \in Int
  PROVE  Wrap(a) \in Word
<1> DEFINE r == (a + WordLimit) % (2 * WordLimit)
<1>1. WordLimit \in Nat \ {0}
  BY FixedAssumption
<1>2. r \in 0 .. 2 * WordLimit - 1
  BY <1>1
<1> HIDE DEF r
<1>3. r - WordLimit \in Word
  BY <1>1, <1>2 DEF Word
<1> QED
  BY <1>3 DEF Wrap, r

(* What TypeOK leaves to say once the bodies have room.  Counters keep     *)
(* below their ends while there is a substep, or a sweep, to come.         *)
Shaped ==
  /\ contacts \in [Body -> [touching : BOOLEAN, normal : UnitPlace]]
  /\ charges \in [Body -> [surface : BOOLEAN, air : BOOLEAN]]
  /\ scores \in [Team -> 0 .. ScoreLimit]
  /\ touched \subseteq Team
  /\ entry \in Int
  /\ events \in [scorer : Team \cup {NoTeam}, progress : Word, touch : Team \cup {"none", "contested"}]

Counted ==
  /\ stage \in {"rest", "actuate", "integrate", "collide", "arena", "report"}
  /\ substep \in 0 .. Substeps /\ sweep \in 0 .. Config.sweeps
  /\ stage \in {"actuate", "integrate", "collide", "arena"} => substep < Substeps
  /\ stage = "collide" => sweep < Config.sweeps

LEMMA CountersStay ==
  ASSUME Counted, [Next]_vars
  PROVE  Counted'
<1>1. Config.sweeps \in Nat
  BY SharesAreShares
<1>2. CASE Latch
  BY <1>2 DEF Latch, Counted, Substeps
<1>3. CASE ApplyActuators
  BY <1>3 DEF ApplyActuators, Counted
<1>4. CASE Integrate
  BY <1>1, <1>4 DEF Integrate, Counted
<1>5. CASE CollideSpheres
  <2>1. /\ stage = "collide" /\ sweep' = sweep + 1 /\ substep' = substep
        /\ stage' = IF sweep' = Config.sweeps THEN "arena" ELSE "collide"
    BY <1>5 DEF CollideSpheres
  <2> QED
    BY <1>1, <2>1 DEF Counted
<1>6. CASE ResolveArena
  BY <1>6 DEF ResolveArena, Counted, Substeps
<1>7. CASE Report
  BY <1>7 DEF Report, Counted
<1>8. CASE UNCHANGED vars
  BY <1>8 DEF vars, Counted
<1> QED
  BY <1>2, <1>3, <1>4, <1>5, <1>6, <1>7, <1>8 DEF Next

LEMMA ScoresStay ==
  ASSUME scores \in [Team -> 0 .. ScoreLimit], NEW team
  PROVE  [t \in Team |-> IF t = team THEN SaturatingAdd(scores[t]) ELSE scores[t]] \in [Team -> 0 .. ScoreLimit]
<1>1. ASSUME NEW t \in Team PROVE SaturatingAdd(scores[t]) \in 0 .. ScoreLimit
  <2>1. scores[t] \in 0 .. ScoreLimit /\ ScoreLimit \in Nat
    BY ScoresAssumption
  <2> QED
    BY <2>1 DEF SaturatingAdd
<1> QED
  BY <1>1

LEMMA ShapeStays ==
  ASSUME Roomy(bodies), Roomy(bodies'), Shaped, [Next]_vars
  PROVE  Shaped'
<1> DEFINE Contacts == [touching : BOOLEAN, normal : UnitPlace]
           Charges == [surface : BOOLEAN, air : BOOLEAN]
<1>1. \A id \in Body : contacts[id] \in Contacts /\ charges[id] \in Charges
  BY DEF Shaped
<1>2. CASE UNCHANGED vars
  BY <1>2 DEF vars, Shaped
<1>3. CASE Latch
  <2>1. NoEvents \in [scorer : Team \cup {NoTeam}, progress : Word, touch : Team \cup {"none", "contested"}]
    BY FixedAssumption DEF NoEvents, Word
  <2>2. /\ UNCHANGED <<contacts, charges, scores, entry>>
        /\ touched' = {} /\ events' = NoEvents
    BY <1>3 DEF Latch
  <2> QED
    BY <2>1, <2>2 DEF Shaped
<1>4. CASE ApplyActuators
  <2>1. ASSUME NEW id \in Body
        PROVE  /\ ContactSpent(contacts[id], charges[id], commands[id]) \in Contacts
               /\ ChargeSpent(contacts[id], charges[id], commands[id]) \in Charges
    BY <1>1 DEF ContactSpent, ChargeSpent
  <2>2. /\ UNCHANGED <<scores, touched, events>>
        /\ entry' = bodies[Objective].position.x
        /\ contacts' = [id \in Body |-> IF id = Objective THEN contacts[id]
                                         ELSE ContactSpent(contacts[id], charges[id], commands[id])]
        /\ charges' = [id \in Body |-> IF id = Objective THEN charges[id]
                                        ELSE ChargeSpent(contacts[id], charges[id], commands[id])]
    BY <1>4 DEF ApplyActuators
  <2> HIDE DEF Contacts, Charges
  <2>3. contacts' \in [Body -> Contacts] /\ charges' \in [Body -> Charges]
    BY <1>1, <2>1, <2>2
  <2>4. entry' \in Int
    BY <2>2, BodiesInOrder, RoomyCoordinates
  <2> QED
    BY <2>2, <2>3, <2>4 DEF Shaped, Contacts, Charges
<1>5. CASE Integrate
  <2>1. /\ UNCHANGED <<charges, scores, touched, entry, events>>
        /\ contacts' = [id \in Body |-> Released(contacts[id])]
    BY <1>5 DEF Integrate
  <2>2. \A id \in Body : Released(contacts[id]) \in Contacts
    BY <1>1 DEF Released
  <2> QED
    BY <2>1, <2>2 DEF Shaped
<1>6. CASE CollideSpheres
  <2>1. /\ UNCHANGED <<contacts, charges, scores, entry, events>>
        /\ touched' = Swept(bodies, touched).touched
    BY <1>6 DEF CollideSpheres
  <2>2. touched' \subseteq Team
    BY <2>1, SweepKeepsTeams DEF Shaped
  <2> QED
    BY <2>1, <2>2 DEF Shaped
<1>7. CASE ResolveArena
  <2> DEFINE team == GoalOf(Objective, bodies[Objective].position)
             travel == events.progress + Progress(entry, bodies[Objective], bodies'[Objective])
  <2>1. /\ contacts' = [id \in Body |-> ArenaContact(id, bodies[id], contacts[id])]
        /\ charges' = [id \in Body |-> Recharged(id, bodies[id], charges[id])]
        /\ scores' = [t \in Team |-> IF t = team THEN SaturatingAdd(scores[t]) ELSE scores[t]]
        /\ touched' = touched /\ entry' = entry
        /\ events' = [events EXCEPT !.progress = Wrap(travel),
                                    !.scorer = IF @ = NoTeam THEN team ELSE @]
    BY <1>7 DEF ResolveArena
  <2>2. ASSUME NEW id \in Body
        PROVE  ArenaContact(id, bodies[id], contacts[id]) \in Contacts
    <3> DEFINE normal == WallNormal(id, bodies[id].position)
    <3>1. InCube(bodies[id].position, Room)
      BY RoomyBodies DEF IsBody
    <3>2. normal \in UnitPlace
      BY <3>1, WallsTurn, PlacesAreCubes DEF Faces
    <3>3. UnitZ \in UnitPlace
      BY RoomFacts, PlacesAreCubes DEF InCube, UnitZ, Vec
    <3>4. ArenaContact(id, bodies[id], contacts[id]) \in
            {DefaultContact, [touching |-> TRUE, normal |-> normal], contacts[id]}
      BY DEF ArenaContact
    <3> HIDE DEF normal
    <3>5. /\ DefaultContact \in Contacts
          /\ [touching |-> TRUE, normal |-> normal] \in Contacts
      BY <3>2, <3>3 DEF DefaultContact
    <3>6. contacts[id] \in Contacts
      BY <1>1
    <3> HIDE DEF Contacts
    <3> QED
      BY <3>4, <3>5, <3>6
  <2>3. \A id \in Body : Recharged(id, bodies[id], charges[id]) \in Charges
    BY <1>1 DEF Recharged, DefaultCharges
  <2>4. team \in Team \cup {NoTeam}
    BY DEF GoalOf, ScoringTeam, Team
  <2>5. events.progress \in Int /\ travel \in Int
    <3>1. events.progress \in Word
      BY DEF Shaped
    <3> DEFINE way == Progress(entry, bodies[Objective], bodies'[Objective])
    <3>2. events.progress \in Int
      BY <3>1, FixedAssumption DEF Word
    <3> DEFINE x == bodies[Objective].position.x
               rest == bodies'[Objective].position.x
    <3>4. x \in Int /\ rest \in Int /\ entry \in Int
      BY BodiesInOrder, RoomyCoordinates DEF Shaped
    <3>5. way = Wrap(rest - entry - (IF GoalOf(Objective, bodies[Objective].position) = NoTeam THEN 0 ELSE -x))
      BY DEF Progress
    <3> HIDE DEF x, rest
    <3>3. way \in Int
      <4>1. \A a \in Word : a \in Int
        BY FixedAssumption DEF Word
      <4> QED
        BY <3>4, <3>5, <4>1, WrapsAreWords
    <3> HIDE DEF way
    <3> QED
      BY <3>2, <3>3 DEF way
  <2>6. Wrap(travel) \in Word
    BY <2>5, WrapsAreWords
  <2> HIDE DEF team, travel, Contacts, Charges
  <2>7. events' \in [scorer : Team \cup {NoTeam}, progress : Word, touch : Team \cup {"none", "contested"}]
    BY <2>1, <2>4, <2>6 DEF Shaped
  <2>8. scores' \in [Team -> 0 .. ScoreLimit]
    BY <2>1, ScoresStay DEF Shaped
  <2>9. contacts' \in [Body -> Contacts] /\ charges' \in [Body -> Charges]
    BY <2>1, <2>2, <2>3
  <2> QED
    BY <2>1, <2>7, <2>8, <2>9 DEF Shaped, Contacts, Charges
<1>8. CASE Report
  <2>1. /\ UNCHANGED <<contacts, charges, scores, touched, entry>>
        /\ events' = [events EXCEPT !.touch = TouchOf(touched)]
    BY <1>8 DEF Report
  <2>2. TouchOf(touched) \in Team \cup {"none", "contested"}
    BY DEF TouchOf, Shaped
  <2> QED
    BY <2>1, <2>2 DEF Shaped
<1> QED
  BY <1>2, <1>3, <1>4, <1>5, <1>6, <1>7, <1>8 DEF Next

(* With the bodies' coordinates and speeds in the room, everything else    *)
(* has its type, for any number of bodies, sweeps and ticks: no wall's     *)
(* normal is longer than one, counters stop at their ends, only teams      *)
(* touch, and the ball is never so far out that a tick's travel would not  *)
(* fit the word (step and all of its substages).                           *)
THEOREM TypeCorrect == Spec /\ []Roomy(bodies) => []TypeOK
<1>1. Init /\ Roomy(bodies) => Shaped /\ Counted
  <2> SUFFICES ASSUME Init, Roomy(bodies) PROVE Shaped /\ Counted
    OBVIOUS
  <2>1. PICK start \in Kickoffs : contacts = start.contacts
    BY DEF Init
  <2>2. contacts \in [Body -> [touching : BOOLEAN, normal : UnitPlace]]
    BY <2>1, KickoffAssumption
  <2>3. charges \in [Body -> [surface : BOOLEAN, air : BOOLEAN]]
    BY DEF Init, DefaultCharges
  <2>4. events \in [scorer : Team \cup {NoTeam}, progress : Word, touch : Team \cup {"none", "contested"}]
    BY FixedAssumption DEF Init, NoEvents, Word
  <2>5. scores \in [Team -> 0 .. ScoreLimit] /\ touched \subseteq Team
    BY ScoresAssumption DEF Init
  <2>6. Counted
    BY SharesAreShares DEF Init, Counted, Substeps
  <2>7. entry \in Int
    BY BodiesInOrder, RoomyCoordinates DEF Init
  <2> QED
    BY <2>2, <2>3, <2>4, <2>5, <2>6, <2>7 DEF Shaped
<1>2. Roomy(bodies) /\ Roomy(bodies)' /\ Shaped /\ Counted /\ [Next]_vars => Shaped' /\ Counted'
  BY ShapeStays, CountersStay
<1>3. Roomy(bodies) /\ Shaped /\ Counted => TypeOK
  <2> SUFFICES ASSUME Roomy(bodies), Shaped, Counted PROVE TypeOK
    OBVIOUS
  <2>1. \A v \in UnitPlace : v \in Vector
    <3>1. \A a \in -One .. One : a \in Word
      BY RoomFacts DEF Word
    <3> QED
      BY <3>1 DEF UnitPlace, Vector
  <2>2. contacts \in [Body -> [touching : BOOLEAN, normal : Vector]]
    BY <2>1 DEF Shaped
  <2>3. 4 * AbsOf(bodies[Objective].position.x) < WordLimit
    <3>1. InCube(bodies[Objective].position, Room)
      BY BodiesInOrder, RoomyBodies DEF IsBody
    <3> DEFINE x == bodies[Objective].position.x
    <3>2. x \in Int /\ -Room <= x /\ x <= Room
      BY <3>1 DEF InCube
    <3> HIDE DEF x
    <3>3. 4 * AbsOf(x) < WordLimit
      BY <3>2, RoomFacts DEF AbsOf
    <3> QED
      BY <3>3 DEF x
  <2> QED
    BY <2>2, <2>3 DEF TypeOK, Shaped, Counted
<1> QED
  BY <1>1, <1>2, <1>3, PTL DEF Spec

(* What the match sees of the ball is a track (BallTrack), for every       *)
(* arena, squad and intent: however many substeps, sweeps and walls there  *)
(* were, the progress of a tick is the way the ball went along the arena,  *)
(* without the way back to the centre, a goal is reported only from beyond *)
(* its line and to its team, and no score moves otherwise.                 *)
THEOREM BallIsTracked == Spec /\ []Roomy(bodies) => ImplementsTrack
<1>1. Init /\ TypeOK /\ Contained => Track!Init
  <2> SUFFICES ASSUME Init, TypeOK, Contained PROVE Track!Init
    OBVIOUS
  <2>1. SettledX \in -GoalLine .. GoalLine
    BY BallTyped, ContainedInPlay DEF Init, SettledX
  <2>2. events.progress = 0 /\ events.scorer = NoTeam /\ scores \in [Team -> 0 .. ScoreLimit]
    BY BallTyped DEF Init, NoEvents
  <2> QED
    BY <2>1, <2>2 DEF Track!Init, Track!InPlay, Track!NoTeam, Track!Team, NoTeam, Team, GoalLine
<1>2. Init => TrackKept
  BY DEF Init, TrackKept
<1>3. TypeOK /\ Contained /\ TypeOK' /\ Contained' /\ TrackKept /\ [Next]_vars => TrackKept'
  BY TrackStays
<1>4. TypeOK /\ Contained /\ TypeOK' /\ Contained' /\ TrackKept /\ [Next]_vars
        => [Track!Next]_(Track!vars)
  BY StepsAreTrackSteps
<1> QED
  BY <1>1, <1>2, <1>3, <1>4, ArenaAlwaysContains, TypeCorrect, PTL DEF Spec, ImplementsTrack, Track!Spec

=============================================================================
