------------------------------- MODULE Physics -------------------------------
(***************************************************************************)
(* physics::step (zoomieball-core/src/physics.rs): two substeps of         *)
(* actuators, integration, collision sweeps and arena contacts over the    *)
(* bodies, and the events of the tick.                                     *)
(*                                                                         *)
(* Bodies are numbered from zero in the canonical order, team zero's, then *)
(* team one's, then the objective.  As in the code, a body's vectors, its  *)
(* contact frame and its charges are kept apart.                           *)
(* Settings are raw words; a small One leaves the roundings where they are *)
(* and makes them large.                                                   *)
(***************************************************************************)
EXTENDS FixedPoint, Sequences, FiniteSets

CONSTANTS
  TeamOf,       \* body -> "zero" or "one"; "none" for the objective
  Radius,       \* of every sphere
  Room,         \* how far a coordinate or a speed gets, well within the word
  Config,       \* gravity, magnus, drag, retention, traction, gain, jump, boost, air,
                \* restitution, cap, sweeps
  Dt,           \* PHYSICS_DT
  Arena,        \* halfLength, halfWidth, height, goalHalfWidth, goalHeight
  Kickoffs,     \* [bodies, contacts] a run starts from
  Standing,     \* scores a run starts from
  Intents,      \* each a function body -> [position, spin]
  Commands,     \* each a function body -> motor command
  ScoreLimit,   \* u16::MAX
  MaxTick       \* bound on the ticks of a run

VARIABLES
  bodies,     \* body -> [position, velocity, spin]
  contacts,   \* body -> [touching, normal]
  charges,    \* body -> [surface, air]
  scores,     \* team -> goals
  stage,      \* what the substep does next; "rest" between ticks
  substep,    \* substeps completed
  sweep,      \* collision sweeps completed in this substep
  intents, commands,   \* latched for the tick
  entry,      \* the objective's x as the substep began
  touched,    \* teams seen touching the objective this tick
  events,     \* [scorer, progress, touch]
  tick,
  kickoff,    \* history: bodies, contacts and charges as the tick begins
  spent       \* history: actions spent since the last arena contact

vars == <<bodies, contacts, charges, scores, stage, substep, sweep, intents, commands, entry, touched,
          events, tick, kickoff, spent>>

Body == DOMAIN TeamOf
Objective == CHOOSE body \in Body : TeamOf[body] = "none"
Team == {"zero", "one"}
NoTeam == "none"
Substeps == 2

DefaultContact == [touching |-> TRUE, normal |-> UnitZ]
DefaultCharges == [surface |-> TRUE, air |-> TRUE]
NoOrders == <<>>
NoEvents == [scorer |-> NoTeam, progress |-> 0, touch |-> "none"]

AttackAxis(team) == IF team = "zero" THEN UnitX ELSE Vec(-One, 0, 0)

-----------------------------------------------------------------------------

DirectionOr(v, fallback) == IF Normalized(v) = Zero THEN fallback ELSE Normalized(v)

(* The frame a command is read in: forward along the contact toward the    *)
(* desired position, right across it.                                      *)
Tangent(body, normal, intent) ==
  LET desired == Minus(intent.position, body.position)
  IN  Minus(desired, Scaled(normal, Dot(desired, normal)))

Forward(body, normal, team, intent) ==
  LET tangent == Tangent(body, normal, intent)
  IN  IF tangent = Zero THEN AttackAxis(team) ELSE Normalized(tangent)

Right(normal, forward) == DirectionOr(Cross(normal, forward), UnitY)

Along(forward, right, normal, spin) ==
  Plus(Plus(Scaled(forward, spin.x), Scaled(right, spin.y)), Scaled(normal, spin.z))

SurfaceActs(contact, charge, command) ==
  contact.touching /\ charge.surface /\ (command.jump \/ command.boost)

(* Mutant: a cue needs no charge. *)
AirActsUncharged(charge, command) == command.cue
AirActs(charge, command) == charge.air /\ command.cue

Impulse(contact, charge, command, forward, right) ==
  LET acts  == SurfaceActs(contact, charge, command)
      jump  == IF acts /\ command.jump THEN Scaled(contact.normal, Config.jump) ELSE Zero
      boost == IF acts /\ command.boost THEN Scaled(forward, Config.boost) ELSE Zero
      hit   == Minus(Plus(Scaled(right, command.hit[1]), Scaled(contact.normal, command.hit[2])), forward)
      cue   == IF AirActs(charge, command)
               THEN Scaled(DirectionOr(hit, Negated(forward)), Config.air) ELSE Zero
  IN  Plus(Plus(jump, boost), cue)

(* apply_actuators, for one player: its spin and velocity, and what its    *)
(* actions leave of its contact and its charges.                           *)
Actuated(body, contact, charge, team, intent, command) ==
  LET forward == Forward(body, contact.normal, team, intent)
      right   == Right(contact.normal, forward)
      desired == Plus(intent.spin,
                      Scaled(Along(forward, right, contact.normal, command.residual), Config.gain))
  IN  [body EXCEPT
        !.spin     = IF contact.touching
                     THEN Plus(@, Scaled(Minus(desired, @), Config.traction)) ELSE @,
        !.velocity = Plus(@, Impulse(contact, charge, command, forward, right))]

ContactSpent(contact, charge, command) ==
  [touching |-> contact.touching /\ ~SurfaceActs(contact, charge, command),
   normal   |-> contact.normal]
ChargeSpent(contact, charge, command) ==
  [surface |-> charge.surface /\ ~SurfaceActs(contact, charge, command),
   air     |-> charge.air /\ ~AirActs(charge, command)]

CapSpeed(v) ==
  LET length == Length(v) IN IF length > Config.cap THEN Scaled(v, QDiv(Config.cap, length)) ELSE v

Accelerated(body) ==
  LET magnus == Scaled(Cross(body.spin, body.velocity), Config.magnus)
      pull   == Minus(magnus, Scaled(UnitZ, Config.gravity))
  IN  CapSpeed(Scaled(Plus(body.velocity, Scaled(pull, Dt)), Config.drag))

(* integrate: a contact does not outlive the substep, its normal does. *)
Integrated(body) ==
  [body EXCEPT !.velocity = Accelerated(body),
               !.position = Plus(@, Scaled(Accelerated(body), Dt))]

Released(contact) == [touching |-> FALSE, normal |-> contact.normal]

-----------------------------------------------------------------------------

(* The pairs of one sweep, in canonical order. *)
Pairs ==
  LET pairs == {pair \in Body \X Body : pair[1] < pair[2]}
      Earlier(pair) == {p \in pairs : p[1] < pair[1] \/ (p[1] = pair[1] /\ p[2] <= pair[2])}
  IN  [i \in 1 .. Cardinality(pairs) |-> CHOOSE pair \in pairs : Cardinality(Earlier(pair)) = i]

Gap(at, pair) == Length(Minus(at[pair[2]].position, at[pair[1]].position))
Overlaps(at, pair) == Gap(at, pair) < 2 * Radius
Closing(at, pair, normal) == Dot(Minus(at[pair[2]].velocity, at[pair[1]].velocity), normal)

(* One overlapping pair: pushed apart by half the overlap each, and each   *)
(* given half the bounce if they approach.                                 *)
Separated(at, pair) ==
  LET gap    == Gap(at, pair)
      offset == Minus(at[pair[2]].position, at[pair[1]].position)
      normal == IF gap = 0 THEN UnitX
                ELSE Vec(QDiv(offset.x, gap), QDiv(offset.y, gap), QDiv(offset.z, gap))
      shift   == Scaled(normal, QMul(2 * Radius - gap, Half))
      impulse == QMul(QMul(-Closing(at, pair, normal), One + Config.restitution), Half)
      bounce  == IF Closing(at, pair, normal) >= 0 THEN Zero ELSE Scaled(normal, impulse)
  IN  [at EXCEPT ![pair[1]].position = Minus(@, shift),
                 ![pair[2]].position = Plus(@, shift),
                 ![pair[1]].velocity = Minus(@, bounce),
                 ![pair[2]].velocity = Plus(@, bounce)]

(* Mutant: a touch is an overlap of bodies that approach. *)
ToucherIfClosing(at, pair) ==
  IF Objective \in {pair[1], pair[2]} /\ Closing(at, pair, Minus(at[pair[2]].position, at[pair[1]].position)) < 0
  THEN {TeamOf[body] : body \in {pair[1], pair[2]} \ {Objective}} ELSE {}

(* The team a pair shows to touch the objective. *)
Toucher(at, pair) ==
  IF Objective \in {pair[1], pair[2]}
  THEN {TeamOf[body] : body \in {pair[1], pair[2]} \ {Objective}} ELSE {}

(* collide_spheres: each pair meets what the pairs before it left. *)
Swept(at, seen) ==
  LET Upto[n \in 0 .. Len(Pairs)] ==
        IF n = 0 THEN [bodies |-> at, touched |-> seen]
        ELSE LET before == Upto[n - 1]
             IN  IF Overlaps(before.bodies, Pairs[n])
                 THEN [bodies  |-> Separated(before.bodies, Pairs[n]),
                       touched |-> before.touched \cup Toucher(before.bodies, Pairs[n])]
                 ELSE before
  IN  Upto[Len(Pairs)]

-----------------------------------------------------------------------------

(* Mutant: anybody passes through the goal mouth. *)
AnybodyInGoalMouth(id, position) ==
  /\ AbsOf(position.y) <= Arena.goalHalfWidth
  /\ position.z <= Arena.goalHeight

InGoalMouth(id, position) ==
  /\ id = Objective
  /\ AbsOf(position.y) <= Arena.goalHalfWidth
  /\ position.z <= Arena.goalHeight

ScoringTeam(x) ==
  IF x > Arena.halfLength + Radius THEN "zero"
  ELSE IF x < -Arena.halfLength - Radius THEN "one" ELSE NoTeam

GoalOf(id, position) == IF InGoalMouth(id, position) THEN ScoringTeam(position.x) ELSE NoTeam

(* Back between two walls, each a radius away. *)
Within(value, low, high) == ClampTo(value, low + Radius, high - Radius)

(* Each wall the position is beyond moves it back and adds its normal. *)
Corrected(id, position) ==
  Vec(IF InGoalMouth(id, position) THEN position.x
      ELSE Within(position.x, -Arena.halfLength, Arena.halfLength),
      Within(position.y, -Arena.halfWidth, Arena.halfWidth),
      Within(position.z, 0, Arena.height))

WallNormal(id, position) ==
  LET corrected == Corrected(id, position)
      Inward(axis) == One * SignOf(corrected[axis] - position[axis])
  IN  Normalized(Vec(Inward("x"), Inward("y"), Inward("z")))

(* Outward motion bounces, the rest of it is damped. *)
Rebounded(velocity, normal) ==
  LET outward == Dot(velocity, normal)
      kept    == IF outward < 0
                 THEN Minus(velocity, Scaled(Scaled(normal, outward), One + Config.restitution))
                 ELSE velocity
      along   == Scaled(normal, Dot(kept, normal))
  IN  Plus(along, Scaled(Minus(kept, along), Config.retention))

HitsWall(id, body) == Corrected(id, body.position) # body.position

(* resolve_body_arena: position, velocity and the combined contact. *)
AgainstWalls(id, body) ==
  [body EXCEPT !.position = Corrected(id, @),
               !.velocity = Rebounded(@, WallNormal(id, body.position))]

(* A scored ball starts over at the centre. *)
Recentred == [position |-> Vec(0, 0, Radius), velocity |-> Zero, spin |-> Zero]

Scores(id, body) == GoalOf(id, body.position) # NoTeam

ArenaResolved(id, body) ==
  IF Scores(id, body) THEN Recentred
  ELSE IF HitsWall(id, body) THEN AgainstWalls(id, body) ELSE body

ArenaContact(id, body, contact) ==
  IF Scores(id, body) THEN DefaultContact
  ELSE IF HitsWall(id, body) THEN [touching |-> TRUE, normal |-> WallNormal(id, body.position)]
  ELSE contact

(* Either kind of contact restores both charges. *)
Recharged(id, body, charge) ==
  IF Scores(id, body) \/ HitsWall(id, body) THEN DefaultCharges ELSE charge

(* Mutant: the way back to the centre counts as travel. *)
ProgressWithReturn(from, before, after) == after.position.x - from

(* Travel along x, less the reposition after a goal. *)
Progress(from, before, after) ==
  LET reposition == IF GoalOf(Objective, before.position) = NoTeam THEN 0 ELSE -before.position.x
  IN  Wrap(after.position.x - from - reposition)

(* Mutant: a plain sum. *)
PlainAdd(score) == score + 1
SaturatingAdd(score) == IF score < ScoreLimit THEN score + 1 ELSE ScoreLimit

TouchOf(seen) ==
  IF seen = {} THEN "none" ELSE IF seen = Team THEN "contested" ELSE CHOOSE team \in seen : TRUE

-----------------------------------------------------------------------------

Init ==
  /\ \E start \in Kickoffs : bodies = start.bodies /\ contacts = start.contacts
  /\ charges = [id \in Body |-> DefaultCharges]
  /\ scores = Standing
  /\ stage = "rest"
  /\ substep = 0 /\ sweep = 0
  /\ intents = NoOrders /\ commands = NoOrders
  /\ entry = bodies[Objective].position.x
  /\ touched = {}
  /\ events = NoEvents
  /\ tick = 0
  /\ kickoff = [bodies |-> bodies, contacts |-> contacts, charges |-> charges]
  /\ spent = [body \in Body |-> [surface |-> 0, air |-> 0]]

(* step is called with what the controller decoded. *)
Latch ==
  /\ stage = "rest"
  /\ tick < MaxTick
  /\ intents' \in Intents
  /\ commands' \in Commands
  /\ stage' = "actuate"
  /\ substep' = 0
  /\ touched' = {}
  /\ events' = NoEvents
  /\ UNCHANGED <<bodies, contacts, charges, scores, sweep, entry, tick, kickoff, spent>>

ApplyActuators ==
  /\ stage = "actuate"
  /\ entry' = bodies[Objective].position.x
  /\ bodies' = [id \in Body |-> IF id = Objective THEN bodies[id]
       ELSE Actuated(bodies[id], contacts[id], charges[id], TeamOf[id], intents[id], commands[id])]
  /\ contacts' = [id \in Body |-> IF id = Objective THEN contacts[id]
                                  ELSE ContactSpent(contacts[id], charges[id], commands[id])]
  /\ charges' = [id \in Body |-> IF id = Objective THEN charges[id]
                                 ELSE ChargeSpent(contacts[id], charges[id], commands[id])]
  /\ spent' = [id \in Body |-> IF id = Objective THEN spent[id]
       ELSE [surface |-> spent[id].surface
                           + (IF SurfaceActs(contacts[id], charges[id], commands[id]) THEN 1 ELSE 0),
             air     |-> spent[id].air + (IF AirActs(charges[id], commands[id]) THEN 1 ELSE 0)]]
  /\ stage' = "integrate"
  /\ UNCHANGED <<scores, substep, sweep, intents, commands, touched, events, tick, kickoff>>

Integrate ==
  /\ stage = "integrate"
  /\ bodies' = [id \in Body |-> Integrated(bodies[id])]
  /\ contacts' = [id \in Body |-> Released(contacts[id])]
  /\ stage' = IF Config.sweeps = 0 THEN "arena" ELSE "collide"
  /\ sweep' = 0
  /\ UNCHANGED <<charges, scores, substep, intents, commands, entry, touched, events, tick,
                 kickoff, spent>>

CollideSpheres ==
  /\ stage = "collide"
  /\ LET after == Swept(bodies, touched)
     IN  bodies' = after.bodies /\ touched' = after.touched
  /\ sweep' = sweep + 1
  /\ stage' = IF sweep' = Config.sweeps THEN "arena" ELSE "collide"
  /\ UNCHANGED <<contacts, charges, scores, substep, intents, commands, entry, events, tick,
                 kickoff, spent>>

ResolveArena ==
  /\ stage = "arena"
  /\ bodies' = [id \in Body |-> ArenaResolved(id, bodies[id])]
  /\ contacts' = [id \in Body |-> ArenaContact(id, bodies[id], contacts[id])]
  /\ charges' = [id \in Body |-> Recharged(id, bodies[id], charges[id])]
  /\ LET team == GoalOf(Objective, bodies[Objective].position)
     IN  /\ scores' = [t \in Team |-> IF t = team THEN SaturatingAdd(scores[t]) ELSE scores[t]]
         /\ events' = [events EXCEPT
              !.progress = Wrap(@ + Progress(entry, bodies[Objective], bodies'[Objective])),
              !.scorer   = IF @ = NoTeam THEN team ELSE @]
  /\ spent' = [id \in Body |-> IF contacts'[id].touching THEN [surface |-> 0, air |-> 0] ELSE spent[id]]
  /\ substep' = substep + 1
  /\ stage' = IF substep' = Substeps THEN "report" ELSE "actuate"
  /\ UNCHANGED <<sweep, intents, commands, entry, touched, tick, kickoff>>

Report ==
  /\ stage = "report"
  /\ events' = [events EXCEPT !.touch = TouchOf(touched)]
  /\ tick' = tick + 1
  /\ stage' = "rest"
  /\ intents' = NoOrders /\ commands' = NoOrders
  /\ kickoff' = [bodies |-> bodies, contacts |-> contacts, charges |-> charges]
  /\ UNCHANGED <<bodies, contacts, charges, scores, substep, sweep, entry, touched, spent>>

Next == Latch \/ ApplyActuators \/ Integrate \/ CollideSpheres \/ ResolveArena \/ Report

Spec == Init /\ [][Next]_vars

-----------------------------------------------------------------------------

(* A whole substep from a given world: what the properties compare runs by. *)
World == [bodies |-> bodies, contacts |-> contacts, charges |-> charges]

Driven(world, wanted, given) ==
  [id \in Body |-> Integrated(
    IF id = Objective THEN world.bodies[id]
    ELSE Actuated(world.bodies[id], world.contacts[id], world.charges[id], TeamOf[id],
                  wanted[id], given[id]))]

(* The bodies after each sweep, the first entry being before any. *)
Sweeps(at, seen) ==
  LET Upto[n \in 0 .. Config.sweeps] ==
        IF n = 0 THEN [bodies |-> at, touched |-> seen]
        ELSE Swept(Upto[n - 1].bodies, Upto[n - 1].touched)
  IN  Upto

(* The arena's turn, on bodies that set out from the world. *)
Settled(swept, world, given) ==
  LET Ready(id) == IF id = Objective THEN world.contacts[id]
                   ELSE ContactSpent(world.contacts[id], world.charges[id], given[id])
      Left(id) == IF id = Objective THEN world.charges[id]
                  ELSE ChargeSpent(world.contacts[id], world.charges[id], given[id])
  IN  [bodies   |-> [id \in Body |-> ArenaResolved(id, swept.bodies[id])],
       contacts |-> [id \in Body |-> ArenaContact(id, swept.bodies[id], Released(Ready(id)))],
       charges  |-> [id \in Body |-> Recharged(id, swept.bodies[id], Left(id))],
       touched  |-> swept.touched]

Substep(world, seen, wanted, given) ==
  Settled(Sweeps(Driven(world, wanted, given), seen)[Config.sweeps], world, given)

SecondSubstep(first, wanted, given) == Substep(first, first.touched, wanted, given)
TouchAfter(world, wanted, given) ==
  TouchOf(SecondSubstep(Substep(world, {}, wanted, given), wanted, given).touched)

(* The objective through a substep with nobody else in the arena. *)
Alone(body) == ArenaResolved(Objective, Integrated(body))

(* The world turned half way round about z, the teams exchanged. *)
Squad == Cardinality(Body) \div 2
Counterpart(id) ==
  IF id = Objective THEN id ELSE IF id < Squad THEN id + Squad ELSE id - Squad
TurnedBody(body) ==
  [position |-> Turned(body.position), velocity |-> Turned(body.velocity), spin |-> Turned(body.spin)]
TurnedWorld(world) ==
  [bodies   |-> [id \in Body |-> TurnedBody(world.bodies[Counterpart(id)])],
   contacts |-> [id \in Body |-> [world.contacts[Counterpart(id)] EXCEPT !.normal = Turned(@)]],
   charges  |-> [id \in Body |-> world.charges[Counterpart(id)]]]
TurnedIntents(wanted) ==
  [id \in Body |-> [position |-> Turned(wanted[Counterpart(id)].position),
                    spin     |-> Turned(wanted[Counterpart(id)].spin)]]
TurnedCommands(given) == [id \in Body |-> given[Counterpart(id)]]
TurnedTouch(touch) == IF touch = "zero" THEN "one" ELSE IF touch = "one" THEN "zero" ELSE touch

-----------------------------------------------------------------------------

(* Bodies that keep well within the word. *)
Place == [x : -Room .. Room, y : -Room .. Room, z : -Room .. Room]
Roomy(at) == at \in [Body -> [position : Place, velocity : Place, spin : Place]]

(* No coordinate gets near the end of the word, so that no sum wraps and   *)
(* no product or quotient panics, and the objective never gets so far out  *)
(* that a tick's travel would not fit.                                     *)
TypeOK ==
  /\ Roomy(bodies)
  /\ contacts \in [Body -> [touching : BOOLEAN, normal : Vector]]
  /\ charges \in [Body -> [surface : BOOLEAN, air : BOOLEAN]]
  /\ scores \in [Team -> 0 .. ScoreLimit]
  /\ stage \in {"rest", "actuate", "integrate", "collide", "arena", "report"}
  /\ substep \in 0 .. Substeps /\ sweep \in 0 .. Config.sweeps
  /\ touched \subseteq Team
  /\ events \in [scorer : Team \cup {NoTeam}, progress : Word,
                 touch : Team \cup {"none", "contested"}]
  /\ 4 * AbsOf(bodies[Objective].position.x) < WordLimit

(* Between two contacts with the arena a body acts once off the surface    *)
(* and once in the air, through every substep of its flight and whatever   *)
(* is commanded, and its charges say what is left (apply_actuators,        *)
(* integrate and resolve_body_arena together).                             *)
ChargeLedger ==
  \A id \in Body :
    /\ spent[id].surface = (IF charges[id].surface THEN 0 ELSE 1)
    /\ spent[id].air = (IF charges[id].air THEN 0 ELSE 1)

(* Whoever touches the arena has its surface action, and nobody who left   *)
(* the ground in this substep still counts as touching while pairs are     *)
(* resolved: a second impulse off a surface needs a second contact.        *)
ContactCarriesCharge ==
  \A id \in Body :
    /\ contacts[id].touching => charges[id].surface
    /\ stage \in {"collide", "arena"} => ~contacts[id].touching

(* Between the walls; the objective also inside a goal mouth, between its  *)
(* posts, under its bar and short of the line that would have been a goal. *)
Inside(id, at) ==
  /\ at.z \in Radius .. Arena.height - Radius
  /\ AbsOf(at.y) <= Arena.halfWidth - Radius
  /\ \/ AbsOf(at.x) <= Arena.halfLength - Radius
     \/ /\ id = Objective
        /\ AbsOf(at.x) <= Arena.halfLength + Radius
        /\ AbsOf(at.y) <= Arena.goalHalfWidth
        /\ at.z <= Arena.goalHeight

(* After a substep nobody is outside the walls, sweeps that push bodies    *)
(* through them and several walls at once included (resolve_body_arena).   *)
Contained ==
  stage \in {"rest", "actuate", "report"} => \A id \in Body : Inside(id, bodies[id].position)

(* As in Arena::default and World::new: the squads are alike and the       *)
(* objective is last, a sphere fits between the walls and under a bar, a   *)
(* tick's worth of the ball's way along the arena fits the word, and a     *)
(* kickoff is inside, its normals no longer than one.                      *)
ASSUME BodiesAssumption ==
  /\ IsFiniteSet(Body)
  /\ TeamOf = [id \in 0 .. 2 * Squad |->
                 IF id < Squad THEN "zero" ELSE IF id < 2 * Squad THEN "one" ELSE "none"]
ASSUME ArenaAssumption ==
  /\ Radius \in Nat
  /\ \A extent \in {"halfLength", "halfWidth", "height", "goalHalfWidth", "goalHeight"} :
       Arena[extent] \in Nat
  /\ Radius <= Arena.halfLength /\ Radius <= Arena.halfWidth
  /\ 2 * Radius <= Arena.height /\ Radius <= Arena.goalHeight
  /\ 4 * (Arena.halfLength + Radius) < WordLimit
UnitPlace == [x : -One .. One, y : -One .. One, z : -One .. One]
ASSUME KickoffAssumption ==
  \A start \in Kickoffs :
    /\ DOMAIN start.bodies = Body
    /\ start.contacts \in [Body -> [touching : BOOLEAN, normal : UnitPlace]]
    /\ \A id \in Body : Inside(id, start.bodies[id].position)

(* Scores are u16 (World). *)
ASSUME ScoresAssumption == ScoreLimit \in Nat /\ Standing \in [Team -> 0 .. ScoreLimit]

(* As in PhysicsConfig::default: shares are no more than one, and what is  *)
(* added to a speed in a substep leaves it within the word.                *)
ASSUME SettingsAssumption ==
  /\ \A share \in {"drag", "retention", "traction", "gain", "restitution"} : Config[share] \in 0 .. One
  /\ \A push \in {"gravity", "jump", "boost", "air"} : Config[push] \in 0 .. Room
  /\ Dt \in 0 .. One /\ Config.cap \in Nat /\ Config.magnus \in Nat /\ Config.sweeps \in Nat
  /\ Room \in Nat /\ One <= Room /\ 64 * Room <= WordLimit
  /\ 192 * Config.magnus * Room * Room <= One * One * WordLimit
ASSUME OrdersAssumption ==
  /\ Intents \subseteq [Body -> [position : Place, spin : Place]]
  /\ \A given \in Commands, id \in Body :
       /\ {given[id].jump, given[id].boost, given[id].cue} \subseteq BOOLEAN
       /\ given[id].residual \in Place
       /\ given[id].hit[1] \in -Room .. Room /\ given[id].hit[2] \in -Room .. Room

(* A tick that reports no touch leaves the ball where it would be had the  *)
(* players not been there: whatever moves the ball is reported, overlaps   *)
(* without approach and later sweeps included (collide_spheres).           *)
UntouchedFliesAlone ==
  (stage = "report" /\ touched = {}) =>
    bodies[Objective] = Alone(Alone(kickoff.bodies[Objective]))

SameWorld(one, other) ==
  one.bodies = other.bodies /\ one.contacts = other.contacts /\ one.charges = other.charges

(* Turned half way round and with the teams exchanged, a substep is the    *)
(* same substep, and who touched the objective in it is the other team     *)
(* ("The arena is symmetric under a half turn", graph-v0).                 *)
(* Three places where the code has an absolute answer are left out: a body *)
(* whose command frame needs the spare axis, a pair that coincides, and a  *)
(* sweep of several overlapping pairs, which are taken in canonical order, *)
(* a pair that another one's parting pushes together included.             *)
Overlapping(at) == {i \in DOMAIN Pairs : Overlaps(at, Pairs[i])}
Met(at) ==
  Overlapping(at) \cup UNION {Overlapping(Separated(at, Pairs[i])) : i \in Overlapping(at)}
Orderly(at) ==
  /\ \A i, j \in Met(at) : i = j
  /\ \A i \in Overlapping(at) : Gap(at, Pairs[i]) # 0
Untangled(swept) ==
  \A n \in 0 .. Config.sweeps :
    Roomy(swept[n].bodies) /\ (n < Config.sweeps => Orderly(swept[n].bodies))
Framed ==
  \A id \in Body \ {Objective} :
    LET normal == contacts[id].normal
    IN  Normalized(Cross(normal, Forward(bodies[id], normal, TeamOf[id], intents[id]))) # Zero
HalfTurnFair ==
  (stage = "actuate" /\ Framed /\ Untangled(Sweeps(Driven(World, intents, commands), {}))) =>
    LET after  == Substep(World, {}, intents, commands)
        turned == Substep(TurnedWorld(World), {}, TurnedIntents(intents), TurnedCommands(commands))
    IN  /\ SameWorld(TurnedWorld(after), turned)
        /\ turned.touched = {TurnedTouch(team) : team \in after.touched}

(* What the match sees of the ball is a track: rolls whose progress is the *)
(* way rolled, and goals from beyond a line.                               *)
SettledX == IF stage \in {"rest", "actuate", "report"} THEN bodies[Objective].position.x ELSE entry
Track == INSTANCE BallTrack WITH
  x <- SettledX, progress <- events.progress, scorer <- events.scorer, scores <- scores,
  GoalLine <- Arena.halfLength + Radius
ImplementsTrack == Track!Spec

(* "A tick in which bodies from both teams touch the game ball records a   *)
(* neutral touch, never a canonical-index tie-break" (GAME_TICK.md): who   *)
(* has the low indices does not matter to who is said to have touched.     *)
NoIndexTieBreak ==
  stage = "report" =>
    TouchAfter(TurnedWorld(kickoff), TurnedIntents(intents), TurnedCommands(commands)) =
      TurnedTouch(TouchOf(touched))

=============================================================================
