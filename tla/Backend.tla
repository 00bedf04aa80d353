------------------------------ MODULE Backend ------------------------------
(***************************************************************************)
(* The learned controller behind the match: ZoomieBackend of               *)
(* zoomieball-controller, as operators from one backend state to the next. *)
(* A backend owns three populations (fielders, goalies, coaches) and the   *)
(* transients around them.  act pulses due coaches, publishes what they    *)
(* say, then pulses bodies; learn gates and reinforces every population;   *)
(* checkpoint and restore carry the whole of it through an envelope of     *)
(* cells; two witnesses fold it.                                           *)
(*                                                                         *)
(* What a population computes is another package's business (zoomie_pop):  *)
(* a member is opaque, and the constant operators below are all that is    *)
(* known of it.  The members a team has in a role see alike inputs and     *)
(* fare alike, so one member stands for them.  A cell of the envelope is a *)
(* field of the code's byte layout.                                        *)
(***************************************************************************)
EXTENDS Integers, Sequences

CONSTANTS
  Seeded(_, _),           \* role, seed: the member a fresh population holds
  Pulsed(_, _, _, _),     \* rule, member, input, tick: the member after a step
  Reinforced(_, _, _, _), \* rule, member, gate, tick: the member after a learn pass
  Spoken(_),              \* a member's output lanes
  Unit,                   \* ONE, the bound a gate is clamped to
  CoachInterval           \* body ticks between two coach pulses (4)

Team == {"zero", "one"}
Role == {"fielders", "goalies", "coaches"}
BodyRole == {"fielders", "goalies"}

(* Registration order: the persisted architecture identities and the order *)
(* the witnesses fold in.                                                  *)
Roles == <<"fielders", "goalies", "coaches">>

Quiet == 0

(* A member as it is stored: inference is its weights and node states,     *)
(* credit its anchors, eligibility and credit age.  Every stored word is   *)
(* one or the other (witness.rs: a total partition).                       *)
Stored(member) == [inference |-> member.inference, credit |-> member.credit]

-----------------------------------------------------------------------------

(* ZoomieBackend::new.  The wiring of a population (spec) and its members  *)
(* grow from the seed; rule is the exploratory learning rule's dials.      *)
NewBackend(roster, seed, rule) ==
  [header      |-> roster,
   pools       |-> [role \in Role |->
                      [spec    |-> seed,
                       rule    |-> rule,
                       members |-> [team \in Team |-> Stored(Seeded(role, seed))]]],
   mailboxes   |-> [team \in Team |-> Quiet],
   edgeLogits  |-> [team \in Team |-> Quiet],
   teamRewards |-> [team \in Team |-> 0],
   nextTick    |-> 0,
   bodyPulses  |-> 0,
   coachPulses |-> 0,
   learnPasses |-> 0]

(* One scheduled step of a population, one input column per team. *)
StepPool(pool, inputs, tick) ==
  [pool EXCEPT !.members =
     [team \in Team |-> Stored(Pulsed(pool.rule, pool.members[team], inputs[team], tick))]]

(* Coaches count pulses, bodies count ticks. *)
CoachTick(tick) == tick \div CoachInterval

(* encode_coaches: step the coaches over the senses and the latest team    *)
(* rewards, then fan mailboxes and edge logits back out per team.          *)
ActCoaches(backend, request) ==
  LET inputs  == [team \in Team |-> <<request.senses[team], backend.teamRewards[team]>>]
      coaches == StepPool(backend.pools["coaches"], inputs, CoachTick(request.tick))
      spoken  == [team \in Team |-> Spoken(coaches.members[team])]
  IN  [backend EXCEPT !.pools["coaches"] = coaches,
                      !.mailboxes = [team \in Team |-> spoken[team].mail],
                      !.edgeLogits = [team \in Team |-> spoken[team].logits],
                      !.coachPulses = @ + 1]

(* Mutant: the resume cursor names the tick just driven. *)
CursorAtTick(tick) == tick

(* The resume cursor follows the driver's tick, not the pulse count. *)
CursorAfter(tick) == tick + 1

(* encode_bodies, fielders and goalies alike: every body reads its squad's *)
(* mailbox as it stands.                                                   *)
ActBodies(backend, request) ==
  LET inputs == [team \in Team |-> <<request.senses[team], backend.mailboxes[team]>>]
  IN  [backend EXCEPT
         !.pools = [role \in Role |->
                      IF role \in BodyRole
                      THEN StepPool(backend.pools[role], inputs, request.tick)
                      ELSE backend.pools[role]],
         !.bodyPulses = @ + 1,
         !.nextTick = CursorAfter(request.tick)]

(* Mutant: bodies read before the same tick's coaches publish. *)
ActBodiesFirst(backend, request) ==
  LET acted == ActBodies(backend, request)
  IN  IF request.coachDue THEN ActCoaches(acted, request) ELSE acted

(* act: coaches publish before the same tick's bodies read. *)
Act(backend, request) ==
  ActBodies(IF request.coachDue THEN ActCoaches(backend, request) ELSE backend, request)

(* What act answers with: each body population's decoded output lanes. *)
Commands(backend) ==
  [role \in BodyRole |-> [team \in Team |-> Spoken(backend.pools[role].members[team])]]

Clamp(value) == IF value > Unit THEN Unit ELSE IF value < -Unit THEN -Unit ELSE value

(* learn: every body of a team holds the same reward, so a body's gate and *)
(* its team's average are one clamped value.  The next coach pulse reads   *)
(* the average; the gates are cleared before the pass returns.             *)
Learn(backend, tick, rewards) ==
  LET gate == [team \in Team |-> Clamp(rewards[team])]
      env(role) == IF role = "coaches" THEN CoachTick(tick) ELSE tick
      learned(role) ==
        [backend.pools[role] EXCEPT !.members =
           [team \in Team |-> Stored(Reinforced(backend.pools[role].rule,
                                                backend.pools[role].members[team],
                                                gate[team], env(role)))]]
  IN  [backend EXCEPT !.pools = [role \in Role |-> learned(role)],
                      !.teamRewards = gate,
                      !.learnPasses = @ + 1]

-----------------------------------------------------------------------------

(* The checkpoint envelope. *)

Cell(kind, value) == [kind |-> kind, value |-> value]
Magic == "ZBCT"

Architecture(backend, position) ==
  Cell("architecture", [id |-> position, pool |-> backend.pools[Roles[position]]])

(* encode_live: the resume cursor, then the populations in order. *)
Payload(backend) ==
  <<Cell("cursor", backend.nextTick)>> \o
  [position \in 1 .. 3 |-> Architecture(backend, position)]

TeamTransients(backend, team) ==
  <<Cell("word", backend.mailboxes[team]),
    Cell("word", backend.edgeLogits[team]),
    Cell("word", backend.teamRewards[team])>>

(* Mutant: two counters written in the other order. *)
TransientsTransposed(backend) ==
  TeamTransients(backend, "zero") \o TeamTransients(backend, "one") \o
  <<Cell("word", backend.bodyPulses),
    Cell("word", backend.learnPasses),
    Cell("word", backend.coachPulses)>>

Transients(backend) ==
  TeamTransients(backend, "zero") \o TeamTransients(backend, "one") \o
  <<Cell("word", backend.bodyPulses),
    Cell("word", backend.coachPulses),
    Cell("word", backend.learnPasses)>>

TailLength == 9
PayloadOffset == 3

Checkpoint(backend) ==
  <<Cell("magic", Magic), Cell("header", backend.header),
    Cell("length", Len(Payload(backend)))>> \o Payload(backend) \o Transients(backend)

-----------------------------------------------------------------------------

PayloadEnd(cells) == PayloadOffset + cells[PayloadOffset].value
PackOf(cells) == SubSeq(cells, PayloadOffset + 1, PayloadEnd(cells))
TailOf(cells) == SubSeq(cells, PayloadEnd(cells) + 1, Len(cells))

(* decode_live takes exactly one pack and rejects a short or a long one. *)
DecodesLive(pack) ==
  /\ Len(pack) = 4
  /\ pack[1].kind = "cursor"
  /\ \A position \in 2 .. 4 : pack[position].kind = "architecture"

(* restore_pools: identities and topologies in persisted order.  The rule  *)
(* is not compared.                                                        *)
PoolsFit(backend, pack) ==
  \A position \in 1 .. 3 :
    LET architecture == pack[position + 1].value
    IN  /\ architecture.id = position
        /\ architecture.pool.spec = backend.pools[Roles[position]].spec

(* Mutant: what follows the last word goes unnoticed. *)
RestoreErrorUnfinished(backend, cells) ==
  IF Len(cells) < 2 \/ cells[1] # Cell("magic", Magic) THEN "Malformed"
  ELSE IF cells[2] # Cell("header", backend.header) THEN "AbiMismatch"
  ELSE IF Len(cells) < PayloadOffset \/ Len(cells) < PayloadEnd(cells) THEN "Malformed"
  ELSE IF ~DecodesLive(PackOf(cells)) \/ ~PoolsFit(backend, PackOf(cells)) THEN "Payload"
  ELSE IF Len(TailOf(cells)) < TailLength THEN "Malformed"
  ELSE "none"

(* The first check of restore that fails, in the code's order. *)
RestoreError(backend, cells) ==
  IF Len(cells) < 2 \/ cells[1] # Cell("magic", Magic) THEN "Malformed"
  ELSE IF cells[2] # Cell("header", backend.header) THEN "AbiMismatch"
  ELSE IF Len(cells) < PayloadOffset \/ Len(cells) < PayloadEnd(cells) THEN "Malformed"
  ELSE IF ~DecodesLive(PackOf(cells)) \/ ~PoolsFit(backend, PackOf(cells)) THEN "Payload"
  ELSE IF Len(TailOf(cells)) # TailLength THEN "Malformed"
  ELSE "none"

PositionOf(role) == CHOOSE position \in 1 .. 3 : Roles[position] = role

(* Mutant: the incumbent's learning rule survives the restore. *)
RestoredPoolKeepingRule(backend, pack, role) ==
  [pack[PositionOf(role) + 1].value.pool EXCEPT !.rule = backend.pools[role].rule]

(* A population comes back with the learning rule it was written with. *)
RestoredPool(backend, pack, role) == pack[PositionOf(role) + 1].value.pool

(* The backend an accepted envelope describes. *)
Described(backend, cells) ==
  LET pack == PackOf(cells)
      tail == TailOf(cells)
      lane(offset) == [team \in Team |-> tail[offset + (IF team = "zero" THEN 0 ELSE 3)].value]
  IN  [header      |-> backend.header,
       pools       |-> [role \in Role |-> RestoredPool(backend, pack, role)],
       mailboxes   |-> lane(1),
       edgeLogits  |-> lane(2),
       teamRewards |-> lane(3),
       nextTick    |-> pack[1].value,
       bodyPulses  |-> tail[7].value,
       coachPulses |-> tail[8].value,
       learnPasses |-> tail[9].value]

(* Mutant: populations are replaced as they are read, before the tail is. *)
RestoreAsItReads(backend, cells) ==
  IF RestoreError(backend, cells) = "none" THEN Described(backend, cells)
  ELSE IF /\ Len(cells) >= PayloadOffset
          /\ Len(cells) >= PayloadEnd(cells)
          /\ cells[2] = Cell("header", backend.header)
          /\ DecodesLive(PackOf(cells))
          /\ PoolsFit(backend, PackOf(cells))
       THEN [backend EXCEPT !.pools =
               [role \in Role |-> RestoredPool(backend, PackOf(cells), role)]]
       ELSE backend

(* restore: everything is decoded and compared before anything is assigned. *)
Restore(backend, cells) ==
  IF RestoreError(backend, cells) = "none" THEN Described(backend, cells) ELSE backend

-----------------------------------------------------------------------------

(* controller_witness and learning_witness, as the words they fold: an     *)
(* ideal fold is one that never collides.                                  *)
ControllerWitness(backend) ==
  <<[role \in Role |-> [team \in Team |-> backend.pools[role].members[team].inference]],
    backend.mailboxes, backend.edgeLogits>>

(* Mutant: the learning witness leaves out what coaches read back. *)
LearningWitnessWithoutRewards(backend) ==
  <<[role \in Role |-> [team \in Team |-> backend.pools[role].members[team].credit]],
    [role \in Role |-> backend.pools[role].rule], backend.learnPasses>>

LearningWitness(backend) ==
  <<[role \in Role |-> [team \in Team |-> backend.pools[role].members[team].credit]],
    [role \in Role |-> backend.pools[role].rule],
    backend.teamRewards, backend.learnPasses>>

=============================================================================
