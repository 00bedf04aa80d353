# A verification model of zoomieball

Zoomieball is a deterministic physical ball game: two teams of 10 or 100 bodies
play on a walled pitch, steered by a playbook (a small graph of plays) and by a
learned controller. There is one thread and no I/O inside a match, so what is
hard here is not interleaving threads. It is a long-lived state machine driven at
three rates (physics twice a tick, bodies every tick, coaches every fourth, learning
every `learning_interval`), whose parts latch each other's results across those
rates, and whose controller must survive a checkpoint to the last word.

All paths below are relative to the repository root, and `core/` and
`controller/` stand for `crates/zoomieball-core/src/` and
`crates/zoomieball-controller/src/`.

## Inventory

| Component | State it keeps | Operations | Interacts with |
|---|---|---|---|
| Play graph (`core/playbook/mod.rs`, `scan.rs`) | none: nodes, ports, gates are immutable | `next_cursor`, `port_fires`, `possession`, `traverse` | reads the world, the graph state and the coach's logits |
| Match driver (`core/pipeline.rs`) | world, cursors, graph state, pending override, commands, rewards | `tick`, `select_play_node`, `traverse_play` | calls every part below, in a fixed order |
| Controller backend (`controller/backend.rs`, `checkpoint.rs`, `witness.rs`, `pool.rs`) | three populations, mailboxes, edge logits, team rewards, three counters, resume cursor | `act`, `learn`, `checkpoint`, `restore`, two witnesses | driven by the match; `edge_logits` is read by the next scan |
| Physics (`core/physics.rs`) | mutates the world | `step`: two substeps of actuators, integration, collisions, arena | returns progress, scorer and touch to the driver |
| World (`core/world.rs`) | tick, scores, body arrays, charges, contacts | constructors, hashes | owned by the match |
| Verb solver (`core/playbook/solve.rs`) | none | `resolve`: intents from the cursors' nodes | writes the intents physics steers by |
| Playbook compiler (`core/playbook/ron.rs`) | none | `compile_ron` | guarantees what traversal relies on |
| Perception (`core/perception.rs`) | a per-tick spatial index | `build`, `rebuild`, `occluded` | feeds the encoders |
| Encoders (`controller/encode/`) | input columns, rewritten on every pulse | `encode_coaches`, `encode_bodies` | read and write the backend's publications |
| Fixed point and hashes (`core/fixed.rs`, `hash.rs`) | none | Q16.16 arithmetic, FNV folds | everything |
| Runner and presentation (`zoomieball-headless`, `-render`, `-gpu`, `-web`, `bevy-zoomieball`) | none that the match reads | argument parsing, packing, scaffolds | around `Match::tick` |

What makes each correct:

- *Driver.* The player's override replaces the scan of one cursor and nothing
  else; the node-entry clock restarts on a move and only then, or `Elapsed` ports
  starve; a coach's pulse moves a team at most once, out of the node it was
  published for; the touch pair answers possession for both teams; every unit of
  ball motion and every goal is rewarded once and cleared once.
- *Backend.* Coaches publish before the same tick's bodies read; a checkpoint holds
  everything a later pulse reads; restore is all or nothing; the two witnesses
  together decide what the backend does next.
- *Physics.* Whatever moves the ball is a reported touch; one air cue and one
  surface action between contacts; nobody ends a substep outside the field; both
  sides of the pitch are treated alike; a goal's reposition is not progress.
- *Verb solver.* One authored play means one thing for either team; bodies are sent
  after this tick's squads; ordinals of a squad are distinct and so are their slots.
- *Perception.* The index holds this tick's bodies only; the grid
  walk ends, and sees what brute force sees.
- *Arithmetic and compiler.* Rounding is toward zero and favours no sign; square roots are
  floors; literals become the nearest word; accepted forms cannot leave the word; the
  compiler accepts only graphs that traversal cannot leave.

`PROJECT.json` lists the hazards one by one, at the line where each bites.

## Modules

| Module | Models | Notes |
|---|---|---|
| `PlayGraph` | nodes, the eight triggers, the possession window, the first-true-port scan | operators over a constant `Playbook`; no state |
| `MatchTick` | `Match<B>`: `select_play_node`, `traverse_play`, `tick` | the core state machine |
| `AskedPath` | the player's selections and ports between two ticks, remembered as a walk | EXTENDS `MatchTick` with history |
| `PlayClock` | what the play graph promises its teams, in spans of time alone | abstract; `MatchTick` implements it |
| `MatchTickProofs` | theorems about the four | for TLAPS |
| `MCMatchTick` | three small playbooks and input sets | for TLC; `MCAskedPath` is the same over `AskedPath` |
| `Backend` | `ZoomieBackend` as operators from state to state | `Act`, `Learn`, `Checkpoint`, `Restore`, both witnesses |
| `Session` | a live backend, its envelope, and a second backend restored from it | EXTENDS `Backend` |
| `SessionProofs` | theorems about both | for TLAPS |
| `MCSession` | a two-digit population | for TLC |
| `WitnessTwins`, `MCWitnessTwins` | two instances of `MatchTick` compared through `fold_hashes` | for one finding |
| `NaturalLemmas` | least elements, induction and recursion over the naturals, quotients | lemmas for TLAPS |
| `FixedPoint` | `core/fixed.rs`: scalars and vectors over raw words | operators; the base of those below |
| `FixedPointProofs` | roots, signs, cubes, what commutes with the half turn | lemmas for TLAPS |
| `Formation`, `Sheet` | squads, ordinals, form frames and slots; `parse_fixed` and the bounds on forms | operators |
| `ArithmeticRange`, `ArithmeticProofs` | a walk over the operands of the three modules above | the pure properties |
| `Solver`, `MCSolver`, `SolverProofs` | `Playbook::resolve` over moving bodies and cursors | EXTENDS `Formation` |
| `SpatialIndex`, `Sight`, `MCSight`, `SightProofs` | the grid, and the observation build that walks it | `SpatialIndex` is operators |
| `Physics`, `MCPhysics`, `PhysicsProofs` | `physics::step`, stage by stage | state machine |
| `BallTrack` | what a step promises the match of the ball along X | abstract; `Physics` implements it |

```
PlayGraph <- MatchTick <- WitnessTwins          FixedPoint <- Formation <- Sheet <- ArithmeticRange
                                                     ^             ^
              |  +--(refines)--> PlayClock           |             +------ Solver
              +- AskedPath                           |
Backend <- Session                                   +-- SpatialIndex <- Sight
                                                     +-- Physics --(refines)--> BallTrack
```

The composition with the driver is by contract: `MatchTick.PhysicsStep` is a ball that
moves between the goal lines, scores beyond them, returns to the centre and reports
progress less that return. `BallTrack` states that contract, and `Physics`
is shown to keep it with the code's arithmetic, contacts and walls.

### MatchTick

| Variable | Code |
|---|---|
| `world` | `World`: `tick`, `scores`, and the game ball's x and z |
| `cursors` | `Match::cursors` |
| `graphState` | `Match::graph_state` (`entered`, `touched`, `toucher`) |
| `pendingPlayNode` | `Match::pending_play_node` |
| `edgeLogits` | what `ControllerBackend::edge_logits` answers |
| `rewards` | `Match::rewards`, one entry per team: every body of a team is given the same terms |
| `pulse`, `paid`, `touchedAt`, `movedAt` | history variables; nothing reads them but properties |

`Tick` is the whole of `Match::tick`. Both cursors are scanned from the state
before the tick, so `cursors'` and `graphState'` come from one operator each; the
coach then pulses over the cursors just entered, physics moves the ball, rewards
accumulate, the touch is latched with this tick's number, the clock advances and
learning runs against the advanced clock. `NextEntered` is `enter`. Perception and
the verb solver keep no state a later tick reads and are left out.

`AskedPath` adds two history variables, `walked` and `followed`: the nodes and ports of the walk
the player asked for since the last tick. Its actions are `MatchTick`'s, told apart by
whether a node was queued when the command came.

The ball lives on cells `-GoalLine + 1 .. GoalLine - 1`. `PhysicsStep` is the loop of
`physics::step`: in each of two substeps the ball is pushed by at most a cell, and
reaching `GoalLine` is a goal, with a saturating score and a return to the centre that is
not progress; progress sums over both substeps and the first scorer names the goal.
Which pushes, which height, who touches and what a coach says are chosen
nondeterministically. `GoalLine` is more than one cell: a ball on the centre
spot is further from a goal line than one substep carries it (at the default
speed cap of 20 a substep moves it by a sixth of a unit, half a pitch is 16). This is what
makes a second goal in one tick impossible, and the ledgers depend on it: the code
would count both goals and pay one.

`PlayClock` is the graph as a coach of either team may think of it. Its state is the two nodes, how long
each team has dwelt in its own, who holds the ball and for how long yet, and the phase of
the coach's schedule; there is no clock, no touch tick and no entry tick. A team follows an edge that is ready, past
no edge that is certain (`Always`, an `Elapsed` that has elapsed, a `Possession` that matches), or is sent somewhere by
the player; the ball, the score and the coach's answers are left open. `ImplementsPlayClock` maps entry and
touch ticks to ages. An entry clock restarted by a self-loop, a window one tick too long or a
coach edge off its tick is a step `PlayClock` does not have. What it leaves open is the player's own cursor
(sent, it may go anywhere) and who touched the ball, which `PossessionAgrees` settles.

### Backend and Session

A backend is a record with the fields of `ZoomieBackend`. A population is a wiring
(`spec`), a learning rule and its members; one member per role and team stands for
all the members of that role and team. How a member is seeded, pulsed, reinforced
and read out belongs to `zoomie_pop`, outside this repository: these are constant
operators, so nothing is assumed of them beyond being functions of their arguments.
The envelope is a sequence of cells, one per field of the layout table of
`controller/checkpoint.rs`; `RestoreError` gives the first check that fails, in the
order of `restore`. What `decode_live` (also external) is known to do is to accept
exactly one pack and neither a short nor a long one.

`Session` drives a backend as `Match::tick` does, writes an envelope at any tick
boundary, damages it, and restores it into a spare with a past, a seed and
a rule of its own. The senses of a tick and the rewards of a learning pass come
from the driver; a journal gives the spare what the live backend met since the
envelope was written. `trail` is a history of what the live backend was after each
of those ticks, which `ResumeIsExact` holds the spare to.

The envelope carries the *controller*. A match's graph state, world and standing
rewards are not in it, which `docs/controller-abi.md` and `core`'s `TODO.md` name as
owed, so `ResumeIsExact` is a statement about the backend, with the learning batch
supplied by the driver. The last section of the envelope has no redundancy: a changed word there
is accepted as a different state. `RestoreIsAllOrNothing` covers these envelopes
too; `DamageIsCaught` leaves them out.

### FixedPoint, Formation, Sheet

Numbers are raw words. `One` and `WordLimit` are parameters, 65536 and 2^31 in the code:
a small `One` leaves every rounding where it is and makes it large. Where the code
panics because a product or quotient does not fit the word, the operator answers
the exact value, which is then no `Word`, and a type invariant that asks for words
says that the panic is out of reach. Additions wrap as the code's do.

`Formation` has the two closed forms a body's place comes from (`squad_ordinal` from the
tables of `compile_node`, and `form_slot`). `Sheet` is what the compiler does with numbers:
`parse_fixed` takes the parts of a literal (sign, whole, numerator, digits of
fraction) rather than its characters.

### Solver

| Variable | Code |
|---|---|
| `playbook` | the loaded `Playbook`, which no action changes |
| `positions`, `squads` | the columns of `World` that `resolve` reads and writes |
| `cursors` | the nodes resolved for |
| `intents` | the `OracleIntentBatch`, `Unresolved` until it is written |

`Resolve` is `Playbook::resolve`, both passes: squads are assigned over the whole roster, the
anchors are built from them, then each body's entry is resolved. `Motion` is the
rest of a tick: a body or a cursor is elsewhere.

### Sight

| Variable | Code |
|---|---|
| `grid` | `SpatialIndex`: counts, prefix sums, members, kept from tick to tick |
| `observer`, `target`, `walk` | the two loops of `build_internal` and the locals of `occluded` |
| `offsets`, `rays` | the `ObservationBatch` |
| `hidden` | history: pairs whose walk found a blocker |

One action per step of the build: the rebuild, a walk's start, each boundary
crossing, its two ends, the ray, the closing of an observer's range with the environment
rays. `Move` leaves one body elsewhere for the next rebuild.

### Physics and BallTrack

| Variable | Code |
|---|---|
| `bodies` | `positions`, `velocities`, `spins` of `World` |
| `contacts`, `charges` | `World::contacts`, `World::charges` |
| `scores` | `World::scores` |
| `stage`, `substep`, `sweep` | where in `step`'s loops the next call is |
| `entry`, `touched`, `events` | locals of `step`: `entry_x`, `touched`, `PhysicsEvents` |
| `intents`, `commands` | its arguments |
| `kickoff`, `spent` | history: the tick's first state, actions since the last arena contact |

Each function `step` calls is one action, so properties can speak of what holds between
them. A collision sweep visits pairs in canonical order, each against what the pairs
before it left. `Config.sweeps` may be zero, as the `u8` the code loops over may; integration
is then followed by the arena. The refinement `ImplementsTrack` maps a substep to one step of
`BallTrack`: until the arena is resolved the abstract ball is where the substep began.

## Runs

| Run | Shows |
|---|---|
| `match_graph` | `TypeOK`; `DwellBounded`: a team that plays by the graph alone never outstays an `Elapsed` port that no earlier port shadows; `OpponentReachable`: the player's overrides never reach the other cursor |
| `match_coach` | `AskedPathIsTaken`: selections and ports compose between ticks, each port leads out of the node the command before it came to, and the tick latches the walk's end; `CoachMoveIsEarned`: a move that only coach edges explain comes one tick after its own coach's pulse, from the node the pulse was published for |
| `match_possession` | `PossessionAgrees`: the latched pair means what two per-team touch clocks would, contested touches included; `ImplementsPlayClock`: refinement, under overrides, touches and pulses |
| `match_rewards` | `ProgressLedger`, `EventLedger`: rewards learned from plus rewards standing equal what the pitch and the score say; `AccumulatorWindow`: nothing of an earlier window is left |
| `session_resume` | `ResumeIsExact`; `StaleMailIsUnheard`: on a tick that pulses coaches, bodies hear what that tick published and nothing older; `RestoreIsAllOrNothing`, `DamageIsCaught`, `CountersTellTheSchedule`, `SessionTypeOK` |
| `session_witness` | `WitnessesDecide`: where both witnesses agree, the two backends command alike on every next tick and still agree after it |
| `witness_twins` | expected to fail, see Findings |
| `arithmetic` | `IsqrtIsFloor`, `DirectionSurvives`: what callers assume of the arithmetic; `TurnsAlike`: it favours no side of the pitch; `OrdinalsCount`: the closed-form ordinal is a count; `SlotsDistinct`; `LiteralsRound`; `AcceptedSlotsFit` |
| `solver` | `AimsAmongSquad`: after the squad of this tick; `HalfTurnSymmetry`: both teams resolve as turned images to the last raw unit; `KeepsItsSide`; `TypeOK`: every intent is a vector of words |
| `sight` | `WalkFindsOccluders`: the walk's verdict is the brute-force oracle's; `BucketsFresh`; `HiddenBehindSeen`: nobody is hidden by nobody seen; `StepComesNearer`: the variant of a walk; `WalkEnds`: liveness |
| `physics` | `ChargeLedger`; `Contained`; `UntouchedFliesAlone`: what no touch is reported for flew alone; `HalfTurnFair`; `ImplementsTrack`: refinement |
| `physics_touch` | expected to fail, see Findings |

Every property has a mutant: a second definition beside the modelled one, written
as a plausible bug (a dropped guard, a swapped pair, a missing reset), under which
the same run finds the property violated.

### Bounds

- `MaxTick` (`match_*`, 7 to 11) covers one whole coach period and the tick that
  spends its pulse, two learning windows, an escape of three ticks entered after a
  detour, and a possession window that opens, expires and opens again.
- `PortCount` is 3 for the code's 8: the scan only compares positions.
  `PossessionTicks` is 2 or 3 for 30 and `GoalLine` 2 or 3 for half a pitch: only the
  comparisons at the edge matter.
- Playbooks have three nodes: a chain needs a source, a target and somewhere to be
  driven on to; one node of `PressRecover` is reached by override only.
- `MaxPorts` 2 (`match_coach`): a port out of the cursor's node, out of a selected node, and out
  of a node another port led to.
- `ScoreLimit` (2 or 3) is the `u16` limit. It is reached, and the ledgers are
  stated below it (`Unsaturated`), because past it the code goes on rewarding
  goals that the score no longer counts.
- `LiveTicks` 4 and `SpareTicks` 2 with `CoachInterval` and `LearningInterval` 2:
  every residue of both schedules is a checkpoint boundary and a resume point. The
  witness run lets the spare run ahead of the live backend, so that equal witnesses
  come with different counters.

- `arithmetic`: `One` is 8, so that every residue of a rounding occurs among the scalars
  of `-32 .. 32` and the vectors of `-6 .. 6`; radicands go to 2048. Cycles have up to four of
  three squads against a roster of ten, so that the cycle is cut at every place and the goalie
  takes every squad of it. Literals have up to three digits, and wholes at zero, one and the
  word's end. `FormGapMax` and the roster stand in the code's proportion to the word.
- `solver`: a goalie and two fielders a team; between the two playbooks every verb, target
  and form is in use, squads are filled in some nodes and empty in others, and goalies share a squad.
  Places are in front of a goal, behind one and where means round.
- `sight`: three bodies (two players that observe, and a third body to hide or be hidden) on a
  3 x 2 x 2 grid. Placements put the observer inside a cell, on a face, an edge, a corner and
  off the grid, so that rays cross edges and corners and clamp at the border.
- `physics`: one player a team and the ball, two ticks, so that contacts and charges of one tick
  meet the commands of the next. Settings are scaled, not the code's: gravity and speeds are large
  against the arena, so that four substeps reach walls, posts and goals. Starts are in a
  mouth, past a post, under the bar, at walls, overlapping one another and exactly coincident.
  Three bodies make three pairs, enough for one sweep to undo another.
  `Standing` starts one team at the limit of the score. `Room` (72) holds all the bodies reach, and
  is about as large as `SettingsAssumption` lets it be there.

The bounds are guards of the actions, so a match stops at `MaxTick`; selecting a
node stays possible there. `physics` and `physics_touch` stop after `MaxTick` ticks and
`arithmetic` at the last operand, and say so with `CHECK_DEADLOCK FALSE`; the other
runs are checked for deadlock.

### Fairness

`Sight` assumes `WF_vars(Walk)`: `occluded` is one call on one thread with nothing to wait for,
so a walk that can take a step takes it. Nothing else is assumed fair; the loops around the walk run
over fixed ranges and need no argument. `WalkEnds` is the liveness the code relies
on: its loop has no bound and ends only at the target's cell or a blocker. `StepComesNearer` is why it holds, as a
safety property: a natural number that every step of a walk lowers.

The match itself promises nothing unless the caller ticks. `DwellBounded` is the bounded,
safety form of "an escape hatch is eventually taken", with the clock as the bound.

## What `HalfTurnFair` leaves out

The code gives an absolute answer in three places, and the property is about the rest: a command
frame whose right is degenerate falls back on Y, a pair that coincides parts along X, and
the pairs of a sweep are resolved in canonical order, which only matters when several overlap, or when
parting one pair pushes another together before its turn comes. `Framed` and `Untangled` say so.
Where they hold the touches turn too, so the bias of `physics_touch` below needs a body in two overlaps.
Bodies further out or faster than `Room` are left out too: a sum that wraps at the end of the word need not be
odd, because the lowest word has no negative. The solver needs no such exception: `HalfTurnSymmetry` has none.

## Findings

`witness_twins`. `GAME_TICK.md` line 334 (and `docs/architecture.md` line 88)
describe `TickHash.pipeline` as a fold that includes the graph state.
`Match::fold_hashes` (`core/pipeline.rs` line 267) folds the two cursors, not
`GraphState`. The run shows two matches whose players select the same node on
different ticks: their published witnesses coincide, their entry clocks differ, and
their cursors part when the node's `Elapsed` port comes due for one of them.
The pitch is the same in both because the two nodes of the run's playbook assign bodies
alike and the controller is `IdleController`; a fold that never collides stands
for FNV.

`physics_touch`. `GAME_TICK.md` line 294 says that a tick in which bodies from both teams touch
the ball "records a neutral touch, never a canonical-index tie-break", and the comment on
`collide_spheres` (`core/physics.rs` line 329) that the set of touches does not depend on
how it is built up. The union does not, but what goes into it does: pairs are resolved in index
order, each against the positions the pairs before it left, and a touch is an overlap when its pair
comes up. In the run both players reach the ball from one side in one substep. Team
zero's has the lower index and pushes the ball out of reach of team one's, so the tick
reports team zero alone; turned half way round with the teams exchanged, the same tick
is contested, because the grazing player now comes first. A touch found before any pair is moved would not have this bias.

## What is proved

Of the driver, for every playbook that satisfies `PlaybookAssumption` (what `validate_nodes`
enforces) and every schedule that satisfies `ScheduleAssumption` and `MatchAssumption`:

| Theorem | Argument |
|---|---|
| `TypeCorrect` | `TypeOK` is inductive. Its crux is `ScanStaysInPlaybook`: a first firing port exists whenever one fires, and its edge does not dangle. |
| `EntryClockFollowsCursor` | inductive with `TypeOK`: `enter` restamps a clock on a move and only on one, so it names the move that `movedAt` remembers. |
| `DwellIsBounded` | inductive with `TypeOK` and `EntryClock`, which says that the clock an `Elapsed` port reads is the true dwell. `EscapeIsTaken`: at the last tick the hatch allows, its port fires, so the scan takes it or an earlier port, and no port up to it leads back to the node. |
| `OpponentStaysReachable` | inductive: one scan from a set closed under edges stays in it. |
| `PossessionIsFaithful` | strengthened by `TouchClocks`: no toucher means that both teams' clocks are equal, a toucher means that its clock is the latched tick and the other team's is earlier. |
| `MatchImplementsPlayClock` | initial states map to initial states, selections to stutters and a tick to one step of `PlayClock`, by `TypeOK` and `TouchClocks` (neither age is negative). `ScanFollowsClock`: the first firing port is ready, and the ports before it did not fire, so none of them was certain. `TickMoves`, `TickTouches` and `PhaseSteps` age the spans; the phase is the uniqueness of remainders. |
| `CoachMovesAreEarned` | strengthened by `PulseFresh`: on the one tick a coach edge may fire, the standing publication is one tick old and saw the cursors as they still are. |
| `EventLedgerBalances`, `ProgressLedgerBalances` | inductive with `TypeOK`. `OneGoalPerTick` adds up the two substeps: at most one scores. Once a score is saturated it stays so, and nothing is claimed. |
| `WindowIsCleared` | inductive with `TypeOK`: the phase of the window advances with the clock (`NextTickOfWindow`, from the uniqueness of remainders) while one tick adds at most two units and one goal (`TickEventsBounded`). |
| `PlayerWalksAskedPath` | walks of any length: what is queued is the walk's last node (`AskedInv`), and `WalkGrows` adds an edge to a walk whose edges already lead from node to node. |

Of the controller's backend (`SessionProofs`), for every population, learning rule, seed and pair of
intervals that satisfies `SessionAssumption`:

| Theorem | Argument |
|---|---|
| `ResumeContinues` | the heart is `TrailTold` and `SpareOnTrail`: the trail is what the backend's own operators make of the envelope's state and the journal, and the resumed spare is the entry of the trail it has replayed to. Two steps carry it: `Restore` undoes `Checkpoint` whatever the spare was (every field an act or a learn reads is in the envelope, or is rewritten before it is read), and `Act` and `Learn` are functions of the state and what they are given. |
| `RestoreIsTransactional`, `DamageNeverPasses` | cell by cell over the envelope's layout: each length, header and cursor that could lie is compared before any field is taken. |
| `ScheduleIsTold` | counts of multiples (`CountAtEnds`, `CountAtStarts`): a counter moves exactly where the schedule's quotient does. |
| `WitnessesSuffice` | what the two folds cover determines what the next tick answers and what the folds cover after it. |
| `CoachesAreHeardAtOnce` | `CoachesForgetMail`: a coach pulse rewrites every publication and reads none, so bodies that follow it see none of what stood before. |
| `TypeCorrect` | part of the same invariant, `IInv`. |

Of perception (`SightProofs`), for every grid, number of bodies and placement that `GridAssumption` and
`PlacementAssumption` allow (a radius of at most half a cell, and rays that fit the word). The inductive invariant is
`Sighted`:

| Theorem | Argument |
|---|---|
| `IndexIsFresh` | a counting sort is proved once (`PrefixSums`, `Scattered` as a bijection of the covered pairs with the places); the rebuilt index then says which box covers which cell. |
| `CapacitySuffices` | a rebuild never outgrows what was set aside, and so never reallocates: at most two cells an axis under `2 * Radius <= One`, so eight a body; the sum over bodies by induction. |
| `WalkAgreesWithBruteForce` | the walk's crossings are an integer comparison of products, so where it stands is exactly where the ray is (`OnWay`); a blocker's box then covers a cell the walk has yet to come to (`Ahead`, `PassedNobody`), ties at edges and corners and the clamped border included. The distance from the ray is a Cauchy-Schwarz argument over raw words. |
| `WalkGetsThere` | `SomeAxisCrosses`: short of the end an axis is open, comparing crossings by products is a total and transitive order on open axes (`CrossingsInOrder`), so one of them is first; `AxisComesNearer`: whatever crosses is between its start and its end (`OnWay`) and stays there. |
| `SomebodyIsSeen` | of those that hide a body, the one of least projection is not hidden: hiding shortens it. |
| `TypeCorrect` | the walk never leaves the grid. |

Of the verb solver (`SolverProofs`), for every roster, playbook and pitch that `RosterAssumption`, `NodesAssumption`,
`RoomAssumption` and `LayoutAssumption` allow: places stay in a cube of a sixteenth of the word (2048
units, where half a pitch is 16), and a form displaces by less than twelve of them, which gaps and pods to 100 leave
far off. The inductive invariant is `Settled`:

| Theorem | Argument |
|---|---|
| `TeamsAreAlike` | in cubes that leave the word room every sum is exact, and every operator then commutes with the half turn: sums, means, frames, slots, clamps. Teams differ in the order their bodies are numbered, so ties between nearest bodies need that both fall to the lowest local ID. |
| `AimsAreAmongSquad` | a truncated mean lies between its terms' bounds, for a sum of any length. |
| `SidesAreKept` | signs: normalising and truncated products keep them, standoffs are added on the authored side. |
| `TypeCorrect` | the same cubes, followed through every verb and form. |

Of the physics, for any number of bodies, any settings and any commands (`PhysicsProofs`):

| Theorem | Argument |
|---|---|
| `ContactIsCharged`, `ChargesAreSpentOnce` | together they are inductive and neither is alone: an action off the surface takes contact and charge at once (`ActuatorsKeepAccounts`), and because no contact outlives integration, a body touching after the arena has just been recharged (`ArenaRestoresAccounts`). |
| `TouchesAreReported` | in every stage, if nothing is reported yet then the ball is where it would be alone; a pair that is skipped or does not hold the ball leaves it alone (`PairSparesBall`), by induction over a sweep's pairs. |
| `ArenaAlwaysContains` | one stage restores it whatever the others did: `WallsContain` splits on the mouth, where the end walls do not apply and only the goal line bounds X. It needs `ArenaAssumption` (a sphere fits in the field and the mouth), `KickoffAssumption`, and `[]Roomy(bodies)` as a hypothesis: places, speeds and spins that stay within `Room`. |
| `TypeCorrect` | `TypeOK`, with the same hypothesis, from `Shaped` (no wall's normal is longer than one, contacts, charges, touches and events have their ranges, the ball is never so far out that a tick's travel would not fit the word) and `Counted` (`sweep` never passes `Config.sweeps` nor `substep` the two substeps, whatever the settings; it was this proof that showed the case of zero sweeps). It needs `ScoresAssumption`: scores start within their limit. |
| `SidesAreAlike` | `HalfTurnFair`, also with `[]Roomy(bodies)` as a hypothesis: the turned world ends up turned, and reports the same touches with the teams exchanged. Every operator of a substep commutes with the half turn as long as sums stay exact, which is followed through in cubes of multiples of `Room` (`ActuatedFaces`, `AcceleratedFaces`, `IntegratedFaces`, `ReboundsFace`). Bodies change places in the canonical order as the teams do, so a pair may come up with its bodies swapped: `PairSwaps` (parting is symmetric, since negation and truncation commute) and `PairTurns`, then one pair per sweep (`OrderlySweeps`, `SweepTurns`) and induction over the sweeps (`SweepsTurn`), touches along with places (`TouchersTurn`). The inductive part is `OrdersLatched`: contact normals no longer than one, orders among those given. |
| `BallIsTracked` | the refinement: initial states map to initial states, a substep's arena stage to a roll or a goal of `BallTrack` (`RollOrGoal`) and everything else to a stutter (`TrackStays`). It rests on `Contained` and has the same hypothesis, because a progress that wrapped would not be the way rolled. |

Of the arithmetic (`ArithmeticProofs`), for every `One`, `WordLimit` and reach that the assumptions allow:

| Theorem | Argument |
|---|---|
| `RootsAreFloors` | the guess is never below the root (`GuessAboveRoot`) and each Newton step from above stays above or ends at the floor (`NewtonStep`, `DescentEndsAtRoot`). |
| `MirroredArithmetic`, `DirectionsSurvive`, `FramesAreAlike` | truncation is odd in both operands; the longest coordinate of a vector is at least half its length, so one unit of it survives. |
| `LiteralsAreNearest` | remainders of the one division, on both sides of zero. |
| `OrdinalsAreCounts` | the tables count positions of a cycle; a roster is whole turns of it and a prefix. |
| `AcceptedFormsFit` | products of bounds (`PodTermsFit`). |
| `SquadmatesStandApart` | a step of the alternation tells its ordinal; pods apart by more than a column's spread; a gap of two units or more outweighs what halving drops, and low words separate what is less than the word's range apart. It needs `Fx::HALF` to be half of `Fx::ONE` (`FormsAssumption`). |

`SidesAreAlike` assumes of the settings what `SettingsAssumption` says: shares (drag, retention, traction, gain,
restitution, the substep) no more than one, pushes no more than `Room`, and lift that fits the word at that
speed and spin. With the code's defaults this holds for a `Room` of up to 184 units, where half a pitch is 16 and the
speed cap 20.

Square roots, sweeps, sums and prefix sums are recursive *functions*, about which the library's induction theorems
cannot be used. `NaturalLemmas` states induction over a *set* of naturals and the existence of recursive functions
(`SetInduction`, `StrongSetInduction`, `Recursion`), and every argument by induction rests on these.

Four proved invariants are in no run: `EntryClock`, which `DwellIsBounded` rests on and `ImplementsPlayClock` would show
broken; `RoundsTowardZero` (`MirroredArithmetic`), whose consequences `TurnsAlike` and `HalfTurnFair` check;
`ContactCarriesCharge`, without which `ChargeLedger` fails in its run; and `MembersFitCapacity`, which costs a
reallocation at most, since `rebuild` resizes the members to the summed counts.

Model-checked only: that the bodies of `Physics` keep to their room (`Roomy`, the first conjunct of its `TypeOK`); the
step from `StepComesNearer` to `WalkEnds`, which is liveness under fairness; and both findings, which are counterexamples.
`Roomy` is not provable for every setting: a pair whose spheres nearly coincide is given a normal
longer than one (the root of a sum of squares is truncated), which can add speed, and a sweep may resolve as many
pairs as there are. The runs show that bodies stay within `Room` in the instance; the four theorems that need it name it as
a hypothesis, and nothing else is assumed of the state.

## Plan

1. `PlayGraph`, `MatchTick`, `AskedPath`, their proofs. Done.
2. `Backend`, `Session`, `WitnessTwins`, their proofs. Done.
3. `FixedPoint`, `Formation`, `Sheet`, `Solver`, `SpatialIndex`, `Sight`, their proofs. Done.
4. `Physics`, its refinement of `BallTrack` and its symmetry, as theorems. Done.
5. `PlayClock`, which `MatchTick` implements, as a theorem. Done.

## Not modelled

- The RON reader (`lex`, the recursive-descent parser) and which error is reported first: text in,
  tree out, with no state that outlives the call.
- Where `World::new` puts bodies. Rows are eleven abreast from each team's own half toward the other, and
  at a hundred a side they pass the centre line, so that the rosters and the ball start out overlapping; the
  physics runs start from overlapping bodies for that reason.
- The byte-level folds of `core/hash.rs`: a fold is a tuple of what it covers.
- A controller restored in the middle of a match that went on: the envelope does not carry the match, the
  docs name the missing fields as owed, and nothing is promised that could be checked.
- The lane arithmetic of the encoders: no control flow between states.
- Rendering, the GPU, web and bevy scaffolds, and the runner.
