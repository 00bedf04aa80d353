------------------------------ MODULE Session ------------------------------
(***************************************************************************)
(* Two backends in use: live plays a match from its first tick and is      *)
(* checkpointed at some tick boundary; spare has a past of its own, then   *)
(* is restored from the envelope and driven, from the resume cursor it     *)
(* reports, over what live has been through since.  The driver is the part *)
(* of Match::tick a backend sees: act on every tick, coaches due on every  *)
(* CoachInterval-th, learn on every LearningInterval-th.                   *)
(*                                                                         *)
(* The envelope may reach the spare damaged.  The senses of a tick and the *)
(* rewards of a learning pass are nondeterministic; the journal remembers  *)
(* the ones live has met since the checkpoint.                             *)
(***************************************************************************)
EXTENDS Backend

CONSTANTS
  LearningInterval,  \* ticks between two learning passes
  Header,            \* the roster both backends are built for
  OtherHeaders,      \* headers of foreign rosters and ABIs
  Seeds,             \* seeds the spare may have been built from; live's is HomeSeed
  HomeSeed,
  Rules,             \* rules the spare may be armed with; live's is HomeRule
  HomeRule,
  Senses,            \* [Team -> what a team's populations sense in one tick]
  RewardBatches,     \* [Team -> reward accumulated in one learning window]
  NoRewards,         \* the batch that stands where no pass is due
  Noise,             \* a value damage may write into a word
  LiveTicks,         \* bound on the ticks live plays, for model checking
  SpareTicks         \* bound on the ticks of the spare's own past

VARIABLES
  live,      \* the backend of the running match
  clock,     \* its match's tick
  spare,     \* the backend that will be restored
  resumed,   \* whether the spare was restored from the saved envelope
  saved,     \* the envelope, or NoEnvelope
  journal,   \* senses and rewards of live's ticks since the envelope was written
  replayed,  \* how many of them the resumed spare has been driven over
  trail      \* history: live as the envelope was written and after every tick since

vars == <<live, clock, spare, resumed, saved, journal, replayed, trail>>

ASSUME SessionAssumption ==
  /\ CoachInterval \in Nat \ {0}
  /\ LearningInterval \in Nat \ {0}
  /\ Header \notin OtherHeaders
  /\ LiveTicks \in Nat

NoEnvelope == <<>>

-----------------------------------------------------------------------------

CoachDue(tick) == tick % CoachInterval = 0
LearnDue(tick) == (tick + 1) % LearningInterval = 0

(* What one Match::tick does to its backend. *)
Driven(backend, tick, senses, rewards) ==
  LET acted == Act(backend, [tick |-> tick, senses |-> senses, coachDue |-> CoachDue(tick)])
  IN  IF LearnDue(tick) THEN Learn(acted, tick + 1, rewards) ELSE acted

BatchesAt(tick) == IF LearnDue(tick) THEN RewardBatches ELSE {NoRewards}

-----------------------------------------------------------------------------

Init ==
  /\ live = NewBackend(Header, HomeSeed, HomeRule)
  /\ clock = 0
  /\ \E seed \in Seeds, rule \in Rules : spare = NewBackend(Header, seed, rule)
  /\ resumed = FALSE
  /\ saved = NoEnvelope
  /\ journal = <<>>
  /\ replayed = 0
  /\ trail = <<>>

Play(senses, rewards) ==
  /\ clock < LiveTicks
  /\ rewards \in BatchesAt(clock)
  /\ live' = Driven(live, clock, senses, rewards)
  /\ clock' = clock + 1
  /\ journal' = IF saved = NoEnvelope
                THEN journal
                ELSE Append(journal, [senses |-> senses, rewards |-> rewards])
  /\ trail' = IF saved = NoEnvelope THEN trail ELSE Append(trail, live')
  /\ UNCHANGED <<spare, resumed, saved, replayed>>

(* The spare's own match, before it is restored. *)
Warm(senses, rewards) ==
  /\ ~resumed
  /\ spare.nextTick < SpareTicks
  /\ rewards \in BatchesAt(spare.nextTick)
  /\ spare' = Driven(spare, spare.nextTick, senses, rewards)
  /\ UNCHANGED <<live, clock, resumed, saved, journal, replayed, trail>>

Save ==
  /\ saved = NoEnvelope
  /\ saved' = Checkpoint(live)
  /\ trail' = <<live>>
  /\ UNCHANGED <<live, clock, spare, resumed, journal, replayed>>

(* What may become of an envelope on its way: cut short, run on, its       *)
(* length prefix or one of its cells changed.                              *)
Damaged(cells) ==
  {SubSeq(cells, 1, length) : length \in 0 .. Len(cells) - 1} \cup
  {Append(cells, Cell("word", Noise))} \cup
  {[cells EXCEPT ![PayloadOffset] = Cell("length", @.value + change)] : change \in {-1, 1}} \cup
  {[cells EXCEPT ![1] = Cell("magic", "other")]} \cup
  {[cells EXCEPT ![2] = Cell("header", header)] : header \in OtherHeaders} \cup
  {[cells EXCEPT ![position] = Cell("garbage", Noise)] : position \in PayloadOffset + 1 .. PayloadEnd(cells)}

(* A change to a word of the tail, which nothing guards. *)
Retouched(cells) ==
  {[cells EXCEPT ![position] = Cell("word", Noise)] : position \in PayloadEnd(cells) + 1 .. Len(cells)}

Resume ==
  /\ saved # NoEnvelope
  /\ spare' = Restore(spare, saved)
  /\ resumed' = (RestoreError(spare, saved) = "none" \/ resumed)
  /\ replayed' = IF RestoreError(spare, saved) = "none" THEN 0 ELSE replayed
  /\ UNCHANGED <<live, clock, saved, journal, trail>>

ResumeDamaged ==
  /\ saved # NoEnvelope
  /\ \E cells \in Damaged(saved) : spare' = Restore(spare, cells)
  /\ UNCHANGED <<live, clock, resumed, saved, journal, replayed, trail>>

(* The resumed spare picks up at the tick its cursor names. *)
Replay ==
  /\ resumed
  /\ replayed < Len(journal)
  /\ spare' = Driven(spare, spare.nextTick,
                     journal[replayed + 1].senses, journal[replayed + 1].rewards)
  /\ replayed' = replayed + 1
  /\ UNCHANGED <<live, clock, resumed, saved, journal, trail>>

Next ==
  \/ \E senses \in Senses, rewards \in RewardBatches \cup {NoRewards} :
       Play(senses, rewards) \/ Warm(senses, rewards)
  \/ Save
  \/ Resume
  \/ ResumeDamaged
  \/ Replay

Spec == Init /\ [][Next]_vars

-----------------------------------------------------------------------------

(* Both backends keep the roster they were built for, and the spare never  *)
(* replays what live has not been through.                                 *)
SessionTypeOK ==
  /\ clock \in 0 .. LiveTicks
  /\ live.header = Header /\ spare.header = Header
  /\ live.nextTick = clock
  /\ replayed \in 0 .. Len(journal)
  /\ saved = NoEnvelope => journal = <<>> /\ ~resumed

(* A resumed spare that has met everything live has met since the envelope *)
(* was written is live, to the last word, whatever the spare's past and    *)
(* rule were (checkpoint.rs: a resume is the bit-identical continuation).  *)
ResumeIsExact == resumed /\ replayed = Len(journal) => spare = live

(* Restore takes all of an envelope or nothing of it: a backend that       *)
(* accepts one would write the same envelope back, cell for cell, and a    *)
(* backend that rejects one is left as it was (backend.rs, restore).  The  *)
(* words of the tail carry no redundancy, so a changed one is accepted.    *)
RestoreIsAllOrNothing ==
  saved # NoEnvelope =>
    \A cells \in Damaged(saved) \cup Retouched(saved) \cup {saved} :
      LET restored == Restore(spare, cells)
      IN  IF RestoreError(spare, cells) = "none"
          THEN Checkpoint(restored) = cells
          ELSE restored = spare

(* Nothing but the envelope as it was written, up to the words of its      *)
(* tail, is accepted: every cut, every extra cell, every lying length and  *)
(* every foreign header is caught.                                         *)
DamageIsCaught ==
  saved # NoEnvelope => \A cells \in Damaged(saved) : RestoreError(spare, cells) # "none"

(* The counters and the resume cursor tell one schedule, across a          *)
(* checkpoint too: a backend that ran from tick zero pulsed bodies every   *)
(* tick, coaches every CoachInterval-th, and learned every                 *)
(* LearningInterval-th.                                                    *)
TellsSchedule(backend) ==
  /\ backend.bodyPulses = backend.nextTick
  /\ backend.coachPulses = (backend.nextTick + CoachInterval - 1) \div CoachInterval
  /\ backend.learnPasses = backend.nextTick \div LearningInterval

CountersTellTheSchedule == TellsSchedule(live) /\ TellsSchedule(spare)

(* Two backends that agree on both witnesses answer the next tick alike    *)
(* and agree again after it, whatever their pulse counts and resume        *)
(* cursors are (witness.rs: compare both to ask will these two step alike).*)
WitnessesAgree(one, other) ==
  /\ ControllerWitness(one) = ControllerWitness(other)
  /\ LearningWitness(one) = LearningWitness(other)

WitnessesDecide ==
  WitnessesAgree(live, spare) =>
    \A senses \in Senses, rewards \in BatchesAt(clock) :
      LET request == [tick |-> clock, senses |-> senses, coachDue |-> CoachDue(clock)]
      IN  /\ Commands(Act(live, request)) = Commands(Act(spare, request))
          /\ WitnessesAgree(Driven(live, clock, senses, rewards),
                            Driven(spare, clock, senses, rewards))

(* What coaches publish is heard in the tick they publish it, and nothing  *)
(* older is: on a tick that pulses coaches, live would answer and become   *)
(* the same had another backend's publications been standing in it, so a   *)
(* checkpoint on that boundary may hold any (backend.rs, act: coaches come *)
(* before the same tick's bodies, and rewrite every lane).                 *)
StaleMailIsUnheard ==
  CoachDue(clock) =>
    \A senses \in Senses :
      LET request  == [tick |-> clock, senses |-> senses, coachDue |-> TRUE]
          misfiled == [live EXCEPT !.mailboxes = spare.mailboxes, !.edgeLogits = spare.edgeLogits]
      IN  Act(misfiled, request) = Act(live, request)

=============================================================================
