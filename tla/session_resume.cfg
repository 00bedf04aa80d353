SPECIFICATION Spec
CONSTANTS
  Seeded <- MCSeeded
  Pulsed <- MCPulsed
  Reinforced <- MCReinforced
  Spoken <- MCSpoken
  Unit = 1
  CoachInterval = 2
  LearningInterval = 2
  Header = "10"
  OtherHeaders = {"100"}
  Seeds = {1, 2}
  HomeSeed = 1
  Rules = {0, 1}
  HomeRule = 1
  Senses <- TwoSenses
  RewardBatches <- TwoBatches
  NoRewards <- NoBatch
  Noise = noise
  LiveTicks = 4
  SpareTicks = 2
INVARIANTS
  SessionTypeOK
  ResumeIsExact
  RestoreIsAllOrNothing
  DamageIsCaught
  CountersTellTheSchedule
  StaleMailIsUnheard
