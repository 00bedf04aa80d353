SPECIFICATION Spec
CONSTANTS
  Seeded <- MCSeeded
  Pulsed <- MCPulsed
  Reinforced <- MCReinforced
  Spoken <- MCSpoken
  Unit = 1
  CoachInterval = 2
  LearningInterval = 2
  Header = "10"
  OtherHeaders = {"100"}
  Seeds = {1}
  HomeSeed = 1
  Rules = {0, 1}
  HomeRule = 0
  Senses <- TwoSenses
  RewardBatches <- TwoBatches
  NoRewards <- NoBatch
  Noise = noise
  LiveTicks = 3
  SpareTicks = 4
INVARIANTS
  WitnessesDecide
