SPECIFICATION Spec
CONSTANTS
  One = 16
  WordLimit = 16384
  TeamOf <- OneEach
  Radius = 8
  Room = 72
  Config <- SmallConfig
  Dt = 4
  Arena <- SmallArena
  Kickoffs <- SameSide
  Standing <- MCStanding
  Intents <- MCIntents
  Commands <- NoCommands
  ScoreLimit = 1
  MaxTick = 1
INVARIANTS
  NoIndexTieBreak
CHECK_DEADLOCK FALSE
