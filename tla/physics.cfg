SPECIFICATION Spec
CONSTANTS
  One = 16
  WordLimit = 16384
  TeamOf <- OneEach
  Radius = 8
  Room = 72
  Config <- SmallConfig
  Dt = 4
  Arena <- SmallArena
  Kickoffs <- MCKickoffs
  Standing <- MCStanding
  Intents <- MCIntents
  Commands <- MCCommands
  ScoreLimit = 1
  MaxTick = 2
INVARIANTS
  TypeOK
  ChargeLedger
  Contained
  UntouchedFliesAlone
  HalfTurnFair
PROPERTIES
  ImplementsTrack
CHECK_DEADLOCK FALSE
