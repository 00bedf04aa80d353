SPECIFICATION Spec
CONSTANTS
  Playbook <- PressRecover
  PortCount = 3
  PossessionTicks = 2
  CoachInterval = 4
  LearningInterval = 1
  GoalLine = 3
  ScoreLimit = 3
  Pushes <- Strides
  Heights <- Raised
  Touches <- Untouched
  Publications <- SilentCoach
  MaxTick = 7
INVARIANTS
  TypeOK
  DwellBounded
  OpponentReachable
