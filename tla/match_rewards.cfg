SPECIFICATION Spec
CONSTANTS
  Playbook <- Lone
  PortCount = 3
  PossessionTicks = 3
  CoachInterval = 4
  LearningInterval = 3
  GoalLine = 2
  ScoreLimit = 2
  Pushes <- Motion
  Heights <- Ground
  Touches <- Untouched
  Publications <- SilentCoach
  MaxTick = 11
INVARIANTS
  ProgressLedger
  EventLedger
  AccumulatorWindow

