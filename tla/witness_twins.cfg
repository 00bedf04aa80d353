SPECIFICATION Spec
CONSTANTS
  Playbook <- Hatch
  PortCount = 2
  PossessionTicks = 2
  CoachInterval = 4
  LearningInterval = 4
  GoalLine = 2
  ScoreLimit = 3
  Pushes <- Still
  Heights <- Still
  Touches <- Untouched
  Publications <- SilentCoach
  MaxTick = 4
INVARIANT FoldCoversGraphState
