SPECIFICATION AskedSpec
CONSTANTS
  Playbook <- CoachChain
  PortCount = 3
  PossessionTicks = 2
  CoachInterval = 4
  LearningInterval = 4
  GoalLine = 2
  ScoreLimit = 3
  Pushes <- Still
  Heights <- Ground
  Touches <- Untouched
  Publications <- AnyCoach
  MaxTick = 10
  MaxPorts = 2
INVARIANTS
  AskedPathIsTaken
PROPERTIES
  CoachMoveIsEarned
