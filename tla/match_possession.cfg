SPECIFICATION Spec
CONSTANTS
  Playbook <- Fortunes
  PortCount = 3
  PossessionTicks = 3
  CoachInterval = 4
  LearningInterval = 4
  GoalLine = 2
  ScoreLimit = 3
  Pushes <- Still
  Heights <- Ground
  Touches <- AnyTouch
  Publications <- EchoingCoach
  MaxTick = 7
INVARIANTS
  PossessionAgrees
PROPERTIES
  ImplementsPlayClock
