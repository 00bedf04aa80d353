SPECIFICATION Spec
CONSTANTS
  One = 8
  WordLimit = 32768
  Reach = 6
  ScalarReach = 32
  Squads = {0, 1, 2}
  PodExtentMax = 10
  FormGapMax = 1600
  MaxCycle = 4
  Locals = {0, 1, 2, 3, 4, 5, 6, 7, 8, 9}
INVARIANTS
  IsqrtIsFloor
  DirectionSurvives
  TurnsAlike
  OrdinalsCount
  SlotsDistinct
  LiteralsRound
  AcceptedSlotsFit
CHECK_DEADLOCK FALSE
