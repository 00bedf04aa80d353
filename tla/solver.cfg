SPECIFICATION Spec
CONSTANTS
  One = 16
  WordLimit = 32768
  Playbooks <- TwoPlaybooks
  Roster = {0, 1, 2}
  Places <- PlacesOf
  Kickoff <- Kick
  HalfLength = 96
  GoalHalfWidth = 20
  GoalHeight = 24
INVARIANTS
  TypeOK
  AimsAmongSquad
  HalfTurnSymmetry
  KeepsItsSide
