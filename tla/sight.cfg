SPECIFICATION FairSpec
CONSTANTS
  One = 4
  WordLimit = 512
  Bodies = 3
  Radius = 1
  Dimensions <- Grid322
  Origin <- Corner
  TeamOf <- Teams3
  Placements <- AcrossFloor
  Moves <- Moved
  Poses <- Undecided
  Arena <- SmallArena
INVARIANTS
  TypeOK
  BucketsFresh
  WalkFindsOccluders
  HiddenBehindSeen
  StepComesNearer
PROPERTIES
  WalkEnds
