SPECIFICATION Spec
CONSTANTS
  Graphs <- UpToThree
  Pinnings <- UpToTwoPins
  Word = 2
  Beat = 4
  L1Base = 0
  L1End = 32
  Runtime = 6
  Rounds = 2
CHECK_DEADLOCK FALSE
INVARIANTS Apart FixHolds
PROPERTIES AlwaysJudged
