SPECIFICATION DataSpec
CONSTANTS
  Descs <- Both
  Width = 2
  JobsSet = {1, 3}
  TSet = {1, 3}
INVARIANTS TypeOK RingInv WiresDetermined LeftIsCount Conserved NeverStuck
PROPERTIES DoneIsFinished ResultsAreJobs GroupRunSpec
