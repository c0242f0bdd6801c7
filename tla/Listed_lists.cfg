SPECIFICATION ListedSpec
CONSTANTS
  Designs <- All
  NextSteps <- Bounded
  Cores = {0, 1}
  SlotCore = 0
  QueueDepth = 1
INVARIANTS AfterOnCore StartsFindIdle
