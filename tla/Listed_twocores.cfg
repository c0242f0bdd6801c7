SPECIFICATION ListedSpec
CONSTANTS
  Designs <- JustTwoCores
  NextSteps <- Bounded
  Cores = {0, 1}
  SlotCore = 0
  QueueDepth = 1
INVARIANTS AfterHonoured
