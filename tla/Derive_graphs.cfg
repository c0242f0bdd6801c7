SPECIFICATION Spec
CONSTANTS
  Graphs <- Bound
  Cores = {0, 1, 2}
  SlotCore = 0
  QueueDepth = 2
INVARIANTS Coherent InSeries AfterHonoured
PROPERTIES Returns
