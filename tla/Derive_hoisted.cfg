SPECIFICATION Spec
CONSTANTS
  Graphs <- Hoisted
  Cores = {0, 1, 2}
  SlotCore = 0
  QueueDepth = 2
INVARIANTS Coherent
