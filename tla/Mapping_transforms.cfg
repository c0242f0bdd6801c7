SPECIFICATION Spec
CONSTANTS
  Kernels <- Small
  Instances = {u, v, w}
  Groups = {g}
  Accelerators = {a}
  ByteBits = 6
  WordBytes = 2
  PtrBits = 3
  FirstCsr = 5
  BeatBytes = 4
  Junk = {7, 13}
SYMMETRY SameNames
CHECK_DEADLOCK FALSE
INVARIANTS StepsPreserve InversesUndo LinksHold LoweredComputes NamedAsWired
