SPECIFICATION Spec
CONSTANTS
  Runs = 2
  Nests <- ThreeNests
  Rates = {1, 2}
  Depth = 2
  Banks = 4
  Copies <- OneCopy
  Idles = 1
  Closing = 3
  AddressBits = 7
  Regions <- InTilesOut
  Rows = 15
  FoldMin = 2
INVARIANTS WholeLogIsRead FaultsAreRefused ViewsTellTheRun
