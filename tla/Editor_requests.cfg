CONSTANTS
  Viewers = {v}
  Changers = {c}
  Openers = {o, p}
  Nobody = nobody
  Kinds = {"x", "y"}
  Params = {1, 2}
  Refused <- YRefusesTwo
  Starts <- KernelAndRecipe
  Files = {"a", "b"}
  Requests <- TwoChanges
  Length = 2
  Writes = 2
SPECIFICATION Spec
SYMMETRY TwoOpeners
INVARIANTS UntouchedIsWhole FolderIsShown
CHECK_DEADLOCK FALSE
