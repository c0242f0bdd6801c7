SPECIFICATION Spec
CONSTANTS
  Flows = {f1, f2}
  Hands = {h}
  NoOwner = nobody
  Commits = {1, 2}
  Parts = 2
  Edits = 1
  Kills = 2
  Habits = {"edits", "moves", "drops"}
INVARIANTS RecordedUnlessDropped
PROPERTIES BuiltOnce
SYMMETRY Symmetric
