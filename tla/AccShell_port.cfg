SPECIFICATION LiveSpec
CONSTANTS
  Groups = {g1, g2}
  Folds = {g1}
  JobWidth = 2
  Long = {g1}
  Written = {0, 1, 2}
  CounterWidth = 1
  MaxCycles = 2
INVARIANTS StatusExact CounterExact ReadsAnswered
PROPERTIES RunsAsAsked RequestsTaken
