SPECIFICATION Spec
CONSTANTS
  Starts <- FromKernel
  Numbers = {1, 2}
  Values = {text}
  Text = text
  Submodule = FALSE
  Asked = {0, 1}
INVARIANTS FormNamesFree Reopens
PROPERTIES ErrorMakesNoStep
