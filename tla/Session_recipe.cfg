SPECIFICATION Spec
CONSTANTS
  Starts <- FromAny
  Numbers = {2}
  Values = {1, text}
  Text = text
  Submodule = TRUE
  Asked = {4}
INVARIANTS GraphsAreTheRecipes AnswersCurrent FilesReplay
