SPECIFICATION Spec
CONSTANTS
  Xids = {a, b, c}
  None = None
  Root = Root
  Elsewhere = Elsewhere
  MaxSteps = 3
SYMMETRY Symmetry
CHECK_DEADLOCK FALSE
INVARIANTS
  ToldInTurn
  KnowsTheDesktop
