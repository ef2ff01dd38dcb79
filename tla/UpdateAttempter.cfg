\* One run of the update engine with every outcome of every Action.
SPECIFICATION FairSpec
CONSTANTS
  NoAction = NoAction
  Boot = Boot
  Install = Install
\* The process ends.
CHECK_DEADLOCK FALSE
INVARIANTS
  AttemptsStayApart
PROPERTIES
  HarmsNothing
  UpdateComesToAnEnd
