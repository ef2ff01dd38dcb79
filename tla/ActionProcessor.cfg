\* Three Actions, one of them synchronous, any order of calls and completions.
SPECIFICATION FairSpec
CONSTANTS
  Actions = {copy, fetch, flag}
  Sync = {flag}
  NoAction = NoAction
  copy = copy
  fetch = fetch
  flag = flag
\* The processor may be destroyed, and a failed CHECK aborts the process.
CHECK_DEADLOCK FALSE
INVARIANTS
  IInv
PROPERTIES
  NothingSilentlyDropped
  QueuedActionGetsItsTurn
