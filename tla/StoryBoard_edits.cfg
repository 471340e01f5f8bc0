SPECIFICATION Spec
CONSTANTS
  s1 = s1
  s2 = s2
  Stories = {s1}
  MaxSeq = 2
  Workflows = {"review", "build"}
  States <- MCStates
  Starts <- OnlyReview
  Requires <- Nothing
  Env <- EnvEdits
INVARIANTS OneActivePerTask
PROPERTIES DoneStays
CHECK_DEADLOCK FALSE
