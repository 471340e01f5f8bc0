SPECIFICATION Spec
CONSTANTS
  s1 = s1
  s2 = s2
  Stories = {s1}
  MaxSeq = 3
  Workflows = {"review"}
  States <- MCStates
  Starts <- OnlyReview
  Requires <- Nothing
  Env <- EnvMoves
INVARIANTS WorkedWhereItStands StatusInSync
PROPERTIES OneInPipeline AdmittedInTurn NoStall
CHECK_DEADLOCK FALSE
