SPECIFICATION FairSpec
CONSTANTS
  s1 = s1
  s2 = s2
  Stories = {s1, s2}
  MaxSeq = 1
  Workflows = {"build"}
  States <- MCStates
  Starts <- OnlyBuild
  Requires <- Chain
  Env <- EnvStories
PROPERTIES StoriesFinish
CHECK_DEADLOCK FALSE
