SPECIFICATION Spec
CONSTANTS
  a1 = a1
  a2 = a2
  d1 = d1
  d2 = d2
  NoDir = NoDir
  NoMember = NoMember
  Agents = {a1}
  Defs = {d1, d2}
  Dirs <- MCDirs
  WorkDir <- LooseWork
  AgentDir <- NestedAgents
  MaxAttempts = 2
  MaxItems = 3
  Env <- EnvPeople
INVARIANTS OneActive RetryChain
CHECK_DEADLOCK FALSE
