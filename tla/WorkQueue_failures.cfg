SPECIFICATION Spec
CONSTANTS
  a1 = a1
  a2 = a2
  d1 = d1
  d2 = d2
  NoDir = NoDir
  NoMember = NoMember
  Agents = {a1, a2}
  Defs = {d1, d2}
  Dirs <- MCDirs
  WorkDir <- NestedWork
  AgentDir <- NestedAgents
  MaxAttempts = 2
  MaxItems = 2
  Env <- EnvFailures
INVARIANTS OneRunner OneTeammatePerDirectory
PROPERTIES ItemLifecycle ImplementsLeaseLock
CHECK_DEADLOCK FALSE
