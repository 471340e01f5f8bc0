\* One teammate, one item, three requests of people and one mishap: pairing,
\* messages beyond the outbox's bound, and releases in the middle of everything.
SPECIFICATION FairSpec
CONSTANTS
  i1 = i1
  Items = {i1}
  None = None
  MaxOutbox = 1
  MaxRequests = 3
  MaxChains = 2
  MaxMishaps = 1
  Env <- EnvAll
INVARIANTS HandedInOrder
PROPERTIES ReleaseTaken PromptedEnds
CHECK_DEADLOCK FALSE
