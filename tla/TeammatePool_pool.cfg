SPECIFICATION FairSpec
CONSTANTS
  n1 = n1
  n2 = n2
  Names = {n1, n2}
  MaxTeammates = 2
  FirstDeclared = Unset
  Sizes = {0, Unset}
  Unset = Unset
  Env <- EnvPool
  MaxEvents = 2
  MaxDirectives = 2
PROPERTIES KillsOnlyDismissed DismissalEnds PoolFilled
CHECK_DEADLOCK FALSE
