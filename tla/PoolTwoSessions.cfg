CONSTANTS
  Pushers = {m, s, t}
  Poppers = {m, s, t}
  Main = m
  Items = {o1, o2, o3, o4, o5, o6}
  NULL = NULL
  mQueueMaxSize = 6
  NumClients = 2
SPECIFICATION PoolSpec
SYMMETRY ItemSymmetry
INVARIANT ExclusiveOwnership
