CONSTANTS
  Pushers = {m, s, t}
  Poppers = {m, s, t}
  Main = m
  Items = {o1, o2, o3, o4, o5}
  NULL = NULL
  mQueueMaxSize = 5
  NumClients = 2
SPECIFICATION ApartSpec
SYMMETRY ItemSymmetry
INVARIANT ExclusiveOwnership
PROPERTY ImplementsAtomicPool
