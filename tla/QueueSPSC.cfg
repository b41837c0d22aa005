\* One producer thread and one consumer thread on a ring of four slots.
CONSTANTS
  Pushers = {p}
  Poppers = {c}
  Items = {a, b, d}
  NULL = NULL
  mQueueMaxSize = 4
SPECIFICATION Spec
INVARIANT RingInv
PROPERTY ImplementsBoundedQueue
