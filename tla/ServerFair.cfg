CONSTANTS
  Clients = {c1, c2}
  Sessions = {s1}
  Overlappeds = {o1, o2, o3, o4, o5, o6}
  Creations <- OneCreation
  MaxRequests <- TwoFromOne
  Window = 2
  Faults = {"fin"}
  None = None
SPECIFICATION FairSpec
CHECK_DEADLOCK FALSE
PROPERTY RequestsAnswered
