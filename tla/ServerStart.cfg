CONSTANTS
  Clients = {c1}
  Sessions = {s1}
  Overlappeds = {o1, o2, o3, o4, o5}
  MaxRequests <- OneEach
  Window = 1
  Faults = {}
  None = None
  Creations <- OneCreation
SPECIFICATION Spec
CHECK_DEADLOCK FALSE
PROPERTY ReadyServesRequests
