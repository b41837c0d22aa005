CONSTANTS
  Clients = {c1, c2}
  Sessions = {s1, s2}
  Overlappeds = {o1, o2, o3, o4, o5}
  MaxRequests <- OneEach
  Window = 1
  Faults = {"start", "fin", "rst", "accept"}
  None = None
  Creations <- AllCreations
SPECIFICATION Spec
SYMMETRY ServerSymmetry
CHECK_DEADLOCK FALSE
INVARIANTS TypeOK OneOwner OneReceiveChain CrashNeedsExhaustion
