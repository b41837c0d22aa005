CONSTANTS
  Clients = {c1}
  Sessions = {s1, s2}
  Overlappeds = {o1, o2, o3, o4, o5, o6}
  MaxRequests <- ThreeEach
  Window = 2
  Faults = {"fin", "rst"}
  None = None
  Creations <- OneCreation
SPECIFICATION Spec
SYMMETRY ThreadSymmetry
CHECK_DEADLOCK FALSE
INVARIANTS RepliesInOrder LeaksAreBounded NeverExhausted
