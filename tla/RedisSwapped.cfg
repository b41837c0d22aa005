CONSTANTS
  Sessions = {s1, s2}
  Main = main
  Players = {p, q}
  MaxSaves <- OneEach
  Faults = {}
  None = None
SPECIFICATION Spec
SYMMETRY RedisSymmetry
CHECK_DEADLOCK FALSE
INVARIANT RankAnswersOwnPlayer
