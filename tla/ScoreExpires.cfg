CONSTANTS
  Players = {p}
  Scores = {1}
  MaxSaves = 2
  ScoreTTL = 2
  LoadTTL = 5
  Interval = 2
  Slack = 1
  TopN = 1
  Faults = {}
  None = None
SPECIFICATION Spec
SYMMETRY PlayerSymmetry
INVARIANTS AckedScoreNotLost
