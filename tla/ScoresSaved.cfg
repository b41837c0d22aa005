CONSTANTS
  Players = {p, q}
  Scores = {1}
  MaxSaves = 3
  ScoreTTL = 2
  LoadTTL = 5
  Interval = 2
  Slack = 1
  TopN = 1
  Faults = {"redis", "sql", "crash"}
  None = None
SPECIFICATION Spec
SYMMETRY PlayerSymmetry
INVARIANTS TypeOK CacheNotOlder ScanSavesEveryKey TopRanksServed SharedRankExpiresFirst
PROPERTIES SqlNeverRegresses LostOnlyByExpiryOrRestart ImplementsLedger
