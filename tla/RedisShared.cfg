CONSTANTS
  Sessions = {s1}
  Main = main
  Players = {p, q}
  MaxSaves <- TwiceOne
  Faults = {"redis"}
  None = None
SPECIFICATION FairSpec
CHECK_DEADLOCK FALSE
INVARIANTS TypeOK OneReplyPerCaller AloneGetsOwnReply
PROPERTIES RowsNeverGoBack CallsReturn
