CONSTANTS
  Clients = {c, d}
  Overlappeds = {o1, o2, o3, o4}
  full = full
  fifteen = fifteen
  Names <- MCNames
  Cut <- MCCut
  Begins <- MCBegins
  Storable = {full, fifteen, Empty}
  DaylightShift = 0
  Slots = 8
  Blank = Blank
  Garbage = Garbage
  Empty = Empty
  MaxSent = 2
  None = None
SPECIFICATION Spec
SYMMETRY PathSymmetry
INVARIANTS TypeOK InStep ScoresAsSent RepliesAreOwn
