SPECIFICATION FairSpec
CONSTANTS
  Proc = {p1}
  Account = {a1}
  Names = 3
  PageSize = 1
  Shapes = {"wrapped", "empty"}
  TTL = 2
  MaxClock = 0
  MaxChanges = 2
  Faults = TRUE
  Absent = Absent
  Empty = Empty
  Torn = Torn
  None = None
PROPERTY ListingEnds
