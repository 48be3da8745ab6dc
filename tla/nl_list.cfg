SPECIFICATION Spec
CONSTANTS
  Proc = {p1, p2}
  Account = {a1}
  Names = 3
  PageSize = 1
  Shapes = {"wrapped", "flat"}
  TTL = 1
  MaxClock = 2
  MaxChanges = 1
  Faults = TRUE
  Absent = Absent
  Empty = Empty
  Torn = Torn
  None = None
SYMMETRY ProcSymmetry
INVARIANT TypeOK
INVARIANT ListingIsConsistent
INVARIANT CacheLagIsBounded
