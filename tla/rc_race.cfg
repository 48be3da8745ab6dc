SPECIFICATION Spec
CONSTANTS
  Proc = {p1, p2}
  Owner = {o1}
  Version = {1}
  c1 = c1
  c2 = c2
  Content = {c1, c2}
  ExtOf <- MCSameExt
  Hashed = {o1}
  BodiesMayDiffer = FALSE
  VersionsImmutable = TRUE
  Faults = FALSE
  MaxPublished = 1
  Absent = Absent
  Empty = Empty
  Torn = Torn
  None = None
INVARIANT RunsWhatItVerified
