SPECIFICATION Spec
CONSTANTS
  Proc = {p1}
  Owner = {o1}
  Version = {1, 2}
  c1 = c1
  c2 = c2
  Content = {c1, c2}
  ExtOf <- MCSameExt
  Hashed = {o1}
  BodiesMayDiffer = TRUE
  VersionsImmutable = FALSE
  Faults = TRUE
  MaxPublished = 3
  Absent = Absent
  Empty = Empty
  Torn = Torn
  None = None
INVARIANT TypeOK
INVARIANT RunsWhatItVerified
INVARIANT GetLeavesVerifiedCopy
PROPERTY CacheIsTransparent
