SPECIFICATION Spec
CONSTANTS
  Proc = {p1, p2}
  Owner = {o1}
  Version = {1, 2}
  c1 = c1
  c2 = c2
  Content = {c1, c2}
  ExtOf <- MCSameExt
  Hashed = {o1}
  BodiesMayDiffer = TRUE
  VersionsImmutable = TRUE
  Faults = FALSE
  MaxPublished = 2
  Absent = Absent
  Empty = Empty
  Torn = Torn
  None = None
SYMMETRY ProcSymmetry
INVARIANT OnlyPublishedContent
INVARIANT QuiescentCacheIntact
INVARIANT RunsVerifiedOrEmpty
