SPECIFICATION Spec
CONSTANTS
  Proc = {p1, p2}
  Workflows = 1
  Content = {empty, c1, bad}
  Manifest = {m1, badm}
  Broken = {bad, badm}
  Empty = empty
  Methods = {"POST"}
  PostUpdates = TRUE
  Faults = TRUE
  MaxEdits = 1
  Absent = Absent
  None = None
SYMMETRY ProcSymmetry
INVARIANT TypeOK
INVARIANT UploadReportIsTrue
INVARIANT StatusReportIsTrue
INVARIANT PackageReportIsTrue
