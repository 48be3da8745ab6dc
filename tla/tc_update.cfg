SPECIFICATION Spec
CONSTANTS
  Proc = {p1}
  File = {f1, f2}
  Content = {c1, c2}
  v1 = v1
  v2 = v2
  u1 = u1
  u2 = u2
  Version = {v1}
  Url = {u1, u2}
  Home <- OneHome
  Configured = {u2}
  Format <- ZipAndTar
  Faults = TRUE
  MaxPublishes = 1
  Absent = Absent
  Torn = Torn
  None = None
INVARIANT TypeOK
INVARIANT UpdateLeavesArchive
