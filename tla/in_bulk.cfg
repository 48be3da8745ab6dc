SPECIFICATION Spec
CONSTANTS
  w1 = w1
  w2 = w2
  m1 = m1
  m2 = m2
  Workflow = {w1, w2}
  Content = {c1, c2}
  Module = {m1, m2}
  Needs <- SharedNeeds
  Package = {w2}
  Mentioned = {}
  Aligned = TRUE
  Faults = TRUE
  Absent = Absent
  Empty = Empty
  Torn = Torn
  None = None
SYMMETRY ContentSymmetry
INVARIANT TypeOK
INVARIANT InstalledIsComplete
INVARIANT ModulesAccounted
PROPERTY OnlyStaleFilesChange
PROPERTY NothingComesApart
