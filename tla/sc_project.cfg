SPECIFICATION Spec
CONSTANTS
  n1 = n1
  n2 = n2
  i1 = i1
  m1 = m1
  m2 = m2
  Proc = {p1}
  Name = {n1, n2}
  Id = {i1}
  Camel <- OneCamel
  Deep = {n2}
  Method = {m1, m2}
  Ends = {}
  CommonFiles <- FirstAndLast
  Editable <- Sources
  Faults = {"template", "write", "crash"}
  MaxCommands = 3
  MaxEdits = 1
  Absent = Absent
  None = None
INVARIANT TypeOK
INVARIANT ReportedIsInPlace
INVARIANT OwnFilesAreKept
INVARIANT AddedMethodsStay
