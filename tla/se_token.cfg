SPECIFICATION Spec
CONSTANTS
  Proc = {p1, p2}
  Name = {"own", "api"}
  DefaultAPIHost = "api"
  Garbled = "s"
  Flags <- ApiOnly
  Envs <- OwnOnly
  Online <- BothSchemes
  Faults = TRUE
  Missing = Missing
  Empty = Empty
  Torn = Torn
  None = None
SYMMETRY ProcSymmetry
INVARIANT TypeOK
INVARIANT TokenStaysWithHost
INVARIANT LogoutForgets
