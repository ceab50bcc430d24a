SPECIFICATION RegistrationsSpec
CONSTANTS
  Keys = {k1}
  Calls = {c1, c2}
  Objects = {o1, o2}
  None = None
  MaxAccounts = 2
  MaxRefresh = 1
  Ends = {0, 1, 2}
  Faults = TRUE
  a1 = a1
  d1 = d1
  d2 = d2
  t1 = t1
  u1 = u1
  u2 = u2
CHECK_DEADLOCK FALSE
INVARIANTS
  CountedKeepsAccount
  WorkersFollow
  DevicesKept
SYMMETRY Symmetry
