SPECIFICATION FairSpec
CONSTANTS
  Gens = {1, 2}
  Sips = {s1}
  Resumes = {r1}
  PCs = {0, 1, 2}
  First = 0
  None = None
  MaxLoss = 2
  Worlds <- AllWorlds
CHECK_DEADLOCK FALSE
INVARIANTS
  HoldCovered
  VerdictOnce
  CallKeepsMedia
PROPERTY NegotiationsEnd
