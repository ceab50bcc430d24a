SPECIFICATION Spec
CONSTANTS
  Instances = {i1, i2}
  Ops = {o1, o2}
  Slots = {w1, w2, w3}
  None = None
  Worlds <- AllWorlds
  MaxDowns = 1
CHECK_DEADLOCK FALSE
INVARIANTS
  OneWorker
  IntentLasts
