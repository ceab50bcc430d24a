SPECIFICATION CallSpec
CONSTANTS
  Enders = {h1}
  NoEnder = NoEnder
  MaxBlips = 1
  MaxLost = 1
  Readers = {"r1", "r2"}
  Versions = {1, 2}
  Size <- MCSize
  Pictures <- MCPictures
  Worlds <- MCWorlds
  None = None
CHECK_DEADLOCK FALSE
INVARIANTS
  MediaFollowsCall
  CalleeReleased
PROPERTIES
  Settles
  
