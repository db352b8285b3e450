CONSTANTS
  Storages = {s1, s2}
  Names = {n1}
  Disks = {d1}
  Shares = {}
  OneServer = TRUE
  NoStorage = NoStorage
  NoName = NoName
  NoDevice = NoDevice
  MaxCasts = 2
  MaxFaults = 1
  MaxReboots = 1
SPECIFICATION FairSpec
INVARIANTS
  ObjectsHaveStorage
  
PROPERTIES
  HandlerEnds
CHECK_DEADLOCK FALSE
