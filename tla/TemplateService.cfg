CONSTANTS
  Templates = {t1}
  NoTemplate = NoTemplate
  Names = {a, b}
  NoName = NoName
  Volumes = {v1}
  Backing = {t1}
  MaxFaults = 1
  MaxQueue = 1
SPECIFICATION FairSpec
INVARIANTS
  BaseStays
  NoOrphanFile
PROPERTIES
  CallsEnd
CHECK_DEADLOCK FALSE
