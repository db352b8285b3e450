CONSTANTS
  Volumes = {v1, v2}
  Names = {n1, n2}
  Storages = {s1}
  VMs = {vm1}
  MaxSize = 2
  NewSizes = {1}
  Clones = {v2}
  NoVolume = NoVolume
  NoVM = NoVM
  NoName = NoName
  NoStorage = NoStorage
  MaxAttach = 1
  MaxFaults = 1
SPECIFICATION FairSpec
INVARIANTS
  NoOrphanFile
PROPERTIES
  DeletedOnlyDetached
  DeletionEnds
CHECK_DEADLOCK FALSE
