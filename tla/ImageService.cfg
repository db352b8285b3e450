CONSTANTS
  Images = {i1, i2}
  Names = {n1}
  VMs = {v1}
  NoImage = NoImage
  NoName = NoName
  NoVM = NoVM
  MaxAttach = 2
  MaxFaults = 2
SPECIFICATION FairSpec
INVARIANTS
  UploadArrives
  AttachedHasFile
  DeletedLeavesNoFile
PROPERTIES
  MissingShows
CHECK_DEADLOCK FALSE
