CONSTANTS
  VMs = {m1}
  OldDisks = {d1}
  NewDisks = {d2}
  NoVM = NoVM
  MaxMake = 1
  MaxFaults = 1
SPECIFICATION FairSpec
INVARIANTS
  
  OpenDisksAttached
  

  
CHECK_DEADLOCK FALSE
