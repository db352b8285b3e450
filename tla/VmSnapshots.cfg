CONSTANTS
  Snaps = {s1, s2}
  NoSnap = NoSnap
  Absent = Absent
  Limit = 2
  MaxQueue = 1
  MaxFaults = 1
SPECIFICATION FairSpec
INVARIANTS
  RowsAreForest
  
  DeletedLeavesNoFile

  
CHECK_DEADLOCK FALSE
