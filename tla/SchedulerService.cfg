CONSTANTS
  Jobs = {j1, j2}
  NoJob = NoJob
  MaxJobs = 1
  MaxEdits = 1
  MaxFaults = 2
SPECIFICATION FairSpec
PROPERTIES
  EntriesOutliveRows
  Converges
CHECK_DEADLOCK FALSE
