CONSTANTS
  Machines = {m1, m2}
  NoMachine = NoMachine
  Pids = {w1, w2, w3, w4}
  NoPid = NoPid
  FirstPort = 1
  LastPort = 2
  MaxQueue = 2
  MaxVncFaults = 2
SPECIFICATION VncSpec
INVARIANTS
  SessionsApart
  NoPortLost
  NoOrphanProcess
CHECK_DEADLOCK FALSE
