CONSTANTS
  Ports = {p1}
  Main = p1
  Bridges = {b1}
  NoIface = NoIface
  Managers = {"ovs", "netplan"}
  MaxFaults = 1
  Ids = {1, 2}
  NoId = 0
  MaxQueue = 1
SPECIFICATION FairSpec
INVARIANTS
  
  FileComesBack
PROPERTIES
  TableFollowsHost
CHECK_DEADLOCK FALSE
