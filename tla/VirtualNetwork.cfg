CONSTANTS
  Ids = {1, 2}
  NoId = 0
  Names = {n1}
  NoName = NoName
  Groups = {g1, g2}
  Trunks = {g1}
  NoGroup = NoGroup
  MaxFaults = 1
  MaxQueue = 2
SPECIFICATION FairSpec
INVARIANTS
  NoOrphan
  RowsAgree
PROPERTIES
  GroupsStay
CHECK_DEADLOCK FALSE
