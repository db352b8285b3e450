CONSTANTS
  Clients = {c1, c2}
  CallPriorities = {1}
  CastPriorities = {10}
  MaxLength = 1
  MaxRequests = 2
  MaxCrashes = 1
SPECIFICATION RpcFairSpec
INVARIANTS
  ReplyMatchesCall
  NoRequestLost
PROPERTIES
  EarlyTimeoutNeedsStaleReply
  ImplementsContract
  CallReturns
CHECK_DEADLOCK FALSE
