CONSTANTS
  a = a
  b = b
  fresh = fresh
  c1 = c1
  alice = alice
  bob = bob
  w1 = w1
  Sock <- MCSock
  Uri <- MCUri
  Users <- MCUri
  CallId <- MCCallId
  Worker <- MCWorker
  Menu <- MCMenu
  Unruly <- MCUnruly
  Daemons = {"keepalive", "registrations"}
  MaxCSeq = 3
  ConnectedAtStart <- MCConnected
  RegisteredAtStart <- MCRegistered
  KeepAliveId = KeepAliveId
  ServerUri = ServerUri
  NoSock = NoSock
  NoUri = NoUri
  NoCall = NoCall
  NoMsg = NoMsg
SPECIFICATION FairSpec
INVARIANTS RemainingHaveAnswered
 
CHECK_DEADLOCK FALSE
