CONSTANTS
  a = a
  b = b
  c1 = c1
  c2 = c2
  alice = alice
  bob = bob
  ghost = ghost
  w1 = w1
  w2 = w2
  Sock <- MCSock
  Uri <- MCUri
  Users <- MCUsers
  CallId <- MCCallId
  Worker <- MCWorker
  Menu <- MCMenu
  Unruly <- MCUnruly
  Daemons = {}
  MaxCSeq = 3
  ConnectedAtStart <- MCSock
  RegisteredAtStart <- MCRegistered
  KeepAliveId = KeepAliveId
  ServerUri = ServerUri
  NoSock = NoSock
  NoUri = NoUri
  NoCall = NoCall
  NoMsg = NoMsg
SPECIFICATION FairSpec
PROPERTIES MessagesHandled

