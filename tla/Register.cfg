CONSTANTS
  s1 = s1
  s2 = s2
  c1 = c1
  c2 = c2
  alice = alice
  ghost = ghost
  w1 = w1
  w2 = w2
  Sock <- MCSock
  Uri <- MCUri
  Users <- MCUsers
  CallId <- MCCallId
  Worker <- MCWorker
  Menu <- MCMenu
  Unruly <- MCFirstUnruly
  Daemons = {}
  MaxCSeq = 3
  ConnectedAtStart <- MCSock
  RegisteredAtStart <- MCNobody
  KeepAliveId = KeepAliveId
  ServerUri = ServerUri
  NoSock = NoSock
  NoUri = NoUri
  NoCall = NoCall
  NoMsg = NoMsg
SPECIFICATION Spec
SYMMETRY Symmetric
INVARIANTS MapsAgree 
PROPERTIES OkMeansRegistered
CHECK_DEADLOCK FALSE
