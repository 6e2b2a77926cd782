CONSTANTS
  a = a
  b = b
  c1 = c1
  alice = alice
  bob = bob
  w1 = w1
  w2 = w2
  Sock <- MCSock
  Uri <- MCUri
  Users <- MCUri
  CallId <- MCCallId
  Worker <- MCWorker
  Menu <- MCMenu
  Unruly <- MCCallerUnruly
  Daemons = {"cleanup", "registrations"}
  MaxCSeq = 3
  ConnectedAtStart <- MCSock
  RegisteredAtStart <- MCRegistered
  KeepAliveId = KeepAliveId
  ServerUri = ServerUri
  NoSock = NoSock
  NoUri = NoUri
  NoCall = NoCall
  NoMsg = NoMsg
SPECIFICATION Spec
SYMMETRY Symmetric
INVARIANTS TypeOK CallShape 
PROPERTIES CallIdentityFixed EstablishedCallStays RefinesLifecycle
CHECK_DEADLOCK FALSE
