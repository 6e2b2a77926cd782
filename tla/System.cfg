CONSTANTS
  a = a
  b = b
  c1 = c1
  c2 = c2
  c3 = c3
  alice = alice
  bob = bob
  w1 = w1
  Sock <- MCSock
  Uri <- MCUri
  Users <- MCUri
  CallId <- MCCallId
  Worker <- MCWorker
  Menu <- MCMenu
  SocketOf <- MCSocketOf
  Caller <- MCAlice
  Quitter <- MCBob
  Impatient <- MCAlice
  Passwords = {"right", "wrong"}
  Unruly <- MCSock
  Daemons = {}
  MaxCSeq = 4
  ConnectedAtStart <- MCSock
  RegisteredAtStart <- MCRegistered
  KeepAliveId = KeepAliveId
  ServerUri = ServerUri
  NoSock = NoSock
  NoUri = NoUri
  NoCall = NoCall
  NoMsg = NoMsg
SPECIFICATION SystemSpec
SYMMETRY Symmetric
INVARIANTS SystemTypeOK NothingHangs  StreamsAreCalls VideoShowsCall HangupEnds  CallsAreBetweenTwo
CHECK_DEADLOCK FALSE
