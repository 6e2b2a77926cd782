CONSTANTS
  k1 = k1
  k2 = k2
  k3 = k3
  dana = dana
  bad = bad
  p1 = p1
  p2 = p2
  Thread <- MCClient
  Permit <- MCPermit
  Name <- MCName
  ValidName <- MCValid
  DbErrors = TRUE
  NoThread = NoThread
  NoName = NoName
  Slots = 2
  Rude <- MCRude
  Wants <- MCWants
SPECIFICATION FairSpec
INVARIANTS TypeOK WriterAlone SuccessIsOwn
PROPERTIES ServedUnlessStuck ImplementsBook
CHECK_DEADLOCK FALSE
