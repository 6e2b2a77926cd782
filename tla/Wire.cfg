CONSTANTS
  LowerCase <- MCLowerCase
  Sender <- MCSender
  Menu <- MCMenu
  Offers <- MCOffers
  INT_SIZE = 2
  MaxSize = 2
  MaxSent = 2
  Room = 3
SPECIFICATION FairSpec
INVARIANTS InOrder RaisesForAReason SaysTheSame
PROPERTIES EveryMessageArrives
CHECK_DEADLOCK FALSE
