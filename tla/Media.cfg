CONSTANTS
  MaxCalls = 2
  MaxFrames = 1
  Pipes <- MCPipes
SPECIFICATION FairSpec
INVARIANT OneProcessOfAKind
PROPERTIES NeverBackwards OwnCallIsPlayed 
CHECK_DEADLOCK FALSE
