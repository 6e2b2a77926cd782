CONSTANTS
  SeqLimit = 9
  FirstSeqs <- MCFirstSeqs
  Sizes <- MCSizes
  MaxFrames = 3
  NoSeq = NoSeq
SPECIFICATION FairSpec
INVARIANTS TypeOK DeliveredWithoutHole WholeWhileCalm
PROPERTY CutFramesArrive
CHECK_DEADLOCK FALSE
