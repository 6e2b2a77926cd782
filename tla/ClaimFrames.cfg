CONSTANTS
  SeqLimit = 9
  FirstSeqs <- MCFirstSeqs
  Sizes <- MCSizes
  MaxFrames = 3
  NoSeq = NoSeq
SPECIFICATION Spec
INVARIANT OnlyFullFrames
CHECK_DEADLOCK FALSE
