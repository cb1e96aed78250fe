CONSTANTS
  Code = Code
  None = None
  word = word
  t1 = t1
  Tags = {t1, t2, t3}
  CACHE_DEPTH = 1
  Io = {}
  Lanes = {0}
  Val = {word}
  ENTRIES = 2
  Programs <- StallingPrograms
  AmoOp <- Same
  PowerUp <- Garbage
  DivBehindMem = FALSE
SPECIFICATION FairSpec
CONSTRAINT NothingLost
PROPERTY StallsEnd
