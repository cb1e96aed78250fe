CONSTANTS
  X = X
  t2 = t2
  IO = IO
  Code = Code
  zero = zero
  one = one
  other = other
  None = None
  Tags = {X, t2, t3}
  CACHE_DEPTH = 1
  Io = {}
  Lanes = {0, 1}
  Val = {zero, one, other}
  ENTRIES = 2
  Programs <- DataPrograms
  AmoOp <- Invert
  PowerUp <- Garbage
  DivBehindMem = FALSE
SPECIFICATION Spec
SYMMETRY ValueSymmetry
VIEW View
CONSTRAINT NothingLost
INVARIANTS NewestCopyIsCurrent CleanLinesAreBacked LoadsReadLastStore MetadataIsCurrent RetiresOnce
