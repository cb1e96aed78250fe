CONSTANTS
  X = X
  t2 = t2
  IO = IO
  Code = Code
  zero = zero
  one = one
  other = other
  None = None
  Tags = {X, t2, t3}
  CACHE_DEPTH = 1
  Io = {}
  Lanes = {0}
  Val = {zero, one, other}
  ENTRIES = 2
  Programs <- LosingPrograms
  AmoOp <- Invert
  PowerUp <- Garbage
  DivBehindMem = FALSE
SPECIFICATION Spec
SYMMETRY Symmetry
VIEW View
INVARIANT StoresSurvive
