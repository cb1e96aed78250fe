CONSTANTS
  X = X
  t2 = t2
  IO = IO
  Code = Code
  zero = zero
  one = one
  other = other
  None = None
  Tags = {X, t2, t3}
  CACHE_DEPTH = 2
  Io = {IO}
  Lanes = {0}
  Val = {zero, one, other}
  ENTRIES = 2
  Programs <- ControlPrograms
  AmoOp <- Invert
  PowerUp <- Garbage
  DivBehindMem = FALSE
SPECIFICATION Spec
SYMMETRY Symmetry
VIEW View
CONSTRAINT NothingLost
INVARIANTS UncachedOnce BusIsOwned MaintenanceIsSound
PROPERTY FenceOrders
