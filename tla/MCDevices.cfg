SPECIFICATION DevicesSpec
CONSTANTS
  Parts = {"upload", "memory", "libs", "vga", "timer", "uart", "pmu"}
  RADIX = 4
  WIDTH = 2
  SYNC_REQ = 3
  MAX_SEGMENTS = 2
  Segments <- TwoSegments
  Entry = 6
  Divisors = {0, 2}
  Attempts = 2
  MaxLost = 1
  MaxDamaged = 1
  MaxRuns = 2
  NO_FAULT = NO_FAULT
  ROUNDS = 2
  BITS = 4
  TEN = 3
  Widths = {0, 2, 5}
  VGA_WIDTH = 4
  VGA_HEIGHT = 2
  Writers = {w1, w2}
  NOBODY = NOBODY
  MAXDRAWINGS = 1
  WORD = 3
  Deltas = {1, 2}
  CYCLES = 5
  FRAME = 2
  POLL = 4
  BUDGET = 3
  TX_BURST = 1
  PACE = 35
  LINE = 2
  TYPED = 2
  WRITTEN = 2
  PRINTED = 2
  HALF = 2
  COUNTED = 5
  NESTED = 2
CHECK_DEADLOCK FALSE
INVARIANTS UploadIsSafe MemoryIsReady LibrariesAreRight PixelsAreInPlace TimeIsTrue BytesAreKept EachEventIsCountedOnce
PROPERTIES UploadEnds EventComes OutputComes
