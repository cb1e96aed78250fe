CONSTANTS
  ENTRIES = 4
  Addr = {a1, a2}
  Data = {d1, d2}
  None = None
SPECIFICATION Spec
INVARIANTS TypeOK RingConsistent ForwardIsYoungest
PROPERTY ImplementsQueue
