\* Three threads, four slots in words of three bits: the last one is partial.
SPECIFICATION Spec
CONSTANTS
  Threads = {a, b, c}
  NumSlots = 4
  WordBits = 3
  MaxCalls = 5
SYMMETRY Symmetry
CHECK_DEADLOCK FALSE
INVARIANTS
  SlotsExact
  GivesUpUnderContention
  CountWithinChanges
