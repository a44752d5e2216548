SPECIFICATION Spec
CONSTANTS
  Size = 2
  Producer = p
  WeakObservers = {w1, w2}
  MaxRows = 3
  MaxCopies = 2
CHECK_DEADLOCK FALSE
INVARIANTS
  KeptIsOwnRow
  KeptBeforeWrite
