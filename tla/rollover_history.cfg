SPECIFICATION MCSpec
CONSTANTS
  Size = 2
  GenMod = 2
  MaxStrong = 0
  MaxWeak = 1
  Producers = {p1}
  Consumers = {c1}
  StrongObservers = {}
  WeakObservers = {w1}
  AttachWhileTaking = FALSE
  MaxRows = 7
  Casts = {{p1, c1, w1}}
INVARIANTS
  HistoryReadable
