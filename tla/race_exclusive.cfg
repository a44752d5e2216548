SPECIFICATION MCSpec
CONSTANTS
  Size = 2
  GenMod = 8
  MaxStrong = 2
  MaxWeak = 0
  Producers = {p1}
  Consumers = {c1}
  StrongObservers = {s1, s2}
  WeakObservers = {}
  AttachWhileTaking = TRUE
  MaxRows = 4
  Casts = {{p1, c1, s1, s2}}
SYMMETRY ThreadSymmetry
INVARIANTS
  ExclusiveAccess
