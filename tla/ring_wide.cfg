SPECIFICATION MCSpec
CONSTANTS
  Size = 4
  GenMod = 8
  MaxStrong = 1
  MaxWeak = 1
  Producers = {p1, p2}
  Consumers = {c1, c2}
  StrongObservers = {s1, s2}
  WeakObservers = {w}
  AttachWhileTaking = FALSE
  MaxRows = 5
  Casts = {{p1, p2, c1, c2}, {p1, c1, s1, s2}, {p1, c1, w}}
SYMMETRY ThreadSymmetry
INVARIANTS
  ExclusiveAccess
  EmptyIsReal
  HistoryReadable
  OwnBitSurvives
PROPERTIES
  ImplementsTable
  FullIsReal
  ConsumerExactlyOnce
