SPECIFICATION MCFairSpec
CONSTANTS
  Size = 2
  GenMod = 2
  MaxStrong = 1
  MaxWeak = 2
  Producers = {p1}
  Consumers = {c1}
  StrongObservers = {s1}
  WeakObservers = {w1}
  AttachWhileTaking = TRUE
  MaxRows = 6
  Casts = {{p1, c1, s1}, {p1, c1, w1}}
INVARIANTS
  TypeOK
  RingInv
  WeakInv
  WeakRowExact
  WordDecodes
  IndexDecodes
PROPERTIES
  ConsumerExactlyOnce
  ImplementsStream
  PutCompletes
  RowsTaken
