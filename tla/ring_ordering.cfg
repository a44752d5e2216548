SPECIFICATION MCSpec
CONSTANTS
  Size = 2
  Producers = {p1, p2}
  Consumers = {c1, c2}
  Observers = {o}
  MaxRows = 3
  Casts = {{p1, c1, c2}, {p1, p2, c1, o}}
CHECK_DEADLOCK FALSE
INVARIANTS
  NoDataRace
  OwnIndexExact
  ReadsOwnRow
