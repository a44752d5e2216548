SPECIFICATION FairSpec
CONSTANTS
  Size = 2
  Producers = {p1, p2}
  Consumers = {c1}
  Observers = {o}
  WeakObservers = {w}
  Main = m
  NMessages = 4
INVARIANTS
  HashesAgree
  MeasuredAll
  WeakCursorsExist
  NeverStuck
PROPERTIES
  MainReturns
