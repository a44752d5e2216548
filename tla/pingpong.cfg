SPECIFICATION FairSpec
CONSTANTS
  Capacity = 1
  Caller = b
  Callee = a
  CallObservers = {o1}
  ReplyObservers = {o2}
  CallWeakObservers = {}
  ReplyWeakObservers = {w}
  Main = m
  NMessages = 3
INVARIANTS
  OneBall
  ObserversSeeTheirs
PROPERTIES
  MeasurementEnds
