SPECIFICATION Spec
CONSTANTS
  Capacity = 1
  Caller = b
  Callee = a
  CallObservers = {o1}
  ReplyObservers = {}
  CallWeakObservers = {}
  ReplyWeakObservers = {}
  Main = m
  NMessages = 2
INVARIANTS
  TrackersAgree
