SPECIFICATION FairSpec
CONSTANTS
  Capacity = 1
  Producer = p
  Consumer = c
  Observers = {o}
  NMessages = 3
  Handlers = {"busy", "yield", "condvar", "park"}
  BusyLoops = 0
  CounterMax = 2
CHECK_DEADLOCK FALSE
INVARIANTS
  TypeOK
  ListIsLive
PROPERTIES
  EventsAnnounced
  ParkedGoOn
  AllHandled
