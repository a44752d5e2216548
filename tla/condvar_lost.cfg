SPECIFICATION FairSpec
CONSTANTS
  Capacity = 1
  Producer = p
  Consumer = c
  Observers = {}
  NMessages = 3
  Handlers = {"condvar"}
  BusyLoops = 0
  CounterMax = 2
CHECK_DEADLOCK FALSE
PROPERTIES
  WaitersWake
