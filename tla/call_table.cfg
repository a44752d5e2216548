SPECIFICATION FairSpec
CONSTANTS
  Capacity = 1
  Producer = p
  Consumer = c
  NMessages = 6
INVARIANTS
  CallInv
  HandledOwnRow
  NoLockCycle
PROPERTIES
  HandleReturns
  CallbackComesFree
