CONSTANTS
  r1 = r1
  r2 = r2
  r3 = r3
  sweep = sweep
  k1 = k1
  Nobody = Nobody
  NoKey = NoKey
  Callers <- MCCallers
  Keys <- MCKeys
  KeyOf <- MCKeyOf
  MaxQueuedPerKey = 2
  MaxCalls = 5
SPECIFICATION FairSpec
INVARIANTS
  TypeOK
  OneLiveHold
  HolderHasOwner
  QueueIsTheWaiting
  KeyCap
PROPERTIES
  ImplementsFifoLock
  WaiterServed
CHECK_DEADLOCK FALSE
