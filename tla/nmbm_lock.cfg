SPECIFICATION FairSpec
CONSTANTS
  t1 = t1
  t2 = t2
  t3 = t3
  Threads <- ThreeThreads
  MaxRequests = 2
INVARIANTS TypeOK NoLostWakeup StateTells
PROPERTY ImplementsOneAtATime  Served
\* a device that is shut down keeps every thread waiting
CHECK_DEADLOCK FALSE
