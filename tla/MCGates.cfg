CONSTANTS
  Caller = {c1, c2, c3, c4, c5}
  maximum = 2
  queueLimit = 2
  Requests = 5
SPECIFICATION Spec
INVARIANTS SlotAccounting QueueIsWaiting WorkConserving Exclusion ArrivalOrder EntryLifetime
PROPERTIES ImplementsPermits NoStarvation ImplementsLock NoStall
