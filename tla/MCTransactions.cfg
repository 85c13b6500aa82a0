CONSTANTS
  Txn = {t1, t2, t3}
  SqlServer = {t2, t3}
  Policies = {open, closed}
  Writable = {open}
  limit = 2
  Sweeps = {s1, s2}
  Claims = 2
SPECIFICATION MCSpec
INVARIANTS IdleIsUsable ReturnedOnce NoLostLease SessionLimit
PROPERTIES ImplementsOutcome LeaseComesBack
