CONSTANTS
  Txn = {t1}
  SqlServer = {}
  Policies = {open, closed}
  Writable = {open}
  limit = 2
  Sweeps = {s1}
  Claims = 1
SPECIFICATION Spec
INVARIANT PoolsCloseLast
