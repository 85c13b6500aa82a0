CONSTANTS
  Txn = {t1, t2}
  SqlServer = {t2}
  Policies = {open, closed}
  Writable = {open}
  limit = 2
  Sweeps = {s1}
  Claims = 1
SPECIFICATION Spec
PROPERTY SweepSparesBusy
