CONSTANTS
  Conn = {c1}
  Version = {v1, v2}
  Tunnelled = {v1}
  Port = {p1, p2}
  Caller = {k1, k2, k3}
  Direct = direct
  NoKey = nokey
  limit = 1
SPECIFICATION FairSpec
INVARIANTS ForwardsInMap PoolsInMap LimitKept PoolsGoFirst
PROPERTIES CallsEnd ShutdownEnds
CHECK_DEADLOCK FALSE
