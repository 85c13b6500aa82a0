CONSTANTS
  Conn = {c1}
  Version = {v1, v2}
  Tunnelled = {v1, v2}
  Port = {p1, p2}
  Caller = {k1, k2}
  Direct = direct
  NoKey = nokey
  limit = 1
SPECIFICATION Spec
INVARIANT ForwardIsConfigured
CHECK_DEADLOCK FALSE
