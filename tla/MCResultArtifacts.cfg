CONSTANTS
  Result = {w1, w2, w3}
  Reader = {r1}
  Connection = {a, b}
  about <- Compared
  Setting = {s1, s2}
  Policy = {p1, p2}
  Sizes = {3, 5}
  quota = 4
  maxEntries = 2
  maxWaiting = 2
  maximum = 1
  queueLimit = 1
  Edits = 1
SPECIFICATION MCSpec
INVARIANTS QuotaKept FilesAccounted DrainedClose
PROPERTIES ScopesHeld CloseEnds ExpiredGoes
CHECK_DEADLOCK FALSE
