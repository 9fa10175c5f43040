\* Every crash and restart; the event loops are fair.
SPECIFICATION FairSpec
CONSTANTS
  c1 = c1
  c2 = c2
  a1 = a1
  a2 = a2
  Client = {c1, c2}
  Late = {c1}
  LateAnswer <- MCLateAnswer
  FileServer = {1, 2}
  Addr = {a1, a2}
  Places <- MCPlaces
  NoServer = none
  MaxRequests = 2
  MaxRestarts = 1
INVARIANTS
  TypeOK
  PromiseKept
  OldestServes
  NoneForgotten
PROPERTIES
  ExchangeSpec
  Resolved
CHECK_DEADLOCK FALSE
