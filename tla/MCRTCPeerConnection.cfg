\* The application of the clients: one negotiation, callbacks first, no channel after Close.
SPECIFICATION FairSpec
CONSTANTS
  LocalChan = {l1}
  RemoteChan = {r1}
  NoChan = none
  Negotiations = 1
  Early = TRUE
  Reopen = FALSE
INVARIANTS
  TypeOK
  OpenHoldsChannel
  NoNullChannel
  CopyIsLive
  NothingMissed
PROPERTIES
  CallsReturn
