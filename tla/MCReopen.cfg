\* Any application: callbacks at any time, channels asked for again after Close.
SPECIFICATION Spec
CONSTANTS
  LocalChan = {l1, l2}
  RemoteChan = {r1}
  NoChan = none
  Negotiations = 1
  Early = FALSE
  Reopen = TRUE
INVARIANTS
  NoFreedCallback
  NoLeak
  IInv
PROPERTIES
  LifetimeSpec
