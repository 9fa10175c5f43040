\* The 64 bit build, with sleeps that may be too short and a connection that may fail.
SPECIFICATION FairSpec
CONSTANTS
  Weak = FALSE
  Packets = 2
  MaxUploads = 2
INVARIANTS
  TypeOK
  RequestIsOffer
  AnswerArrived
  AnswerStays
  StackOutlived
  NeverCutShort
PROPERTIES
  Returns
