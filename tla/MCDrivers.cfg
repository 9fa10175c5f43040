\* Fair programs; any person.
SPECIFICATION FairSpec
CONSTANTS
  Burst = 2
  MaxLines = 1
INVARIANTS
  TypeOK
  GotIsPrefix
  HearsPresent
  FactoryHasThread
PROPERTIES
  Heard
  Ends
