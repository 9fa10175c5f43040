\* Two connections that request, and a metadata server that may fail or go away.
SPECIFICATION FairSpec
CONSTANTS
  Clients = {c1, c2}
INVARIANTS
  TypeOK
  NestedGoesOn
PROPERTIES
  TakenUp
