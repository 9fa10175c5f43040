\* Is a request answered?
SPECIFICATION FairSpec
CONSTANTS
  Clients = {c1, c2}
PROPERTIES
  Answered
