\* The ARM build: does the loop that waits for the answer wait for all of it?
SPECIFICATION Spec
CONSTANTS
  Weak = TRUE
  Packets = 1
  MaxUploads = 1
INVARIANTS
  AnswerArrived
