\* Any file, and one packet that is not sent.
SPECIFICATION Spec
CONSTANTS
  Char = {"letter", "NUL"}
  SCTP_BUF_SIZE = 3
  NumFiles = 2
  MaxText = 3
  MaxLost = 1
INVARIANTS
  TypeOK
  NeverMixed
