\* Text files over a channel that loses nothing.
SPECIFICATION Spec
CONSTANTS
  Char = {"letter", "newline"}
  SCTP_BUF_SIZE = 3
  NumFiles = 2
  MaxText = 3
  MaxLost = 0
PROPERTIES
  CopySpec
