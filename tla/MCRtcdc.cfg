\* The comment of sy_upload: the websocket is closed before the rtcdc connection starts.
SPECIFICATION Spec
CONSTANTS
  Weak = FALSE
  Packets = 1
  MaxUploads = 1
INVARIANTS
  ClosedBeforeRtcdc
