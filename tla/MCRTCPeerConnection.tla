------------------------- MODULE MCRTCPeerConnection -------------------------
\* One peer for TLC: two channels of its own (one for InitConnection, one for a
\* GetDataChannel after Close) and one opened by the other peer.
EXTENDS RTCPeerConnection
=============================================================================
