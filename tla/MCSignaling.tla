----------------------------- MODULE MCSignaling -----------------------------
\* The signaling for TLC: two requests, of two clients at once or of one whose gathering
\* was complete early; two runs of the file server, the second at the address of the
\* first or at another; one restart of the metadata server.
EXTENDS Signaling

CONSTANTS c1, c2, a1, a2

MCLateAnswer == {<< c1, 2 >>}

MCPlaces == {<< 1, a1 >>, << 2, a1 >>, << 2, a2 >>}
=============================================================================
