--------------------------- MODULE MCFileTransfer ---------------------------
\* File transfer for TLC: two files, so that one can run into the other; a buffer for two
\* characters and texts of three, so that lines and files end in and between packets.
EXTENDS FileTransfer
=============================================================================
