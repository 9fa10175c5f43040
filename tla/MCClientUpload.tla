---------------------------- MODULE MCClientUpload ----------------------------
\* The node client for TLC: files of up to two chunks and a bit, chunks of up to two
\* slices and a bit, so that slices end inside, at and across the ends of chunks.
EXTENDS ClientUpload
=============================================================================
