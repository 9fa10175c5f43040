--------------------------- MODULE MCUploadClient ---------------------------
\* The upload client for TLC: two packets show an upload in the middle; two uploads, that
\* one can be followed by another.
EXTENDS UploadClient
=============================================================================
