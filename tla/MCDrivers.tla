------------------------------ MODULE MCDrivers ------------------------------
\* The two programs for TLC, from one start of each to its end, with both offer.cc: a
\* message can be lost before the channel opens and another one arrive.
EXTENDS Drivers
=============================================================================
