---------------------------- MODULE MCFileServer ----------------------------
\* The C file server for TLC: with two requests one can wait for the other.
EXTENDS FileServer
=============================================================================
