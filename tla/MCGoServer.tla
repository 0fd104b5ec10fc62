----------------------------- MODULE MCGoServer -----------------------------
\* Instances of GoServer for TLC.
EXTENDS GoServer

CONSTANT c1
=============================================================================
