---------------------------- MODULE MCGoStreams -----------------------------
\* Instances of GoStreams for TLC.
EXTENDS GoStreams

CONSTANT c1
=============================================================================
