------------------------------ MODULE MCCServer ------------------------------
\* CServer on small instances.
EXTENDS CServer
=============================================================================
