---------------------------- MODULE MCCppServer ----------------------------
\* CppServer on a small instance.
EXTENDS CppServer, TLC

CONSTANTS b1, b2, b3, b4

MCSlots == UNION {SlotsOf(i) : i \in Calls}
MCRaws == UNION {RawsOf(i) : i \in Calls}

\* Blocks that hold the same things are interchangeable.
MCSymmetry == Permutations({b1, b2, b3})
=============================================================================
