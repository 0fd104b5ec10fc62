---------------------------- MODULE MCRustClient ----------------------------
\* RustClient on small instances.
EXTENDS RustClient
=============================================================================
