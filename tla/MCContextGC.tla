---------------------------- MODULE MCContextGC ----------------------------
\* Small instances of ContextGC.
EXTENDS ContextGC
=============================================================================
