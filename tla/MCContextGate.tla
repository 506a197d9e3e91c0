--------------------------- MODULE MCContextGate ---------------------------
EXTENDS ContextGate
=============================================================================
