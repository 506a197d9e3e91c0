---------------------------- MODULE MCItemCopies ----------------------------
EXTENDS ItemCopies
=============================================================================
