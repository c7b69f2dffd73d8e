--------------------------- MODULE MCDocumentVault ---------------------------
EXTENDS DocumentVault, TLC
=============================================================================
