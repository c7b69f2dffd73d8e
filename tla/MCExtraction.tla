---------------------------- MODULE MCExtraction ----------------------------
EXTENDS ExtractionPage, TLC
=============================================================================
