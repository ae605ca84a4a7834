--------------------------- MODULE MCDirectRecords ---------------------------
EXTENDS DirectRecords
=============================================================================
