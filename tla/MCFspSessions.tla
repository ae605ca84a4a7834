--------------------------- MODULE MCFspSessions ---------------------------
EXTENDS FspSessions
=============================================================================
