----------------------------- MODULE MCResponse -----------------------------
EXTENDS Response

Both == BOOLEAN
=============================================================================
