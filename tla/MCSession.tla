----------------------------- MODULE MCSession -----------------------------
EXTENDS SessionPair
=============================================================================
