------------------------------ MODULE MCTimers ------------------------------
EXTENDS SessionTimers
=============================================================================
