----------------------------- MODULE MCBufferSu -----------------------------
EXTENDS BufferSu
=============================================================================
