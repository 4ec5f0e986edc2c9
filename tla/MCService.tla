----------------------------- MODULE MCService -----------------------------
EXTENDS SimpleSSHDService, TLC

CONSTANTS w1, w2, main

MCWaiter == {w1, w2}
MCSymmetry == Permutations(MCWaiter)
=============================================================================
