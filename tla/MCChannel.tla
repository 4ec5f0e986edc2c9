----------------------------- MODULE MCChannel -----------------------------
EXTENDS Channel

MCTraffic == {<<10, 0>>, <<5, 2>>, <<0, 3>>}
=============================================================================
