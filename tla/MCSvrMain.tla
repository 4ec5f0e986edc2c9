------------------------------ MODULE MCSvrMain ------------------------------
EXTENDS SvrMain, TLC

CONSTANTS c1, c2, c3, a1, a2, a3

\* All ways to spread three connections over three addresses, up to their names.
MCFrom == {c1 :> a1 @@ c2 :> a1 @@ c3 :> a1,
           c1 :> a1 @@ c2 :> a1 @@ c3 :> a2,
           c1 :> a1 @@ c2 :> a2 @@ c3 :> a3}
=============================================================================
