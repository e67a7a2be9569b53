----------------------------- MODULE MCCpuTier -----------------------------
EXTENDS CpuTier

CONSTANTS e1, e2, e3, e4, s1, s2

\* One slot starts with an expert the store has no record of.
PlacedTwo == s1 :> e1 @@ s2 :> e2

\* A hit and a miss, two misses once the placement moves, and a pair alone.
Pairs == {<<e1, e3>>, <<e2, e4>>, <<e3, e4>>}
=============================================================================
