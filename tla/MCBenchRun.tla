----------------------------- MODULE MCBenchRun -----------------------------
(* Two runners on one box, each with a matrix of the same two recipes.      *)
EXTENDS BenchRun
CONSTANTS p1, p2, a, b
TwoProcs == {p1, p2}
OneProc == {p1}
TwoRecipes == {a, b}
TwoModels == [r \in {a, b} |-> IF r = a THEN "m" ELSE "n"]
Lists == [p \in {p1, p2} |-> IF p = p1 THEN <<a, b>> ELSE <<b, a>>]
=============================================================================
