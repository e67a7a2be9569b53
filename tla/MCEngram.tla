------------------------------ MODULE MCEngram ------------------------------
(* Two Engram layers, rows a and b in the rank's range and z outside it.    *)
EXTENDS Engram
CONSTANTS a, b, z
TwoRows == {a, b}
TwoRequests == <<{<<a, z, a>>}, {<<a, b>>}>>
TwoOne == <<2, 1>>
OneAhead == {<<<<2, {a}>>>>}
=============================================================================
