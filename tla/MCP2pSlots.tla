----------------------------- MODULE MCP2pSlots -----------------------------
(* P2pSlots on small instances.                                            *)
EXTENDS P2pSlots

CONSTANTS r1, r2, r3

ThreeRanks == {r1, r2, r3}
FirstRank  == {r1}

=============================================================================
