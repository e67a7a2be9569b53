---------------------------- MODULE MCStoreTail ----------------------------
(* StoreTail on small instances.                                           *)
EXTENDS StoreTail, TLC

CONSTANTS L1, L2, s1, s2, s3, s4, s5, set1, set2

OneLayer    == {L1}
TwoLayers   == {L1, L2}
Experts2    == 1 .. 2
Experts3    == 1 .. 3
TwoSlots    == {s1, s2}
ThreeSlots  == {s1, s2, s3}
FourSlots   == {s1, s2, s3, s4}
OneSet      == {set1}
TwoSets     == {set1, set2}

\* every record is in the store file / expert 3 is not (a GPU-only expert)
AllInStore  == Layers \X Experts
NoThird     == Layers \X (Experts \ {3})

\* slots are interchangeable
SlotSymmetry == Permutations(Slots)

=============================================================================
