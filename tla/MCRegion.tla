------------------------------ MODULE MCRegion ------------------------------
(* Two chunks, a value of one sector and one of two: chunks grow, shrink,    *)
(* move, leave holes and fill them in a file of up to six sectors.           *)
EXTENDS Region, TLC
SectorsOfValues == [v \in Values |-> IF v = "small" THEN 1 ELSE 2]
ChunkSymmetry == Permutations(Chunks)
==============================================================================
