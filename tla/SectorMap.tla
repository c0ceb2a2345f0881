------------------------------ MODULE SectorMap ------------------------------
(***************************************************************************)
(* The free-sector map of a region file (sector_free of region_t): a       *)
(* function from 0..(size - 1) to BOOLEAN, TRUE for a free sector.         *)
(***************************************************************************)
EXTENDS Integers

SectorRange(first, count) == first..(first + count - 1)

\* The count sectors from first on exist and are free.
IsRun(free, first, count) ==
  SectorRange(first, count) \subseteq {s \in DOMAIN free : free[s]}

HasRun(free, count) == \E s \in DOMAIN free : IsRun(free, s, count)

\* The lowest run long enough.
FirstRun(free, count) ==
  CHOOSE s \in DOMAIN free : /\ IsRun(free, s, count)
                             /\ \A t \in 0..(s - 1) : ~IsRun(free, t, count)
==============================================================================
