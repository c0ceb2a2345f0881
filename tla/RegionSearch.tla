---------------------------- MODULE RegionSearch ----------------------------
(***************************************************************************)
(* The search of set_region_chunk for a run of free sectors                *)
(* (podrum/world/format/anvil/region.c), one step per pass of its two      *)
(* loops.  Region uses its result, FirstRun.                               *)
(***************************************************************************)
EXTENDS SectorMap

CONSTANTS MaxSize,    \* bound: sectors of the file
          MaxRequired \* required_sector_count is a char

ASSUME MaxSizeIsNat == MaxSize \in Nat
ASSUME MaxRequiredIsChar == MaxRequired \in 1..127

VARIABLES free_size, free_map, \* sector_free_size, sector_free: not written by the loops
          required,            \* required_sector_count
          pc,                  \* "first", "extend", "done"
          sector, run_start, run_length

search == <<free_size, free_map, required, pc, sector, run_start, run_length>>
given == <<free_size, free_map, required>>

SearchInit ==
  /\ free_size \in 1..MaxSize
  /\ free_map \in [0..(free_size - 1) -> BOOLEAN]
  /\ required \in 1..MaxRequired
  /\ pc = "first"
  /\ sector = 0 /\ run_start = -1 /\ run_length = 0

\* The first loop: past the sectors in use.
Skip ==
  /\ pc = "first" /\ sector < free_size /\ ~free_map[sector]
  /\ sector' = sector + 1
  /\ UNCHANGED <<given, pc, run_start, run_length>>

\* Its break.  The second loop starts over at this sector.
FoundFree ==
  /\ pc = "first" /\ sector < free_size /\ free_map[sector]
  /\ run_start' = sector
  /\ pc' = "extend"
  /\ UNCHANGED <<given, sector, run_length>>

NothingFree ==
  /\ pc = "first" /\ sector >= free_size
  /\ pc' = "done"
  /\ UNCHANGED <<given, sector, run_start, run_length>>

\* After a pass: the break, or the next sector.
Pass == IF run_length' >= required THEN pc' = "done" /\ sector' = sector ELSE pc' = pc /\ sector' = sector + 1

\* Mutant: the loop does not stop at a run that is long enough.
MutExtend ==
  /\ pc = "extend" /\ sector < free_size
  /\ run_length # 0 /\ free_map[sector]
  /\ run_length' = run_length + 1
  /\ sector' = sector + 1
  /\ UNCHANGED <<given, pc, run_start>>

Extend ==
  /\ pc = "extend" /\ sector < free_size
  /\ run_length # 0 /\ free_map[sector]
  /\ run_length' = run_length + 1
  /\ Pass
  /\ UNCHANGED <<given, run_start>>

Interrupt ==
  /\ pc = "extend" /\ sector < free_size
  /\ run_length # 0 /\ ~free_map[sector]
  /\ run_length' = 0
  /\ Pass
  /\ UNCHANGED <<given, run_start>>

Start ==
  /\ pc = "extend" /\ sector < free_size
  /\ run_length = 0
  /\ IF free_map[sector] THEN run_start' = sector /\ run_length' = 1 ELSE UNCHANGED <<run_start, run_length>>
  /\ Pass
  /\ UNCHANGED given

End ==
  /\ pc = "extend" /\ sector >= free_size
  /\ pc' = "done"
  /\ UNCHANGED <<given, sector, run_start, run_length>>

SearchNext == Skip \/ FoundFree \/ NothingFree \/ Extend \/ Interrupt \/ Start \/ End

SearchSpec == SearchInit /\ [][SearchNext]_search

\* The test after the loops: write at run_start, or append to the file.
Found == run_length >= required
------------------------------------------------------------------------------
SearchTypeOK ==
  /\ free_size \in 1..MaxSize
  /\ free_map \in [0..(free_size - 1) -> BOOLEAN]
  /\ required \in 1..MaxRequired
  /\ pc \in {"first", "extend", "done"}
  /\ sector \in 0..free_size
  /\ run_start \in -1..(free_size - 1)
  /\ run_length \in 0..required

\* When the loops end, the chunk is placed in the lowest free run that holds it, and
\* the file grows only when there is none (region.c:242).
FindsFirstRun ==
  pc = "done" =>
    /\ Found <=> HasRun(free_map, required)
    /\ Found => run_start = FirstRun(free_map, required)

\* The inductive invariant.  Between passes run_length counts the free sectors just
\* before i, and no run that is long enough started at a sector below them.
SearchInv ==
  /\ SearchTypeOK
  /\ pc = "first" => /\ run_length = 0 /\ run_start = -1
                     /\ \A s \in 0..(sector - 1) : ~free_map[s]
  /\ pc # "first" /\ run_length # 0 => run_start >= 0
  /\ pc = "extend" =>
       /\ run_length < required
       /\ run_length # 0 => /\ run_start = sector - run_length
                            /\ IsRun(free_map, run_start, run_length)
       /\ \A t \in 0..(sector - run_length - 1) : ~IsRun(free_map, t, required)
  /\ pc = "done" =>
       IF Found THEN /\ IsRun(free_map, run_start, required)
                     /\ \A t \in 0..(run_start - 1) : ~IsRun(free_map, t, required)
                ELSE ~HasRun(free_map, required)
==============================================================================
