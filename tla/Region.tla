------------------------------- MODULE Region -------------------------------
(***************************************************************************)
(* A region file of chunks (podrum/world/format/anvil/region.c): the       *)
(* sector allocator of set_region_chunk, the offset table, the file that   *)
(* save_region rewrites, and a process that may die at any point.          *)
(*                                                                         *)
(* A file is its table of offsets and its sectors, from 0.  Sectors 0 and  *)
(* 1 are the tables; a sector of a chunk is a part of a value (compressed  *)
(* data with its length), Blank when it is zero, Garbage when a chunk in   *)
(* it does not decode.  One process, one region, no threads.               *)
(***************************************************************************)
EXTENDS SectorMap, FiniteSets

CONSTANTS Chunks,    \* places of the region (x and z below 32)
          Values,    \* data of a chunk
          Sectors,   \* required_sector_count of a value
          NoValue,   \* the empty buffer of get_region_chunk
          MaxSectors \* bound: sectors of the file

\* required_sector_count and sector_count are of type char.
ASSUME SectorsFitChar == Sectors \in [Values -> 1..127]
ASSUME NoValueIsNone == NoValue \notin Values
ASSUME MaxSectorsIsNat == MaxSectors \in Nat \ {0, 1}

VARIABLES file,        \* what is on disk
          step,        \* "closed", "open", "saving" or "closing": within save_region
          offsets,     \* offsets, and the first sector of file_stream
          sectors,     \* the rest of file_stream, in sectors
          sector_free,
          torn,        \* history: a save was cut and some of its sectors are missing
          complete,    \* history: the last save ran to its end
          written,     \* history: what each chunk was last set to, or held when opened
          saved        \* history: what each chunk held when the last save started

region == <<offsets, sectors, sector_free>>
vars == <<file, step, region, torn, complete, written, saved>>

Part(v, k) == [value |-> v, part |-> k]
Blank == Part(NoValue, 0)
Garbage == Part(NoValue, 1)
Contents == {Part(v, k) : v \in Values, k \in 1..127} \cup {Blank, Garbage}

Absent == [index |-> 0, count |-> 0]
SectorsOf(offset) == SectorRange(offset.index, offset.count)

EmptyRegion == [offsets |-> [c \in Chunks |-> Absent], sectors |-> [s \in 0..1 |-> Blank]]
NothingWritten == [offsets |-> [c \in Chunks |-> Absent], sectors |-> [s \in {} |-> Blank]]

Size(map) == Cardinality(DOMAIN map)

\* get_region_chunk: the value, or the empty buffer when the chunk is absent, lies
\* past the end, is longer than its sectors, or does not decode.
get_region_chunk(offset, map) ==
  LET Whole(v) == /\ Sectors[v] <= offset.count
                  /\ \A k \in 1..Sectors[v] : map[offset.index + k - 1] = Part(v, k)
  IN IF /\ offset # Absent
        /\ offset.index + offset.count <= Size(map)
        /\ \E v \in Values : Whole(v)
     THEN CHOOSE v \in Values : Whole(v)
     ELSE NoValue

Chunk(c) == get_region_chunk(offsets[c], sectors)
InMemory == step # "closed"

\* What the process keeps once the region is closed or the process is dead: nothing.
Forget ==
  /\ offsets' = EmptyRegion.offsets /\ sectors' = EmptyRegion.sectors
  /\ sector_free' = [s \in 0..1 |-> FALSE]
  /\ written' = [c \in Chunks |-> NoValue]

\* open_region needs a file: an empty one is a region without chunks.
Init ==
  /\ file = NothingWritten
  /\ step = "closed"
  /\ offsets = EmptyRegion.offsets /\ sectors = EmptyRegion.sectors
  /\ sector_free = [s \in 0..1 |-> FALSE]
  /\ torn = FALSE /\ complete = TRUE
  /\ written = [c \in Chunks |-> NoValue]
  /\ saved = [c \in Chunks |-> NoValue]

\* The sectors that the offsets within the file cover.
Covered(table, size) ==
  UNION {SectorsOf(table[c]) : c \in {d \in Chunks : table[d].index + table[d].count <= size}}

\* A file without a whole first sector is replaced by an empty region.
open_region ==
  /\ step = "closed"
  /\ LET from == IF Size(file.sectors) = 0 THEN EmptyRegion ELSE file
         size == Size(from.sectors)
     IN /\ offsets' = from.offsets /\ sectors' = from.sectors
        /\ sector_free' = [s \in 0..(size - 1) |-> s > 1 /\ s \notin Covered(from.offsets, size)]
        /\ written' = [c \in Chunks |-> get_region_chunk(from.offsets[c], from.sectors)]
  /\ step' = "open"
  /\ UNCHANGED <<file, torn, complete, saved>>

\* set_region_sector: the value's bytes, as far as the stream is allocated.  A write
\* past the end does nothing here that this module can see, or ends the process (Crash).
set_region_sector(map, first, v) ==
  [s \in DOMAIN map |-> IF s \in SectorRange(first, Sectors[v]) THEN Part(v, s - first + 1) ELSE map[s]]

\* set_region_timestamp writes into sector 1.  It is the second table, except when a cut
\* file of one sector was extended by a chunk: then the chunk may be damaged.
Stamped(map) == IF 1 \in DOMAIN map /\ map[1] # Blank
                THEN {map, [map EXCEPT ![1] = Garbage]} ELSE {map}
\* Mutant: data that needs one sector more than before stays where it is.
MutInPlace(offset, v) == offset.index # 0 /\ offset.count + 1 >= Sectors[v]

InPlace(offset, v) == offset.index # 0 /\ offset.count = Sectors[v]

\* Mutant: the old sectors are not given back.
MutReleased(offset) == sector_free

\* The sectors of the old data are free before the search.
Released(offset) == [s \in DOMAIN sector_free |-> sector_free[s] \/ s \in SectorsOf(offset)]
\* Mutant: the sector after the run is taken for the run's last one.
MutAllocated(free, first, count) ==
  [s \in DOMAIN free |-> IF s \in SectorRange(first + 1, count) THEN FALSE ELSE free[s]]

Allocated(free, first, count) ==
  [s \in DOMAIN free |-> IF s \in SectorRange(first, count) THEN FALSE ELSE free[s]]

Rewrite(c, v) ==
  /\ InPlace(offsets[c], v)
  /\ sectors' = set_region_sector(sectors, offsets[c].index, v)
  /\ UNCHANGED <<offsets, sector_free>>

Move(c, v) ==
  LET free == Released(offsets[c])
      first == FirstRun(free, Sectors[v])
  IN /\ ~InPlace(offsets[c], v)
     /\ HasRun(free, Sectors[v])
     /\ offsets' = [offsets EXCEPT ![c] = [index |-> first, count |-> Sectors[v]]]
     /\ sector_free' = Allocated(free, first, Sectors[v])
     /\ sectors' \in Stamped(set_region_sector(sectors, first, v))

\* No run is long enough: the file grows by what is required, whatever is free at its end.
Append(c, v) ==
  LET free == Released(offsets[c])
      first == Size(sectors)
      size == first + Sectors[v]
  IN /\ ~InPlace(offsets[c], v)
     /\ ~HasRun(free, Sectors[v])
     /\ size <= MaxSectors
     /\ offsets' = [offsets EXCEPT ![c] = [index |-> first, count |-> Sectors[v]]]
     /\ sector_free' = [s \in 0..(size - 1) |-> s < first /\ free[s]]
     /\ sectors' \in Stamped(set_region_sector(
                       [s \in 0..(size - 1) |-> IF s < first THEN sectors[s] ELSE Blank], first, v))

\* When compression fails nothing changes.
set_region_chunk(c, v) ==
  /\ step = "open"
  /\ Rewrite(c, v) \/ Move(c, v) \/ Append(c, v)
  /\ written' = [written EXCEPT ![c] = v]
  /\ UNCHANGED <<file, step, torn, complete, saved>>

\* save_region and close_region: fopen(.., "w") empties the file ...
SaveTruncate ==
  /\ step = "open"
  /\ step' \in {"saving", "closing"}
  /\ file' = NothingWritten
  /\ complete' = FALSE
  /\ saved' = [c \in Chunks |-> Chunk(c)]
  /\ UNCHANGED <<region, torn, written>>

\* Mutant: the file is written as long as it was opened.
MutSaveWrite ==
  /\ step \in {"saving", "closing"}
  /\ file' = [offsets |-> offsets, sectors |-> [s \in DOMAIN sectors |-> IF s < 4 THEN sectors[s] ELSE Blank]]
  /\ complete' = TRUE
  /\ IF step = "closing" THEN step' = "closed" /\ Forget ELSE step' = "open" /\ UNCHANGED <<region, written>>
  /\ UNCHANGED <<torn, saved>>

\* ... and fwrite and fclose write the stream.
SaveWrite ==
  /\ step \in {"saving", "closing"}
  /\ file' = [offsets |-> offsets, sectors |-> sectors]
  /\ complete' = TRUE
  /\ IF step = "closing" THEN step' = "closed" /\ Forget ELSE step' = "open" /\ UNCHANGED <<region, written>>
  /\ UNCHANGED <<torn, saved>>

\* The file when the process dies in fwrite: its first n sectors, and what is left of
\* the next one when that is more than half (open_region pads the file by as many
\* bytes as there are in the last sector).  Fewer bytes than half a sector are dropped:
\* they are in no sector of the free map.
Cut(n) ==
  [offsets |-> IF n = 0 THEN EmptyRegion.offsets ELSE offsets, sectors |-> [s \in 0..(n - 1) |-> sectors[s]]]
CutPadded(n) ==
  [offsets |-> offsets,
   sectors |-> [s \in 0..n |-> IF s = n /\ sectors[s] # Blank THEN Garbage ELSE sectors[s]]]

Crash ==
  /\ InMemory
  /\ step' = "closed" /\ Forget
  /\ UNCHANGED <<complete, saved>>
  /\ IF step = "open" THEN UNCHANGED <<file, torn>>
     ELSE LET size == Size(sectors)
          IN \E n \in 0..size :
               /\ file' \in {Cut(n)} \cup (IF n \in 1..(size - 1) THEN {CutPadded(n)} ELSE {})
               /\ torn' = IF n = 0 THEN FALSE ELSE torn \/ n < size

Next ==
  \/ open_region
  \/ \E c \in Chunks, v \in Values : set_region_chunk(c, v)
  \/ SaveTruncate \/ SaveWrite
  \/ Crash

Spec == Init /\ [][Next]_vars
------------------------------------------------------------------------------
Offsets == [index : 0..MaxSectors, count : 0..127]
IsMap(map, range) == Size(map) \in 0..MaxSectors /\ map \in [0..(Size(map) - 1) -> range]

TypeOK ==
  /\ file.offsets \in [Chunks -> Offsets] /\ offsets \in [Chunks -> Offsets]
  /\ IsMap(file.sectors, Contents) /\ IsMap(sectors, Contents)
  /\ IsMap(sector_free, BOOLEAN) /\ DOMAIN sector_free = DOMAIN sectors
  /\ step \in {"closed", "open", "saving", "closing"}
  /\ torn \in BOOLEAN /\ complete \in BOOLEAN
  /\ written \in [Chunks -> Values \cup {NoValue}]
  /\ saved \in [Chunks -> Values \cup {NoValue}]

\* No two chunks share a sector, none lies on the tables or past the end, whatever was
\* moved, freed, appended, saved and opened again (region.c:210-264) - unless a save
\* was cut: its offsets stay and later point into sectors appended for others.
NoSharedSectors ==
  ~torn =>
    /\ \A c, d \in Chunks : c # d => SectorsOf(offsets[c]) \cap SectorsOf(offsets[d]) = {}
    /\ \A c \in Chunks : SectorsOf(offsets[c]) \subseteq 2..(Size(sectors) - 1)

\* sector_free is the complement of the sectors in use: none leaks and none is free
\* while a chunk is in it.
FreeMapIsExact ==
  ~torn => \A s \in DOMAIN sector_free : sector_free[s] <=> s > 1 /\ s \notin Covered(offsets, Size(sectors))

\* A chunk reads as what it was last set to, however the others grew, shrank and moved.
ReadBack == ~torn => \A c \in Chunks : InMemory => Chunk(c) = written[c]

\* The next open finds every chunk as it was when the last save started if that save
\* ended, and otherwise as it was or not at all: never another chunk's data, never a part.
ReopenGivesSaved ==
  [][~InMemory /\ InMemory' =>
       \A c \in Chunks : /\ Chunk(c)' \in {saved[c], NoValue}
                         /\ complete => Chunk(c)' = saved[c]]_vars
==============================================================================
