---------------------------- MODULE RegionProofs ----------------------------
(***************************************************************************)
(* The region file of region.c for any chunks, values and bound on its     *)
(* size: the allocator never gives a sector to two chunks and loses none,  *)
(* chunks read as written, and what a process that died left on disk is    *)
(* what was saved or nothing.                                              *)
(***************************************************************************)
EXTENDS Region, RegionSearch, FiniteSetTheorems, WellFoundedInduction, TLAPS

\* A table and a file that agree: no sector in two chunks, none on the tables, none
\* past the end, and sector 1 is the table of timestamps.
Consistent(table, map) ==
  /\ Size(map) >= 2 /\ map[1] = Blank
  /\ \A c, d \in Chunks : c # d => SectorsOf(table[c]) \cap SectorsOf(table[d]) = {}
  /\ \A c \in Chunks :
       \/ table[c] = Absent
       \/ /\ table[c].count >= 1 /\ table[c].index >= 2
          /\ table[c].index + table[c].count <= Size(map)

\* The free map is exact, said without the sectors past the end.
FreeExact == \A s \in DOMAIN sector_free : sector_free[s] <=> s > 1 /\ \A c \in Chunks : s \notin SectorsOf(offsets[c])

\* The process's memory, while no save was cut.
MemoryInv ==
  /\ ~torn => Consistent(offsets, sectors) /\ FreeExact
  /\ ReadBack

\* The file, while no save was cut.
FileInv == ~torn /\ Size(file.sectors) # 0 => Consistent(file.offsets, file.sectors)

FileChunk(c) == get_region_chunk(file.offsets[c], file.sectors)

\* What was saved: in memory while it is being written, and then on disk.
SavedInv ==
  /\ step \in {"saving", "closing"} => ~complete /\ \A c \in Chunks : saved[c] = Chunk(c)
  /\ step \in {"closed", "open"} =>
       \A c \in Chunks : FileChunk(c) \in {saved[c], NoValue} /\ (complete => FileChunk(c) = saved[c])

IInv == TypeOK /\ MemoryInv /\ FileInv /\ SavedInv
------------------------------------------------------------------------------
(* The size of a map, and reading a chunk. *)

LEMMA SizeOf == ASSUME NEW map, NEW n \in Nat, DOMAIN map = 0..(n - 1) PROVE Size(map) = n
BY FS_Interval DEF Size

LEMMA SectorsAreNat == ASSUME NEW v \in Values PROVE Sectors[v] \in 1..127
BY SectorsFitChar

LEMMA RangeIs ==
  ASSUME NEW at \in Nat, NEW v \in Values, NEW s
  PROVE  /\ s \in SectorRange(at, Sectors[v]) => s \in Nat /\ at <= s /\ s - at + 1 \in 1..Sectors[v] /\ s - at + 1 \in 1..127
         /\ s \in Nat /\ s - at + 1 \in 1..Sectors[v] => s \in SectorRange(at, Sectors[v])
<1>1. PICK k : k = Sectors[v]
  OBVIOUS
<1>2. k \in 1..127
  BY <1>1, SectorsAreNat
<1>3. s \in SectorRange(at, k) => s \in Nat /\ at <= s /\ s - at + 1 \in 1..k /\ s - at + 1 \in 1..127
  BY <1>2 DEF SectorRange
<1>4. s \in Nat /\ s - at + 1 \in 1..k => s \in SectorRange(at, k)
  BY <1>2 DEF SectorRange
<1> QED
  BY <1>1, <1>3, <1>4

LEMMA MapFacts ==
  ASSUME NEW map, NEW range, IsMap(map, range)
  PROVE  /\ Size(map) \in Nat /\ Size(map) <= MaxSectors /\ DOMAIN map = 0..(Size(map) - 1)
         /\ \A s \in 0..(Size(map) - 1) : map[s] \in range
BY MaxSectorsIsNat DEF IsMap

LEMMA MapIs ==
  ASSUME NEW n \in 0..MaxSectors, NEW range, NEW map \in [0..(n - 1) -> range]
  PROVE  IsMap(map, range) /\ Size(map) = n
<1>1. n \in Nat
  BY MaxSectorsIsNat
<1>2. Size(map) = n
  BY <1>1, SizeOf
<1> QED
  BY <1>2 DEF IsMap

\* The chunk at offset is v.
Holds(offset, map, v) ==
  /\ offset # Absent
  /\ offset.index + offset.count <= Size(map)
  /\ Sectors[v] <= offset.count
  /\ \A k \in 1..Sectors[v] : map[offset.index + k - 1] = Part(v, k)

LEMMA HoldsOne ==
  ASSUME NEW offset, NEW map, NEW v \in Values, NEW w \in Values, Holds(offset, map, v), Holds(offset, map, w)
  PROVE  v = w
<1>1. 1 \in 1..Sectors[v] /\ 1 \in 1..Sectors[w]
  BY SectorsAreNat
<1>2. Part(v, 1) = Part(w, 1)
  BY <1>1 DEF Holds
<1> QED
  BY <1>2 DEF Part

\* get_region_chunk reads the value that is there, or none when there is none.
LEMMA GetIs ==
  ASSUME NEW offset, NEW map
  PROVE  \/ \E v \in Values : Holds(offset, map, v) /\ get_region_chunk(offset, map) = v
         \/ get_region_chunk(offset, map) = NoValue /\ \A v \in Values : ~Holds(offset, map, v)
<1> DEFINE Whole(v) == /\ Sectors[v] <= offset.count
                       /\ \A k \in 1..Sectors[v] : map[offset.index + k - 1] = Part(v, k)
           Within == offset # Absent /\ offset.index + offset.count <= Size(map)
<1>1. get_region_chunk(offset, map) =
        IF Within /\ \E v \in Values : Whole(v) THEN CHOOSE v \in Values : Whole(v) ELSE NoValue
  BY Zenon DEF get_region_chunk
<1>2. \A v \in Values : Holds(offset, map, v) <=> Within /\ Whole(v)
  BY Zenon DEF Holds
<1> HIDE DEF Whole, Within
<1>3. CASE Within /\ \E v \in Values : Whole(v)
  <2>1. PICK v \in Values : v = (CHOOSE w \in Values : Whole(w)) /\ Whole(v)
    BY <1>3
  <2> QED
    BY <1>1, <1>2, <1>3, <2>1
<1>4. CASE ~(Within /\ \E v \in Values : Whole(v))
  BY <1>1, <1>2, <1>4
<1> QED
  BY <1>3, <1>4

LEMMA GetHeld ==
  ASSUME NEW offset, NEW map, NEW v \in Values, Holds(offset, map, v)
  PROVE  get_region_chunk(offset, map) = v
BY GetIs, HoldsOne

LEMMA GetType == ASSUME NEW offset, NEW map PROVE get_region_chunk(offset, map) \in Values \cup {NoValue}
BY GetIs

LEMMA GetAbsent == ASSUME NEW map PROVE get_region_chunk(Absent, map) = NoValue
<1>1. \A v \in Values : ~Holds(Absent, map, v)
  BY DEF Holds
<1> QED
  BY <1>1, GetIs

\* The data of a chunk that does not change is read the same.
LEMMA GetSame ==
  ASSUME NEW offset \in Offsets, NEW map, NEW other,
         offset = Absent \/ (offset.index + offset.count <= Size(map) /\ offset.index + offset.count <= Size(other)),
         \A s \in SectorsOf(offset) : map[s] = other[s]
  PROVE  get_region_chunk(offset, map) = get_region_chunk(offset, other)
<1>1. CASE offset = Absent
  BY <1>1, GetAbsent
<1>2. CASE offset # Absent
  <2>1. offset.index \in Nat /\ offset.count \in Nat
    BY MaxSectorsIsNat DEF Offsets
  <2>2. ASSUME NEW v \in Values, NEW k \in 1..Sectors[v], Sectors[v] <= offset.count
        PROVE  map[offset.index + k - 1] = other[offset.index + k - 1]
    <3>1. offset.index + k - 1 \in SectorsOf(offset)
      BY <2>1, <2>2, SectorsAreNat DEF SectorsOf, SectorRange
    <3> QED
      BY <3>1
  <2>3. \A v \in Values : Holds(offset, map, v) <=> Holds(offset, other, v)
    BY <1>2, <2>2 DEF Holds
  <2> QED
    BY <2>3, GetIs, HoldsOne
<1> QED
  BY <1>1, <1>2

\* In a part of a file a chunk is read as in the whole, or not at all.
LEMMA GetPart ==
  ASSUME NEW offset, NEW map, NEW part, Size(part) \in Nat, Size(map) \in Nat, Size(part) <= Size(map),
         offset \in Offsets,
         \A s \in 0..(Size(part) - 1), v \in Values, k \in 1..127 : part[s] = Part(v, k) => map[s] = part[s]
  PROVE  get_region_chunk(offset, part) \in {get_region_chunk(offset, map), NoValue}
<1>1. ASSUME NEW v \in Values, Holds(offset, part, v) PROVE Holds(offset, map, v)
  <2>1. offset.index \in Nat /\ offset.count \in Nat /\ offset.index + offset.count <= Size(part)
    BY <1>1, MaxSectorsIsNat DEF Holds, Offsets
  <2>2. ASSUME NEW k \in 1..Sectors[v] PROVE map[offset.index + k - 1] = Part(v, k)
    <3>1. k \in 1..127 /\ Sectors[v] <= offset.count /\ Sectors[v] \in Nat
      BY <1>1, SectorsAreNat DEF Holds
    <3>2. offset.index + k - 1 \in 0..(Size(part) - 1)
      BY <2>1, <3>1
    <3> QED
      BY <1>1, <3>1, <3>2 DEF Holds
  <2> QED
    BY <1>1, <2>1, <2>2 DEF Holds
<1> QED
  BY <1>1, GetIs, GetHeld
------------------------------------------------------------------------------
(* Types. *)

LEMMA ContentsFacts == /\ Blank \in Contents /\ Garbage \in Contents
                       /\ \A v \in Values, k \in 1..127 : Part(v, k) \in Contents
BY SMTT(60) DEF Contents

\* No part of a value is a zero sector or a damaged one.
LEMMA PartIsData == ASSUME NEW v \in Values, NEW k PROVE Part(v, k) # Blank /\ Part(v, k) # Garbage
<1>1. v # NoValue
  BY NoValueIsNone
<1> QED
  BY <1>1 DEF Part, Blank, Garbage

LEMMA EmptyFacts ==
  /\ EmptyRegion.offsets = [c \in Chunks |-> Absent] /\ EmptyRegion.sectors = [s \in 0..1 |-> Blank]
  /\ EmptyRegion.offsets \in [Chunks -> Offsets]
  /\ IsMap(EmptyRegion.sectors, Contents) /\ Size(EmptyRegion.sectors) = 2
  /\ Consistent(EmptyRegion.offsets, EmptyRegion.sectors)
<1>1. EmptyRegion.offsets = [c \in Chunks |-> Absent] /\ EmptyRegion.sectors = [s \in 0..1 |-> Blank]
  BY DEF EmptyRegion
<1>2. Absent \in Offsets
  BY MaxSectorsIsNat DEF Absent, Offsets
<1>3. 2 \in 0..MaxSectors
  BY MaxSectorsIsNat
<1>4. [s \in 0..1 |-> Blank] \in [0..(2 - 1) -> Contents]
  BY ContentsFacts
<1>5. IsMap([s \in 0..1 |-> Blank], Contents) /\ Size([s \in 0..1 |-> Blank]) = 2
  BY <1>3, <1>4, MapIs
<1>6. SectorsOf(Absent) = {}
  BY DEF SectorsOf, SectorRange, Absent
<1>7. Consistent(EmptyRegion.offsets, EmptyRegion.sectors)
  BY <1>1, <1>5, <1>6 DEF Consistent
<1> QED
  BY <1>1, <1>2, <1>5, <1>7

LEMMA NothingFacts ==
  /\ NothingWritten.offsets = [c \in Chunks |-> Absent]
  /\ NothingWritten.offsets \in [Chunks -> Offsets]
  /\ IsMap(NothingWritten.sectors, Contents) /\ Size(NothingWritten.sectors) = 0
<1>1. NothingWritten.offsets = EmptyRegion.offsets
  BY DEF NothingWritten, EmptyRegion
<1>2. NothingWritten.sectors \in [0..(0 - 1) -> Contents]
  BY DEF NothingWritten
<1>3. 0 \in 0..MaxSectors
  BY MaxSectorsIsNat
<1> QED
  BY <1>1, <1>2, <1>3, MapIs, EmptyFacts

\* What the invariant says of memory and file.
LEMMA Facts ==
  ASSUME TypeOK
  PROVE  /\ Size(sectors) \in 0..MaxSectors /\ Size(sectors) \in Nat
         /\ sectors \in [0..(Size(sectors) - 1) -> Contents]
         /\ sector_free \in [0..(Size(sectors) - 1) -> BOOLEAN]
         /\ Size(file.sectors) \in 0..MaxSectors /\ Size(file.sectors) \in Nat
         /\ file.sectors \in [0..(Size(file.sectors) - 1) -> Contents]
         /\ \A c \in Chunks : /\ offsets[c] \in Offsets /\ file.offsets[c] \in Offsets
                              /\ offsets[c].index \in Nat /\ offsets[c].count \in Nat
                              /\ file.offsets[c].index \in Nat /\ file.offsets[c].count \in Nat
<1>1. Size(sectors) \in Nat /\ Size(file.sectors) \in Nat /\ DOMAIN sectors = 0..(Size(sectors) - 1)
  BY MapFacts DEF TypeOK
<1>2. DOMAIN sector_free = 0..(Size(sectors) - 1) /\ sector_free \in [0..(Size(sector_free) - 1) -> BOOLEAN]
  BY <1>1 DEF TypeOK, IsMap
<1>3. sector_free \in [0..(Size(sectors) - 1) -> BOOLEAN]
  BY <1>2
<1>4. \A c \in Chunks : offsets[c] \in Offsets /\ file.offsets[c] \in Offsets
  BY DEF TypeOK
<1>5. \A o \in Offsets : o.index \in Nat /\ o.count \in Nat
  BY MaxSectorsIsNat DEF Offsets
<1> QED
  BY <1>1, <1>3, <1>4, <1>5 DEF TypeOK, IsMap

LEMMA InitType == Init => TypeOK
<1> SUFFICES ASSUME Init PROVE TypeOK
  OBVIOUS
<1>1. [s \in 0..1 |-> FALSE] \in [0..(2 - 1) -> BOOLEAN] /\ 2 \in 0..MaxSectors
  BY MaxSectorsIsNat
<1>2. IsMap(sector_free, BOOLEAN)
  BY <1>1, MapIs DEF Init
<1>3. DOMAIN sector_free = DOMAIN sectors
  BY EmptyFacts DEF Init
<1> QED
  BY <1>2, <1>3, EmptyFacts, NothingFacts DEF Init, TypeOK

LEMMA ForgetType ==
  ASSUME Forget
  PROVE  /\ offsets' \in [Chunks -> Offsets] /\ IsMap(sectors', Contents)
         /\ IsMap(sector_free', BOOLEAN) /\ DOMAIN sector_free' = DOMAIN sectors'
         /\ written' \in [Chunks -> Values \cup {NoValue}]
<1>1. [s \in 0..1 |-> FALSE] \in [0..(2 - 1) -> BOOLEAN] /\ 2 \in 0..MaxSectors
  BY MaxSectorsIsNat
<1>2. IsMap(sector_free', BOOLEAN)
  BY <1>1, MapIs DEF Forget
<1>3. DOMAIN sector_free' = DOMAIN sectors'
  BY EmptyFacts DEF Forget
<1> QED
  BY <1>2, <1>3, EmptyFacts DEF Forget

\* What open_region reads.
From == IF Size(file.sectors) = 0 THEN EmptyRegion ELSE file

LEMMA FromFacts ==
  ASSUME TypeOK
  PROVE  /\ From.offsets \in [Chunks -> Offsets] /\ IsMap(From.sectors, Contents)
         /\ Size(From.sectors) \in 1..MaxSectors
BY EmptyFacts, MaxSectorsIsNat, Facts DEF From, TypeOK

LEMMA OpenIs ==
  ASSUME open_region
  PROVE  /\ step = "closed" /\ step' = "open"
         /\ offsets' = From.offsets /\ sectors' = From.sectors
         /\ sector_free' = [s \in 0..(Size(From.sectors) - 1) |-> s > 1 /\ s \notin Covered(From.offsets, Size(From.sectors))]
         /\ written' = [c \in Chunks |-> get_region_chunk(From.offsets[c], From.sectors)]
         /\ UNCHANGED <<file, torn, complete, saved>>
BY Zenon DEF open_region, From

LEMMA OpenType == ASSUME TypeOK, open_region PROVE TypeOK'
<1>1. offsets' \in [Chunks -> Offsets] /\ IsMap(sectors', Contents)
  BY OpenIs, FromFacts
<1>2. Size(From.sectors) \in 0..MaxSectors /\ DOMAIN sectors' = 0..(Size(From.sectors) - 1)
  BY FromFacts, OpenIs, MapFacts
<1>3. sector_free' \in [0..(Size(From.sectors) - 1) -> BOOLEAN]
  BY OpenIs
<1>4. IsMap(sector_free', BOOLEAN) /\ DOMAIN sector_free' = DOMAIN sectors'
  BY <1>2, <1>3, MapIs
<1>5. written' \in [Chunks -> Values \cup {NoValue}]
  BY OpenIs, GetType
<1>6. UNCHANGED <<file, torn, complete, saved>> /\ step' = "open"
  BY OpenIs
<1> QED
  BY <1>1, <1>4, <1>5, <1>6 DEF TypeOK

\* What set_region_chunk leaves in a file after it wrote a value at a sector.
LEMMA WriteFacts ==
  ASSUME NEW n \in 0..MaxSectors, NEW map \in [0..(n - 1) -> Contents], NEW at \in Nat, NEW v \in Values,
         NEW after \in Stamped(set_region_sector(map, at, v))
  PROVE  /\ after \in [0..(n - 1) -> Contents]
         /\ \A s \in 0..(n - 1) :
              s # 1 \/ (map[1] = Blank /\ at >= 2) =>
                after[s] = IF s \in SectorRange(at, Sectors[v]) THEN Part(v, s - at + 1) ELSE map[s]
<1>1. PICK done : done = set_region_sector(map, at, v)
  OBVIOUS
<1>2. done = [s \in 0..(n - 1) |-> IF s \in SectorRange(at, Sectors[v]) THEN Part(v, s - at + 1) ELSE map[s]]
  BY <1>1 DEF set_region_sector
<1>3. n \in Nat
  BY MaxSectorsIsNat
<1>4. \A s \in SectorRange(at, Sectors[v]) : s \in Nat /\ at <= s /\ s - at + 1 \in 1..127
  BY RangeIs
<1>5. done \in [0..(n - 1) -> Contents]
  <2>1. ASSUME NEW s \in 0..(n - 1), s \in SectorRange(at, Sectors[v])
        PROVE  Part(v, s - at + 1) \in Contents
    <3>1. s - at + 1 \in 1..127
      BY <1>4, <2>1
    <3> QED
      BY <3>1, ContentsFacts
  <2> QED
    BY <1>2, <2>1
<1>6. after = done \/ (1 \in DOMAIN done /\ done[1] # Blank /\ after = [done EXCEPT ![1] = Garbage])
  BY <1>1 DEF Stamped
<1>7. after \in [0..(n - 1) -> Contents] /\ \A s \in 0..(n - 1) : s # 1 => after[s] = done[s]
  BY <1>5, <1>6, ContentsFacts
<1>8. ASSUME map[1] = Blank, at >= 2 PROVE after = done
  <2>1. 1 \notin SectorRange(at, Sectors[v])
    BY <1>8, <1>4
  <2> QED
    BY <1>2, <1>6, <1>8, <2>1
<1> QED
  BY <1>2, <1>7, <1>8

\* A value is in the file, of now n sectors, from a sector on.
Wrote(c, v, at, n) ==
  /\ at \in Nat /\ n \in 0..MaxSectors /\ Size(sectors) <= n
  /\ sectors' \in [0..(n - 1) -> Contents]
  /\ sectors[1] = Blank /\ Size(sectors) >= 2 /\ at >= 2 =>
       /\ \A s \in SectorRange(at, Sectors[v]) : s < n => sectors'[s] = Part(v, s - at + 1)
       /\ \A s \in 0..(Size(sectors) - 1) : s \notin SectorRange(at, Sectors[v]) => sectors'[s] = sectors[s]
  /\ offsets' = [offsets EXCEPT ![c] = [index |-> at, count |-> Sectors[v]]]

\* And its sectors were free, its own, or are new.
Stored(c, v, at, n) ==
  /\ Wrote(c, v, at, n)
  /\ at + Sectors[v] <= n
  /\ \A s \in SectorRange(at, Sectors[v]) : s < Size(sectors) => Released(offsets[c])[s]
  /\ \A s \in 0..(n - 1) : s < Size(sectors) \/ s \in SectorRange(at, Sectors[v])
  /\ sector_free' \in [0..(n - 1) -> BOOLEAN]
  /\ \A s \in 0..(n - 1) :
       sector_free'[s] <=> s < Size(sectors) /\ Released(offsets[c])[s] /\ s \notin SectorRange(at, Sectors[v])

LEMMA RewriteWrites ==
  ASSUME TypeOK, NEW c \in Chunks, NEW v \in Values, Rewrite(c, v)
  PROVE  Wrote(c, v, offsets[c].index, Size(sectors))
<1> DEFINE at == offsets[c].index
           n == Size(sectors)
<1>1. n \in 0..MaxSectors /\ n \in Nat /\ sectors \in [0..(n - 1) -> Contents] /\ at \in Nat
  BY Facts
<1>2. offsets[c].count = Sectors[v] /\ sectors' = set_region_sector(sectors, at, v) /\ UNCHANGED <<offsets, sector_free>>
  BY DEF Rewrite, InPlace
<1>3. sectors' = [s \in 0..(n - 1) |-> IF s \in SectorRange(at, Sectors[v]) THEN Part(v, s - at + 1) ELSE sectors[s]]
  BY <1>1, <1>2 DEF set_region_sector
<1>4. sectors' \in [0..(n - 1) -> Contents]
  <2>1. sectors' \in Stamped(set_region_sector(sectors, at, v))
    BY <1>2 DEF Stamped
  <2> QED
    BY <1>1, <2>1, WriteFacts
<1>5. offsets' = [offsets EXCEPT ![c] = [index |-> at, count |-> Sectors[v]]]
  <2>1. offsets[c] = [index |-> at, count |-> Sectors[v]]
    BY <1>2, Facts DEF Offsets
  <2>2. offsets = [offsets EXCEPT ![c] = offsets[c]]
    BY DEF TypeOK
  <2> QED
    BY <1>2, <2>1, <2>2
<1> HIDE DEF at, n
<1>6. \A s \in SectorRange(at, Sectors[v]) : s < n => s \in 0..(n - 1)
  BY <1>1, SectorsAreNat DEF SectorRange
<1>7. Wrote(c, v, at, n)
  BY <1>1, <1>3, <1>4, <1>5, <1>6 DEF Wrote, n
<1> QED
  BY <1>7 DEF at, n

\* The search finds a run when there is one.
LEMMA FirstRunIsRun ==
  ASSUME NEW n \in Nat, NEW free \in [0..(n - 1) -> BOOLEAN], NEW count \in Nat, HasRun(free, count)
  PROVE  FirstRun(free, count) \in DOMAIN free /\ IsRun(free, FirstRun(free, count), count)
<1> DEFINE T == {s \in DOMAIN free : IsRun(free, s, count)}
           R == OpToRel(<, Nat)
<1>1. T # {} /\ T \subseteq Nat
  BY DEF HasRun
<1>2. IsWellFoundedOn(R, Nat)
  BY NatLessThanWellFounded
<1>3. \A x, y \in Nat : x < y => <<x, y>> \in R
  BY DEF OpToRel
<1> HIDE DEF R
<1>4. PICK m \in T : \A y \in T : ~ (<<y, m>> \in R)
  BY <1>1, <1>2, WFMin
<1>5. \A t \in 0..(m - 1) : ~IsRun(free, t, count)
  <2> SUFFICES ASSUME NEW t \in 0..(m - 1), IsRun(free, t, count) PROVE FALSE
    OBVIOUS
  <2>1. t \in T /\ t < m /\ t \in Nat /\ m \in Nat
    BY <1>1
  <2> QED
    BY <1>3, <1>4, <2>1
<1> DEFINE Lowest(s) == IsRun(free, s, count) /\ \A t \in 0..(s - 1) : ~IsRun(free, t, count)
<1>6. m \in DOMAIN free /\ Lowest(m)
  BY <1>5
<1>7. FirstRun(free, count) = CHOOSE s \in DOMAIN free : Lowest(s)
  BY DEF FirstRun
<1>8. FirstRun(free, count) \in DOMAIN free /\ Lowest(FirstRun(free, count))
  <2> HIDE DEF Lowest
  <2> QED
    BY <1>6, <1>7
<1> QED
  BY <1>8

LEMMA ReleasedType == ASSUME TypeOK, NEW o PROVE Released(o) \in [0..(Size(sectors) - 1) -> BOOLEAN]
BY Facts DEF Released

LEMMA MoveStores ==
  ASSUME TypeOK, NEW c \in Chunks, NEW v \in Values, Move(c, v)
  PROVE  \E at \in Nat : Stored(c, v, at, Size(sectors))
<1>1. PICK k, free, at : k = Sectors[v] /\ free = Released(offsets[c]) /\ at = FirstRun(free, k)
  OBVIOUS
<1>2. k \in 1..127 /\ k \in Nat
  BY <1>1, SectorsAreNat
<1>3. PICK n : n = Size(sectors)
  OBVIOUS
<1>4. /\ free \in [0..(n - 1) -> BOOLEAN] /\ n \in Nat /\ n \in 0..MaxSectors
      /\ sectors \in [0..(n - 1) -> Contents]
  BY <1>1, <1>3, ReleasedType, Facts
<1>5. /\ HasRun(free, k)
      /\ offsets' = [offsets EXCEPT ![c] = [index |-> at, count |-> Sectors[v]]]
      /\ sector_free' = Allocated(free, at, k)
      /\ sectors' \in Stamped(set_region_sector(sectors, at, v))
  BY <1>1 DEF Move
<1>6. at \in 0..(n - 1) /\ \A s \in at..(at + k - 1) : s \in 0..(n - 1) /\ free[s]
  <2>1. at \in DOMAIN free /\ IsRun(free, at, k)
    BY <1>1, <1>4, <1>5, <1>2, FirstRunIsRun
  <2> QED
    BY <1>4, <1>2, <2>1 DEF IsRun, SectorRange
<1>7. at \in Nat /\ at + k <= n
  <2>1. at + k - 1 \in at..(at + k - 1)
    BY <1>4, <1>6, <1>2
  <2>2. at + k - 1 \in 0..(n - 1)
    BY <1>6, <2>1
  <2> QED
    BY <1>4, <1>6, <1>2, <2>2
<1>8. sector_free' \in [0..(n - 1) -> BOOLEAN]
      /\ \A s \in 0..(n - 1) : sector_free'[s] <=> s < n /\ free[s] /\ s \notin SectorRange(at, k)
  <2>1. sector_free' = [s \in 0..(n - 1) |-> IF s \in SectorRange(at, k) THEN FALSE ELSE free[s]]
    BY <1>4, <1>5 DEF Allocated
  <2>2. \A s \in 0..(n - 1) : s < n
    BY <1>4
  <2> QED
    BY <1>4, <2>1, <2>2
<1>9. \A s \in SectorRange(at, Sectors[v]) : s \in 0..(n - 1) /\ free[s]
  BY <1>1, <1>6 DEF SectorRange
<1>10. sectors' \in [0..(n - 1) -> Contents]
      /\ \A s \in 0..(n - 1) :
           s # 1 \/ (sectors[1] = Blank /\ at >= 2) =>
             sectors'[s] = IF s \in SectorRange(at, Sectors[v]) THEN Part(v, s - at + 1) ELSE sectors[s]
  BY <1>4, <1>5, <1>7, WriteFacts
<1>11. Wrote(c, v, at, n)
  BY <1>3, <1>4, <1>5, <1>7, <1>9, <1>10 DEF Wrote
<1>12. Stored(c, v, at, n)
  <2>1. \A s \in 0..(n - 1) : s < n
    BY <1>4
  <2> QED
    BY <1>1, <1>3, <1>7, <1>8, <1>9, <1>11, <2>1 DEF Stored
<1> QED
  BY <1>3, <1>7, <1>12

LEMMA AppendStores ==
  ASSUME TypeOK, NEW c \in Chunks, NEW v \in Values, Append(c, v)
  PROVE  Stored(c, v, Size(sectors), Size(sectors) + Sectors[v])
<1>1. PICK free, at : free = Released(offsets[c]) /\ at = Size(sectors)
  OBVIOUS
<1>2. PICK k, n, grown : k = Sectors[v] /\ n = at + k /\ grown = [s \in 0..(n - 1) |-> IF s < at THEN sectors[s] ELSE Blank]
  OBVIOUS
<1>3. k = Sectors[v] /\ n = at + k
  BY <1>2
<1>4. k \in 1..127 /\ k \in Nat /\ n = at + k
  BY <1>3, SectorsAreNat
<1>5. /\ offsets' = [offsets EXCEPT ![c] = [index |-> at, count |-> Sectors[v]]]
      /\ sector_free' = [s \in 0..(n - 1) |-> s < at /\ free[s]]
      /\ sectors' \in Stamped(set_region_sector(grown, at, v))
      /\ n <= MaxSectors
  BY <1>1, <1>2 DEF Append
<1>6. /\ free \in [0..(at - 1) -> BOOLEAN] /\ at \in Nat
      /\ sectors \in [0..(at - 1) -> Contents]
  BY <1>1, ReleasedType, Facts
<1>7. n <= MaxSectors /\ at \in Nat
  BY <1>5, <1>6
<1>8. n \in Nat /\ n \in 0..MaxSectors /\ at <= n
  BY <1>4, <1>7, MaxSectorsIsNat
<1>9. grown \in [0..(n - 1) -> Contents] /\ \A s \in 0..(at - 1) : grown[s] = sectors[s]
  <2>1. \A s \in 0..(n - 1) : s < at => s \in 0..(at - 1) /\ sectors[s] \in Contents
    BY <1>6, <1>8
  <2>2. grown = [s \in 0..(n - 1) |-> IF s < at THEN sectors[s] ELSE Blank]
    BY <1>2
  <2>3. \A s \in 0..(at - 1) : s \in 0..(n - 1) /\ s < at
    BY <1>6, <1>8
  <2> QED
    BY <2>1, <2>2, <2>3, ContentsFacts
<1>10. \A s \in SectorRange(at, Sectors[v]) : s \in 0..(n - 1) /\ s >= at
  <2>1. \A s \in SectorRange(at, k) : s \in 0..(n - 1) /\ s >= at
    BY <1>4, <1>7 DEF SectorRange
  <2> QED
    BY <1>2, <2>1
<1>11. sectors' \in [0..(n - 1) -> Contents]
      /\ \A s \in 0..(n - 1) :
           s # 1 \/ (grown[1] = Blank /\ at >= 2) =>
             sectors'[s] = IF s \in SectorRange(at, Sectors[v]) THEN Part(v, s - at + 1) ELSE grown[s]
  <2>1. /\ grown \in [0..(n - 1) -> Contents] /\ n \in 0..MaxSectors /\ at \in Nat
        /\ sectors' \in Stamped(set_region_sector(grown, at, v))
    BY <1>5, <1>8, <1>9, <1>7
  <2> QED
    BY <2>1, WriteFacts
<1>12. sector_free' \in [0..(n - 1) -> BOOLEAN]
      /\ \A s \in 0..(n - 1) : sector_free'[s] <=> s < at /\ free[s] /\ s \notin SectorRange(at, Sectors[v])
  <2>1. \A s \in 0..(n - 1) : s < at => s \in 0..(at - 1) /\ free[s] \in BOOLEAN
    BY <1>6, <1>8
  <2>2. \A s \in 0..(n - 1) : (s < at /\ free[s]) \in BOOLEAN
    BY <2>1
  <2>3. \A s \in 0..(n - 1) : s < at => s \notin SectorRange(at, Sectors[v])
    BY <1>6, <1>8, <1>10
  <2> QED
    BY <1>5, <2>2, <2>3, Zenon
<1>13. \A s \in 0..(at - 1) : s \in 0..(n - 1)
  BY <1>6, <1>8
<1>14. Wrote(c, v, at, n)
  <2>1. ASSUME sectors[1] = Blank, at >= 2
        PROVE  /\ \A s \in SectorRange(at, Sectors[v]) : sectors'[s] = Part(v, s - at + 1)
               /\ \A s \in 0..(at - 1) : s \notin SectorRange(at, Sectors[v]) => sectors'[s] = sectors[s]
    <3>1. grown[1] = Blank
      BY <1>6, <1>9, <2>1
    <3> QED
      BY <1>9, <1>10, <1>11, <1>13, <2>1, <3>1
  <2> QED
    BY <1>1, <1>5, <1>6, <1>8, <1>11, <2>1 DEF Wrote
<1>15. \A s \in SectorRange(at, Sectors[v]) : ~(s < at)
  <2>1. \A s \in 0..(n - 1) : s >= at => ~(s < at)
    BY <1>8, <1>7
  <2> QED
    BY <1>10, <2>1, Zenon
<1>16. at + Sectors[v] <= n
  <2>1. at + k <= n
    BY <1>8, <1>4
  <2> QED
    BY <1>2, <2>1
<1>17. \A s \in 0..(n - 1) : s < at \/ s \in SectorRange(at, Sectors[v])
  <2>1. \A s \in 0..(n - 1) : s < at \/ s \in SectorRange(at, k)
    BY <1>4, <1>7 DEF SectorRange
  <2> QED
    BY <1>2, <2>1
<1>18. Stored(c, v, at, n)
  BY <1>1, <1>12, <1>14, <1>15, <1>16, <1>17 DEF Stored
<1> QED
  BY <1>1, <1>2, <1>18
------------------------------------------------------------------------------
(* Storing a chunk keeps memory consistent and the other chunks readable. *)

\* In a consistent table every sector of a chunk is past the tables and in the file.
LEMMA InTheFile ==
  ASSUME NEW table \in [Chunks -> Offsets], NEW map, Size(map) \in Nat, Consistent(table, map), NEW d \in Chunks
  PROVE  /\ \A s \in SectorsOf(table[d]) : s \in 0..(Size(map) - 1) /\ s >= 2
         /\ table[d].index + table[d].count <= Size(map)
<1>1. PICK i, k, n : i = table[d].index /\ k = table[d].count /\ n = Size(map)
  OBVIOUS
<1>2. i \in Nat /\ k \in Nat /\ n \in Nat
  BY <1>1, MaxSectorsIsNat DEF Offsets
<1>3. (i = 0 /\ k = 0) \/ (i >= 2 /\ i + k <= n)
  BY <1>1 DEF Consistent, Absent
<1>4. i + k <= n /\ \A s \in i..(i + k - 1) : s \in 0..(n - 1) /\ s >= 2
  BY <1>2, <1>3
<1> QED
  BY <1>1, <1>4 DEF SectorsOf, SectorRange

\* The sectors a value may be stored in are past the tables and in no other chunk.
LEMMA Apart ==
  ASSUME TypeOK, Consistent(offsets, sectors), FreeExact, NEW c \in Chunks,
         NEW s \in Nat, s < Size(sectors) => Released(offsets[c])[s]
  PROVE  s >= 2 /\ \A d \in Chunks : d # c => s \notin SectorsOf(offsets[d])
<1>1. Size(sectors) \in Nat /\ Size(sectors) >= 2 /\ offsets \in [Chunks -> Offsets]
  BY Facts DEF Consistent, TypeOK
<1>2. CASE s < Size(sectors)
  <2>1. s \in DOMAIN sector_free
    BY <1>1, <1>2, Facts
  <2>2. sector_free[s] \/ s \in SectorsOf(offsets[c])
    BY <1>2, <2>1 DEF Released
  <2>3. CASE sector_free[s]
    BY <2>1, <2>3 DEF FreeExact
  <2>4. CASE s \in SectorsOf(offsets[c])
    <3>1. s >= 2
      BY <1>1, <2>4, InTheFile
    <3> QED
      BY <2>4, <3>1 DEF Consistent
  <2> QED
    BY <2>2, <2>3, <2>4
<1>3. CASE ~(s < Size(sectors))
  <2>1. s \notin 0..(Size(sectors) - 1) /\ s >= 2
    BY <1>1, <1>3
  <2> QED
    BY <1>1, <2>1, InTheFile
<1> QED
  BY <1>2, <1>3

\* A value that was written where no other chunk is.
Fits(c, v, at, n) ==
  /\ Wrote(c, v, at, n)
  /\ at >= 2 /\ at + Sectors[v] <= n
  /\ \A s \in SectorRange(at, Sectors[v]), d \in Chunks : d # c => s \notin SectorsOf(offsets[d])

LEMMA FitsOffsets ==
  ASSUME TypeOK, NEW c \in Chunks, NEW v \in Values, NEW at, NEW n, Wrote(c, v, at, n)
  PROVE  /\ \A d \in Chunks : offsets'[d] = IF d = c THEN [index |-> at, count |-> Sectors[v]] ELSE offsets[d]
         /\ \A d \in Chunks : SectorsOf(offsets'[d]) = IF d = c THEN SectorRange(at, Sectors[v]) ELSE SectorsOf(offsets[d])
<1>1. \A d \in Chunks : offsets'[d] = IF d = c THEN [index |-> at, count |-> Sectors[v]] ELSE offsets[d]
  BY DEF Wrote, TypeOK
<1> QED
  BY <1>1 DEF SectorsOf

LEMMA FitsSize ==
  ASSUME NEW c, NEW v, NEW at, NEW n, Wrote(c, v, at, n)
  PROVE  n \in Nat /\ IsMap(sectors', Contents) /\ Size(sectors') = n /\ Size(sectors') = Size(sectors)'
BY MapIs, MaxSectorsIsNat DEF Wrote, Size

LEMMA FitsConsistent ==
  ASSUME TypeOK, Consistent(offsets, sectors), NEW c \in Chunks, NEW v \in Values, NEW at, NEW n, Fits(c, v, at, n)
  PROVE  Consistent(offsets', sectors')
<1>1. /\ Wrote(c, v, at, n) /\ at >= 2 /\ at + Sectors[v] <= n /\ at \in Nat
      /\ Size(sectors) \in Nat /\ Size(sectors) <= n /\ Size(sectors) >= 2 /\ sectors[1] = Blank
  BY Facts DEF Fits, Wrote, Consistent
<1>2. n \in Nat /\ Size(sectors') = n
  BY <1>1, FitsSize
<1>3. sectors'[1] = Blank
  <2>1. 1 \in SectorRange(at, Sectors[v]) => at <= 1
    BY <1>1, RangeIs
  <2>2. 1 \notin SectorRange(at, Sectors[v]) /\ 1 \in 0..(Size(sectors) - 1)
    BY <1>1, <2>1
  <2> QED
    BY <1>1, <2>2 DEF Wrote
<1>4. \A d, e \in Chunks : d # e => SectorsOf(offsets'[d]) \cap SectorsOf(offsets'[e]) = {}
  <2>1. \A d \in Chunks : SectorsOf(offsets'[d]) = IF d = c THEN SectorRange(at, Sectors[v]) ELSE SectorsOf(offsets[d])
    BY <1>1, FitsOffsets
  <2>2. \A d \in Chunks : d # c => SectorRange(at, Sectors[v]) \cap SectorsOf(offsets[d]) = {}
    BY DEF Fits
  <2>3. \A d, e \in Chunks : d # e => SectorsOf(offsets[d]) \cap SectorsOf(offsets[e]) = {}
    BY DEF Consistent
  <2> QED
    BY <2>1, <2>2, <2>3
<1>5. ASSUME NEW d \in Chunks
      PROVE  \/ offsets'[d] = Absent
             \/ /\ offsets'[d].count >= 1 /\ offsets'[d].index >= 2
                /\ offsets'[d].index + offsets'[d].count <= n
  <2>1. CASE d = c
    <3>1. offsets'[d] = [index |-> at, count |-> Sectors[v]]
      BY <1>1, <2>1, FitsOffsets
    <3>2. offsets'[d].index = at /\ offsets'[d].count = Sectors[v]
      BY <3>1
    <3>3. PICK k : k = Sectors[v]
      OBVIOUS
    <3>4. k >= 1
      BY <3>3, SectorsAreNat
    <3> QED
      BY <1>1, <3>2, <3>3, <3>4
  <2>2. CASE d # c
    <3>1. offsets'[d] = offsets[d]
      BY <1>1, <2>2, FitsOffsets
    <3>2. PICK i, k, m : i = offsets[d].index /\ k = offsets[d].count /\ m = Size(sectors)
      OBVIOUS
    <3>3. i \in Nat /\ k \in Nat /\ m \in Nat /\ m <= n
      BY <1>1, <3>2, Facts
    <3>4. offsets[d] = Absent \/ (k >= 1 /\ i >= 2 /\ i + k <= m)
      BY <3>2 DEF Consistent
    <3>5. offsets[d] = Absent \/ (k >= 1 /\ i >= 2 /\ i + k <= n)
      BY <1>2, <3>3, <3>4
    <3> QED
      BY <3>1, <3>2, <3>5
  <2> QED
    BY <2>1, <2>2
<1>6. Size(sectors') >= 2
  <2>1. Size(sectors') >= Size(sectors)
    BY <1>1, <1>2
  <2> QED
    BY <1>1, <1>2, <2>1
<1>7. \A d \in Chunks :
        \/ offsets'[d] = Absent
        \/ /\ offsets'[d].count >= 1 /\ offsets'[d].index >= 2
           /\ offsets'[d].index + offsets'[d].count <= Size(sectors')
  BY <1>2, <1>5
<1> QED
  BY <1>3, <1>4, <1>6, <1>7, Zenon DEF Consistent

LEMMA FitsReads ==
  ASSUME TypeOK, Consistent(offsets, sectors), NEW c \in Chunks, NEW v \in Values, NEW at, NEW n, Fits(c, v, at, n),
         NEW d \in Chunks
  PROVE  Chunk(d)' = IF d = c THEN v ELSE Chunk(d)
<1>1. /\ Wrote(c, v, at, n) /\ at >= 2 /\ at + Sectors[v] <= n /\ at \in Nat
      /\ Size(sectors) \in Nat /\ Size(sectors) <= n /\ Size(sectors) >= 2 /\ sectors[1] = Blank
  BY Facts DEF Fits, Wrote, Consistent
<1>2. n \in Nat /\ Size(sectors') = n
  BY <1>1, FitsSize
<1>3. Chunk(d)' = get_region_chunk(offsets'[d], sectors')
  BY DEF Chunk
<1>4. CASE d = c
  <2>1. offsets'[d] = [index |-> at, count |-> Sectors[v]]
    BY <1>1, <1>4, FitsOffsets
  <2>2. PICK k : k = Sectors[v]
    OBVIOUS
  <2>3. k \in 1..127
    BY <2>2, SectorsAreNat
  <2>4. ASSUME NEW j \in 1..k PROVE sectors'[at + j - 1] = Part(v, j)
    <3>1. at + j - 1 \in Nat /\ (at + j - 1) - at + 1 = j /\ at + j - 1 < n
      BY <1>1, <1>2, <2>2, <2>3
    <3>2. at + j - 1 \in SectorRange(at, Sectors[v])
      BY <1>1, <2>2, <3>1, RangeIs
    <3> QED
      BY <1>1, <3>1, <3>2 DEF Wrote
  <2>5. offsets'[d] # Absent
    BY <1>1, <2>1 DEF Absent
  <2>6. k <= k
    BY <2>3
  <2>7. Holds(offsets'[d], sectors', v)
    BY <1>1, <1>2, <2>1, <2>2, <2>4, <2>5, <2>6 DEF Holds
  <2> QED
    BY <1>3, <1>4, <2>7, GetHeld
<1>5. CASE d # c
  <2>1. offsets'[d] = offsets[d] /\ offsets[d] \in Offsets
    BY <1>1, <1>5, FitsOffsets, Facts
  <2>2. /\ offsets[d].index + offsets[d].count <= Size(sectors)
        /\ \A s \in SectorsOf(offsets[d]) : s \in 0..(Size(sectors) - 1)
    BY <1>1, InTheFile DEF TypeOK
  <2>3. offsets[d].index + offsets[d].count <= Size(sectors')
    <3>1. PICK i : i = offsets[d].index + offsets[d].count
      OBVIOUS
    <3>2. i \in Nat
      BY <3>1, Facts
    <3> QED
      BY <1>1, <1>2, <2>2, <3>1, <3>2
  <2>4. \A s \in SectorsOf(offsets[d]) : sectors[s] = sectors'[s]
    BY <1>1, <1>5, <2>2 DEF Fits, Wrote
  <2>5. get_region_chunk(offsets[d], sectors) = get_region_chunk(offsets[d], sectors')
    BY <2>1, <2>2, <2>3, <2>4, GetSame
  <2> QED
    BY <1>3, <1>5, <2>1, <2>5 DEF Chunk
<1> QED
  BY <1>4, <1>5

\* Move and Append store a chunk where it fits, and keep the free map exact.
LEMMA StoredFits ==
  ASSUME TypeOK, Consistent(offsets, sectors), FreeExact,
         NEW c \in Chunks, NEW v \in Values, NEW at, NEW n, Stored(c, v, at, n)
  PROVE  Fits(c, v, at, n) /\ FreeExact'
<1>1. /\ Wrote(c, v, at, n) /\ at + Sectors[v] <= n /\ at \in Nat /\ n \in Nat
      /\ Size(sectors) \in Nat /\ Size(sectors) <= n
      /\ sector_free' \in [0..(n - 1) -> BOOLEAN]
  BY Facts, MaxSectorsIsNat DEF Stored, Wrote
<1>2. ASSUME NEW s \in SectorRange(at, Sectors[v])
      PROVE  s \in Nat /\ (s < Size(sectors) => Released(offsets[c])[s])
  BY <1>1, RangeIs DEF Stored
<1>3. at >= 2
  <2>1. PICK k : k = Sectors[v]
    OBVIOUS
  <2>2. k \in 1..127
    BY <2>1, SectorsAreNat
  <2>3. at - at + 1 \in 1..k
    BY <1>1, <2>2
  <2>4. at \in SectorRange(at, Sectors[v])
    BY <1>1, <2>1, <2>3, RangeIs
  <2> QED
    BY <1>2, <2>4, Apart
<1>4. \A s \in SectorRange(at, Sectors[v]), d \in Chunks : d # c => s \notin SectorsOf(offsets[d])
  BY <1>2, Apart
<1>5. Fits(c, v, at, n)
  BY <1>1, <1>3, <1>4 DEF Fits
<1>6. \A d \in Chunks : SectorsOf(offsets'[d]) = IF d = c THEN SectorRange(at, Sectors[v]) ELSE SectorsOf(offsets[d])
  BY <1>1, FitsOffsets
<1>7. ASSUME NEW s \in 0..(n - 1)
      PROVE  sector_free'[s] <=> s > 1 /\ \A d \in Chunks : s \notin SectorsOf(offsets'[d])
  <2>1. sector_free'[s] <=> s < Size(sectors) /\ Released(offsets[c])[s] /\ s \notin SectorRange(at, Sectors[v])
    BY DEF Stored
  <2>2. CASE s \in SectorRange(at, Sectors[v])
    BY <1>6, <2>1, <2>2
  <2>3. CASE s \notin SectorRange(at, Sectors[v])
    <3>1. s < Size(sectors) /\ s \in Nat
      BY <2>3 DEF Stored
    <3>2. s \in DOMAIN sector_free
      BY <1>1, <3>1, Facts
    <3>3. Released(offsets[c])[s] <=> sector_free[s] \/ s \in SectorsOf(offsets[c])
      BY <3>2 DEF Released
    <3>4. Released(offsets[c])[s] => s > 1 /\ \A d \in Chunks : d # c => s \notin SectorsOf(offsets[d])
      BY <3>1, Apart
    <3>5. sector_free[s] <=> s > 1 /\ \A d \in Chunks : s \notin SectorsOf(offsets[d])
      BY <3>2 DEF FreeExact
    <3> QED
      BY <1>6, <2>1, <2>3, <3>1, <3>3, <3>4, <3>5
  <2> QED
    BY <2>2, <2>3
<1>8. FreeExact'
  BY <1>1, <1>7 DEF FreeExact
<1> QED
  BY <1>5, <1>8
------------------------------------------------------------------------------
(* set_region_chunk. *)

\* Any store leaves memory well typed.
LEMMA WroteType ==
  ASSUME TypeOK, NEW c \in Chunks, NEW v \in Values, NEW at, NEW n, Wrote(c, v, at, n),
         sector_free' \in [0..(n - 1) -> BOOLEAN]
  PROVE  IsMap(sectors', Contents) /\ IsMap(sector_free', BOOLEAN) /\ DOMAIN sector_free' = DOMAIN sectors'
<1>1. n \in 0..MaxSectors /\ sectors' \in [0..(n - 1) -> Contents]
  BY DEF Wrote
<1> QED
  BY <1>1, MapIs

LEMMA StoredOffsets ==
  ASSUME TypeOK, NEW c \in Chunks, NEW v \in Values, NEW at, NEW n, Stored(c, v, at, n)
  PROVE  offsets' \in [Chunks -> Offsets]
<1>1. at \in Nat /\ n \in Nat /\ n <= MaxSectors /\ at + Sectors[v] <= n
      /\ offsets' = [offsets EXCEPT ![c] = [index |-> at, count |-> Sectors[v]]]
  BY MaxSectorsIsNat DEF Stored, Wrote
<1>2. PICK k : k = Sectors[v]
  OBVIOUS
<1>3. k \in 1..127 /\ at + k <= n
  BY <1>1, <1>2, SectorsAreNat
<1>4. at \in 0..MaxSectors /\ k \in 0..127
  BY <1>1, <1>3, MaxSectorsIsNat
<1>5. [index |-> at, count |-> Sectors[v]] \in Offsets
  BY <1>2, <1>4 DEF Offsets
<1> QED
  BY <1>1, <1>5 DEF TypeOK

LEMMA SetType == ASSUME TypeOK, NEW c \in Chunks, NEW v \in Values, set_region_chunk(c, v) PROVE TypeOK'
<1>1. /\ UNCHANGED <<file, step, torn, complete, saved>> /\ written' = [written EXCEPT ![c] = v]
      /\ Rewrite(c, v) \/ Move(c, v) \/ Append(c, v)
  BY DEF set_region_chunk
<1>2. /\ offsets' \in [Chunks -> Offsets]
      /\ IsMap(sectors', Contents) /\ IsMap(sector_free', BOOLEAN) /\ DOMAIN sector_free' = DOMAIN sectors'
  <2>1. CASE Rewrite(c, v)
    <3>1. UNCHANGED <<offsets, sector_free>> /\ sector_free \in [0..(Size(sectors) - 1) -> BOOLEAN]
      BY <2>1, Facts DEF Rewrite
    <3>2. Wrote(c, v, offsets[c].index, Size(sectors))
      BY <2>1, RewriteWrites
    <3> QED
      BY <3>1, <3>2, WroteType DEF TypeOK
  <2>2. CASE Move(c, v) \/ Append(c, v)
    <3>1. PICK at, n : Stored(c, v, at, n)
      BY <2>2, MoveStores, AppendStores
    <3>2. Wrote(c, v, at, n) /\ sector_free' \in [0..(n - 1) -> BOOLEAN]
      BY <3>1 DEF Stored
    <3> QED
      BY <3>1, <3>2, WroteType, StoredOffsets
  <2> QED
    BY <1>1, <2>1, <2>2
<1> QED
  BY <1>1, <1>2 DEF TypeOK

\* Data that takes as many sectors as before stays in its own.
LEMMA RewriteFits ==
  ASSUME TypeOK, Consistent(offsets, sectors), FreeExact, NEW c \in Chunks, NEW v \in Values, Rewrite(c, v)
  PROVE  Fits(c, v, offsets[c].index, Size(sectors)) /\ FreeExact'
<1>1. Wrote(c, v, offsets[c].index, Size(sectors))
  BY RewriteWrites
<1>2. offsets[c].index # 0 /\ offsets[c].count = Sectors[v] /\ UNCHANGED <<offsets, sector_free>>
  BY DEF Rewrite, InPlace
<1>3. offsets[c].index >= 2 /\ offsets[c].index + Sectors[v] <= Size(sectors)
  BY <1>2 DEF Consistent, Absent
<1>4. SectorRange(offsets[c].index, Sectors[v]) = SectorsOf(offsets[c])
  BY <1>2 DEF SectorsOf
<1>5. Fits(c, v, offsets[c].index, Size(sectors))
  BY <1>1, <1>3, <1>4 DEF Fits, Consistent
<1> QED
  BY <1>2, <1>5 DEF FreeExact

LEMMA SetMemory ==
  ASSUME IInv, NEW c \in Chunks, NEW v \in Values, set_region_chunk(c, v), ~torn
  PROVE  /\ Consistent(offsets', sectors') /\ FreeExact'
         /\ \A d \in Chunks : Chunk(d)' = IF d = c THEN v ELSE Chunk(d)
<1>1. TypeOK /\ Consistent(offsets, sectors) /\ FreeExact
  BY DEF IInv, MemoryInv
<1>2. Rewrite(c, v) \/ Move(c, v) \/ Append(c, v)
  BY DEF set_region_chunk
<1>3. FreeExact' /\ \E at, n : Fits(c, v, at, n)
  <2>1. CASE Rewrite(c, v)
    BY <1>1, <2>1, RewriteFits
  <2>2. CASE Move(c, v) \/ Append(c, v)
    <3>1. PICK at, n : Stored(c, v, at, n)
      BY <1>1, <2>2, MoveStores, AppendStores
    <3> QED
      BY <1>1, <3>1, StoredFits
  <2> QED
    BY <1>2, <2>1, <2>2
<1> QED
  BY <1>1, <1>3, FitsConsistent, FitsReads

LEMMA SetInv == ASSUME IInv, NEW c \in Chunks, NEW v \in Values, set_region_chunk(c, v) PROVE IInv'
<1>1. /\ UNCHANGED <<file, step, torn, complete, saved>> /\ written' = [written EXCEPT ![c] = v] /\ step = "open"
  BY DEF set_region_chunk
<1>2. TypeOK /\ TypeOK'
  BY SetType DEF IInv
<1>3. ~torn' => Consistent(offsets, sectors)' /\ FreeExact'
  BY <1>1, SetMemory DEF Consistent, Size
<1>4. ReadBack'
  <2> SUFFICES ASSUME ~torn', NEW d \in Chunks PROVE Chunk(d)' = written'[d]
    BY DEF ReadBack
  <2>1. ~torn /\ Chunk(d) = written[d]
    BY <1>1 DEF IInv, MemoryInv, ReadBack, InMemory
  <2>2. written'[d] = IF d = c THEN v ELSE written[d]
    BY <1>1, <1>2 DEF TypeOK
  <2>3. Chunk(d)' = IF d = c THEN v ELSE Chunk(d)
    BY <2>1, SetMemory
  <2> QED
    BY <2>1, <2>2, <2>3
<1>5. FileInv'
  BY <1>1 DEF IInv, FileInv, Consistent, Size
<1>6. SavedInv'
  BY <1>1 DEF IInv, SavedInv, FileChunk
<1> QED
  BY <1>2, <1>3, <1>4, <1>5, <1>6 DEF IInv, MemoryInv
------------------------------------------------------------------------------
(* Opening, saving and dying. *)

\* In a consistent table all the offsets lie within the file.
LEMMA CoveredIs ==
  ASSUME NEW table \in [Chunks -> Offsets], NEW map, Size(map) \in Nat, Consistent(table, map), NEW s
  PROVE  s \in Covered(table, Size(map)) <=> \E c \in Chunks : s \in SectorsOf(table[c])
BY InTheFile DEF Covered

\* A file without sectors has no chunks.
LEMMA NoChunks ==
  ASSUME NEW offset \in Offsets, NEW map, Size(map) = 0
  PROVE  get_region_chunk(offset, map) = NoValue
<1>1. ASSUME NEW v \in Values, Holds(offset, map, v) PROVE FALSE
  <2>1. PICK k : k = Sectors[v]
    OBVIOUS
  <2>2. k \in 1..127 /\ offset.index \in Nat /\ offset.count \in Nat
    BY <2>1, SectorsAreNat, MaxSectorsIsNat DEF Offsets
  <2>3. offset.index + offset.count <= 0 /\ k <= offset.count
    BY <1>1, <2>1 DEF Holds
  <2> QED
    BY <2>2, <2>3
<1> QED
  BY <1>1, GetIs

\* What open_region reads are the chunks of the file.
LEMMA OpenReads ==
  ASSUME TypeOK, open_region, NEW c \in Chunks
  PROVE  Chunk(c)' = FileChunk(c)
<1>1. Chunk(c)' = get_region_chunk(From.offsets[c], From.sectors)
  BY OpenIs DEF Chunk
<1>2. CASE Size(file.sectors) = 0
  <2>1. From.offsets[c] = Absent
    BY <1>2, EmptyFacts DEF From
  <2> QED
    BY <1>1, <1>2, <2>1, GetAbsent, NoChunks, Facts DEF FileChunk
<1>3. CASE Size(file.sectors) # 0
  BY <1>1, <1>3 DEF From, FileChunk
<1> QED
  BY <1>2, <1>3

LEMMA OpenInv == ASSUME IInv, open_region PROVE IInv'
<1>1. TypeOK /\ TypeOK'
  BY OpenType DEF IInv
<1>2. UNCHANGED <<file, torn, complete, saved>> /\ step = "closed" /\ step' = "open"
  BY OpenIs
<1>3. ASSUME ~torn PROVE Consistent(From.offsets, From.sectors)
  BY <1>3, EmptyFacts DEF IInv, FileInv, From
<1>4. ~torn' => Consistent(offsets, sectors)'
  BY <1>2, <1>3, OpenIs DEF Consistent, Size
<1>5. ASSUME ~torn PROVE FreeExact'
  <2>1. From.offsets \in [Chunks -> Offsets] /\ Size(From.sectors) \in Nat
    BY <1>1, FromFacts, MapFacts
  <2>2. \A s : s \in Covered(From.offsets, Size(From.sectors)) <=> \E c \in Chunks : s \in SectorsOf(From.offsets[c])
    BY <1>3, <1>5, <2>1, CoveredIs
  <2>3. offsets' = From.offsets
    BY OpenIs
  <2>4. sector_free' = [s \in 0..(Size(From.sectors) - 1) |-> s > 1 /\ s \notin Covered(From.offsets, Size(From.sectors))]
    BY OpenIs
  <2> QED
    BY <2>2, <2>3, <2>4 DEF FreeExact
<1>6. ReadBack'
  BY OpenIs DEF ReadBack, Chunk
<1>7. FileInv'
  BY <1>2 DEF IInv, FileInv, Consistent, Size
<1>8. SavedInv'
  BY <1>2 DEF IInv, SavedInv, FileChunk
<1> QED
  BY <1>1, <1>2, <1>4, <1>5, <1>6, <1>7, <1>8 DEF IInv, MemoryInv

\* What a process that is gone leaves of its memory.
LEMMA ForgetMemory == ASSUME Forget, step' = "closed" PROVE MemoryInv'
<1>1. Consistent(offsets', sectors')
  BY EmptyFacts DEF Forget
<1>2. Consistent(offsets, sectors)'
  BY <1>1 DEF Consistent, Size
<1>3. FreeExact'
  <2>1. sector_free' = [s \in 0..1 |-> FALSE]
    BY DEF Forget
  <2> QED
    BY <2>1 DEF FreeExact
<1> QED
  BY <1>2, <1>3 DEF MemoryInv, ReadBack, InMemory

LEMMA TruncateInv == ASSUME IInv, SaveTruncate PROVE IInv'
<1>1. /\ step = "open" /\ step' \in {"saving", "closing"} /\ file' = NothingWritten /\ complete' = FALSE
      /\ saved' = [c \in Chunks |-> Chunk(c)] /\ UNCHANGED <<offsets, sectors, sector_free, torn, written>>
  BY DEF SaveTruncate, region
<1>2. TypeOK'
  <2>1. saved' \in [Chunks -> Values \cup {NoValue}]
    BY <1>1, GetType DEF Chunk
  <2> QED
    BY <1>1, <2>1, NothingFacts DEF IInv, TypeOK, IsMap, Size
<1>3. MemoryInv'
  BY <1>1 DEF IInv, MemoryInv, Consistent, FreeExact, ReadBack, Chunk, InMemory, Size
<1>4. Size(file'.sectors) = 0
  BY <1>1, NothingFacts
<1>5. FileInv'
  BY <1>4 DEF FileInv, Size
<1>6. SavedInv'
  BY <1>1 DEF SavedInv, Chunk
<1> QED
  BY <1>2, <1>3, <1>5, <1>6 DEF IInv

LEMMA SaveInv == ASSUME IInv, SaveWrite PROVE IInv'
<1>1. /\ step \in {"saving", "closing"} /\ file' = [offsets |-> offsets, sectors |-> sectors]
      /\ complete' = TRUE /\ UNCHANGED <<torn, saved>>
  BY DEF SaveWrite
<1>2. \/ step' = "closed" /\ Forget
      \/ step' = "open" /\ UNCHANGED <<offsets, sectors, sector_free, written>>
  BY DEF SaveWrite, region
<1>3. file'.offsets = offsets /\ file'.sectors = sectors
  BY <1>1
<1>4. TypeOK'
  <2>1. /\ offsets' \in [Chunks -> Offsets] /\ IsMap(sectors', Contents) /\ IsMap(sector_free', BOOLEAN)
        /\ DOMAIN sector_free' = DOMAIN sectors' /\ written' \in [Chunks -> Values \cup {NoValue}]
        /\ step' \in {"closed", "open"}
    BY <1>2, ForgetType DEF IInv, TypeOK
  <2> QED
    BY <1>1, <1>3, <2>1 DEF IInv, TypeOK
<1>5. MemoryInv'
  <2>1. CASE step' = "closed" /\ Forget
    BY <2>1, ForgetMemory
  <2>2. CASE step' = "open" /\ UNCHANGED <<offsets, sectors, sector_free, written>>
    BY <1>1, <2>2 DEF IInv, MemoryInv, Consistent, FreeExact, ReadBack, Chunk, InMemory, Size
  <2> QED
    BY <1>2, <2>1, <2>2
<1>6. FileInv'
  BY <1>1, <1>3 DEF IInv, MemoryInv, FileInv, Consistent, Size
<1>7. SavedInv'
  <2>1. \A c \in Chunks : FileChunk(c)' = Chunk(c) /\ saved[c] = Chunk(c)
    BY <1>1, <1>3 DEF IInv, SavedInv, FileChunk, Chunk
  <2>2. step' \in {"closed", "open"}
    BY <1>2
  <2> QED
    BY <1>1, <2>1, <2>2 DEF SavedInv
<1> QED
  BY <1>4, <1>5, <1>6, <1>7 DEF IInv

\* A file that is a part of the memory's, with the same offsets unless it is empty.
PartOfMemory(left) ==
  /\ left.offsets \in [Chunks -> Offsets] /\ IsMap(left.sectors, Contents)
  /\ Size(left.sectors) <= Size(sectors)
  /\ Size(left.sectors) = 0 \/ left.offsets = offsets
  /\ \A s \in 0..(Size(left.sectors) - 1), v \in Values, k \in 1..127 :
       left.sectors[s] = Part(v, k) => sectors[s] = left.sectors[s]

LEMMA CutIsPart ==
  ASSUME TypeOK, NEW n \in 0..Size(sectors)
  PROVE  PartOfMemory(Cut(n)) /\ Size(Cut(n).sectors) = n /\ (n = Size(sectors) => Cut(n).sectors = sectors)
<1>1. Size(sectors) \in Nat /\ Size(sectors) <= MaxSectors /\ sectors \in [0..(Size(sectors) - 1) -> Contents]
  BY Facts, MaxSectorsIsNat
<1>2. n \in Nat /\ n <= Size(sectors) /\ n \in 0..MaxSectors
  BY <1>1, MaxSectorsIsNat
<1>3. /\ Cut(n).sectors = [s \in 0..(n - 1) |-> sectors[s]]
      /\ Cut(n).offsets = IF n = 0 THEN EmptyRegion.offsets ELSE offsets
  BY DEF Cut
<1>4. Cut(n).sectors \in [0..(n - 1) -> Contents]
  BY <1>1, <1>2, <1>3
<1>5. IsMap(Cut(n).sectors, Contents) /\ Size(Cut(n).sectors) = n
  BY <1>2, <1>4, MapIs
<1>6. \A s \in 0..(n - 1) : Cut(n).sectors[s] = sectors[s]
  BY <1>3
<1>7. Cut(n).offsets \in [Chunks -> Offsets]
  BY <1>3, EmptyFacts DEF TypeOK
<1>8. PartOfMemory(Cut(n))
  BY <1>2, <1>3, <1>5, <1>6, <1>7 DEF PartOfMemory
<1> QED
  BY <1>1, <1>3, <1>5, <1>8

LEMMA PaddedIsPart ==
  ASSUME TypeOK, NEW n \in 1..(Size(sectors) - 1)
  PROVE  PartOfMemory(CutPadded(n))
<1>1. Size(sectors) \in Nat /\ Size(sectors) <= MaxSectors /\ sectors \in [0..(Size(sectors) - 1) -> Contents]
  BY Facts, MaxSectorsIsNat
<1>2. n \in Nat /\ n + 1 <= Size(sectors) /\ n + 1 \in 0..MaxSectors /\ (n + 1) - 1 = n
  BY <1>1, MaxSectorsIsNat
<1>3. /\ CutPadded(n).sectors = [s \in 0..n |-> IF s = n /\ sectors[s] # Blank THEN Garbage ELSE sectors[s]]
      /\ CutPadded(n).offsets = offsets
  BY DEF CutPadded
<1>4. \A s \in 0..n : sectors[s] \in Contents
  BY <1>1, <1>2
<1>5. CutPadded(n).sectors \in [0..n -> Contents]
  BY <1>3, <1>4, ContentsFacts
<1>6. IsMap(CutPadded(n).sectors, Contents) /\ Size(CutPadded(n).sectors) = n + 1
  BY <1>2, <1>5, MapIs
<1>7. ASSUME NEW s \in 0..n, NEW v \in Values, NEW k \in 1..127, CutPadded(n).sectors[s] = Part(v, k)
      PROVE  sectors[s] = CutPadded(n).sectors[s]
  BY <1>3, <1>7, PartIsData
<1> QED
  BY <1>2, <1>3, <1>6, <1>7 DEF PartOfMemory, TypeOK

LEMMA PartReads ==
  ASSUME TypeOK, NEW left, PartOfMemory(left), NEW c \in Chunks
  PROVE  get_region_chunk(left.offsets[c], left.sectors) \in {Chunk(c), NoValue}
<1>1. Size(left.sectors) \in Nat /\ Size(sectors) \in Nat /\ left.offsets[c] \in Offsets
  BY MapFacts, Facts DEF PartOfMemory
<1>2. CASE Size(left.sectors) = 0
  BY <1>1, <1>2, NoChunks
<1>3. CASE left.offsets = offsets
  BY <1>1, <1>3, GetPart DEF PartOfMemory, Chunk
<1> QED
  BY <1>2, <1>3 DEF PartOfMemory

LEMMA CrashInv == ASSUME IInv, Crash PROVE IInv'
<1>1. /\ step \in {"open", "saving", "closing"} /\ step' = "closed" /\ Forget /\ UNCHANGED <<complete, saved>>
  BY DEF Crash, InMemory, IInv, TypeOK
<1>2. MemoryInv'
  BY <1>1, ForgetMemory
<1>3. CASE step = "open"
  <2>1. UNCHANGED <<file, torn>>
    BY <1>3 DEF Crash
  <2>2. TypeOK'
    BY <1>1, <2>1, ForgetType DEF IInv, TypeOK
  <2>3. FileInv' /\ SavedInv'
    BY <1>1, <1>3, <2>1 DEF IInv, FileInv, SavedInv, FileChunk, Consistent, Size
  <2> QED
    BY <1>2, <2>2, <2>3 DEF IInv
<1>4. CASE step \in {"saving", "closing"}
  <2>1. PICK n \in 0..Size(sectors) :
          /\ file' = Cut(n) \/ (n \in 1..(Size(sectors) - 1) /\ file' = CutPadded(n))
          /\ torn' = IF n = 0 THEN FALSE ELSE torn \/ n < Size(sectors)
    BY <1>4 DEF Crash
  <2>2. TypeOK /\ Size(sectors) \in Nat /\ n \in Nat
    BY Facts DEF IInv
  <2>3. PartOfMemory(file')
    BY <2>1, <2>2, CutIsPart, PaddedIsPart
  <2>4. TypeOK'
    <3>1. torn' \in BOOLEAN
      BY <2>1, <2>2 DEF TypeOK
    <3> QED
      BY <1>1, <2>2, <2>3, <3>1, ForgetType DEF TypeOK, PartOfMemory
  <2>5. FileInv'
    <3> SUFFICES ASSUME ~torn', Size(file'.sectors) # 0 PROVE Consistent(file'.offsets, file'.sectors)
      BY DEF FileInv, Consistent, Size
    <3>1. CASE n = 0
      <4>1. n \notin 1..(Size(sectors) - 1)
        BY <3>1
      <4>2. Size(file'.sectors) = 0
        BY <2>1, <2>2, <3>1, <4>1, CutIsPart
      <4> QED
        BY <4>2
    <3>2. CASE n # 0
      <4>1. ~torn /\ ~(n < Size(sectors))
        BY <2>1, <3>2, Zenon
      <4>2. n <= Size(sectors)
        BY <2>2
      <4>3. ~torn /\ n = Size(sectors)
        BY <2>2, <4>1, <4>2
      <4>4. file' = Cut(n)
        BY <2>1, <2>2, <4>3
      <4>5. file'.sectors = sectors /\ file'.offsets = offsets
        BY <2>2, <2>3, <4>3, <4>4, CutIsPart DEF PartOfMemory
      <4> QED
        BY <4>3, <4>5 DEF IInv, MemoryInv
    <3> QED
      BY <3>1, <3>2
  <2>6. SavedInv'
    <3>1. ~complete' /\ \A c \in Chunks : saved'[c] = Chunk(c)
      BY <1>1, <1>4 DEF IInv, SavedInv
    <3>2. \A c \in Chunks : FileChunk(c)' \in {Chunk(c), NoValue}
      BY <2>2, <2>3, PartReads DEF FileChunk
    <3> QED
      BY <1>1, <3>1, <3>2 DEF SavedInv
  <2> QED
    BY <1>2, <2>4, <2>5, <2>6 DEF IInv
<1> QED
  BY <1>1, <1>3, <1>4
------------------------------------------------------------------------------
(* The theorems. *)

LEMMA InitInv == Init => IInv
<1> SUFFICES ASSUME Init PROVE IInv
  OBVIOUS
<1>1. /\ file = NothingWritten /\ step = "closed" /\ offsets = EmptyRegion.offsets
      /\ sectors = EmptyRegion.sectors /\ sector_free = [s \in 0..1 |-> FALSE]
      /\ saved = [c \in Chunks |-> NoValue]
  BY DEF Init
<1>2. MemoryInv
  BY <1>1, EmptyFacts DEF MemoryInv, FreeExact, ReadBack, InMemory
<1>3. FileInv
  BY <1>1, NothingFacts DEF FileInv
<1>4. SavedInv
  <2>1. \A c \in Chunks : FileChunk(c) = NoValue
    BY <1>1, NothingFacts, NoChunks DEF FileChunk
  <2> QED
    BY <1>1, <2>1 DEF SavedInv
<1> QED
  BY <1>2, <1>3, <1>4, InitType DEF IInv

LEMMA NextInv == IInv /\ [Next]_vars => IInv'
<1> SUFFICES ASSUME IInv, [Next]_vars PROVE IInv'
  OBVIOUS
<1>1. CASE open_region
  BY <1>1, OpenInv
<1>2. CASE \E c \in Chunks, v \in Values : set_region_chunk(c, v)
  BY <1>2, SetInv
<1>3. CASE SaveTruncate
  BY <1>3, TruncateInv
<1>4. CASE SaveWrite
  BY <1>4, SaveInv
<1>5. CASE Crash
  BY <1>5, CrashInv
<1>6. CASE UNCHANGED vars
  BY <1>6 DEF vars, region, IInv, TypeOK, MemoryInv, FileInv, SavedInv, FileChunk, Chunk, Consistent,
              FreeExact, ReadBack, InMemory, IsMap, Size
<1> QED
  BY <1>1, <1>2, <1>3, <1>4, <1>5, <1>6 DEF Next

LEMMA Inductive == Spec => []IInv
BY InitInv, NextInv, PTL DEF Spec

\* Tables, files and free maps keep their shape; the free map is as long as the file.
THEOREM TypeCorrect == Spec => []TypeOK
<1>1. IInv => TypeOK
  BY DEF IInv
<1> QED
  BY <1>1, Inductive, PTL

\* The allocator of set_region_chunk gives no sector to two chunks.
THEOREM SectorsAreApart == Spec => []NoSharedSectors
<1>1. IInv => NoSharedSectors
  <2> SUFFICES ASSUME IInv, ~torn
               PROVE  /\ \A c, d \in Chunks : c # d => SectorsOf(offsets[c]) \cap SectorsOf(offsets[d]) = {}
                      /\ \A c \in Chunks : SectorsOf(offsets[c]) \subseteq 2..(Size(sectors) - 1)
    BY DEF NoSharedSectors
  <2>1. Consistent(offsets, sectors) /\ offsets \in [Chunks -> Offsets] /\ Size(sectors) \in Nat
    BY Facts DEF IInv, MemoryInv, TypeOK
  <2>2. \A c \in Chunks : \A s \in SectorsOf(offsets[c]) : s \in 0..(Size(sectors) - 1) /\ s >= 2
    BY <2>1, InTheFile
  <2>3. \A s \in 0..(Size(sectors) - 1) : s >= 2 => s \in 2..(Size(sectors) - 1)
    BY <2>1
  <2> QED
    BY <2>1, <2>2, <2>3 DEF Consistent
<1> QED
  BY <1>1, Inductive, PTL

\* The allocator neither leaks a sector nor frees one in use.
THEOREM FreeMapCorrect == Spec => []FreeMapIsExact
<1>1. IInv => FreeMapIsExact
  <2> SUFFICES ASSUME IInv, ~torn, NEW s \in DOMAIN sector_free
               PROVE  sector_free[s] <=> s > 1 /\ s \notin Covered(offsets, Size(sectors))
    BY DEF FreeMapIsExact
  <2>1. /\ Consistent(offsets, sectors) /\ offsets \in [Chunks -> Offsets] /\ Size(sectors) \in Nat
        /\ FreeExact
    BY Facts DEF IInv, MemoryInv, TypeOK
  <2>2. s \in Covered(offsets, Size(sectors)) <=> \E c \in Chunks : s \in SectorsOf(offsets[c])
    BY <2>1, CoveredIs
  <2> QED
    BY <2>1, <2>2 DEF FreeExact
<1> QED
  BY <1>1, Inductive, PTL

\* get_region_chunk gives what set_region_chunk was given.
THEOREM ReadBackCorrect == Spec => []ReadBack
<1>1. IInv => ReadBack
  BY DEF IInv, MemoryInv
<1> QED
  BY <1>1, Inductive, PTL

\* open_region after a save, or after a process that died in one.
THEOREM ReopenCorrect == Spec => ReopenGivesSaved
<1> DEFINE Reopened == ~InMemory /\ InMemory' =>
                         \A c \in Chunks : /\ Chunk(c)' \in {saved[c], NoValue}
                                           /\ complete => Chunk(c)' = saved[c]
<1>1. IInv /\ [Next]_vars => [Reopened]_vars
  <2> SUFFICES ASSUME IInv, Next, ~InMemory, InMemory', NEW c \in Chunks
               PROVE  Chunk(c)' \in {saved[c], NoValue} /\ (complete => Chunk(c)' = saved[c])
    OBVIOUS
  <2>1. step = "closed" /\ TypeOK
    BY DEF InMemory, IInv
  <2>2. open_region
    BY <2>1 DEF Next, set_region_chunk, SaveTruncate, SaveWrite, Crash, InMemory
  <2>3. Chunk(c)' = FileChunk(c)
    BY <2>1, <2>2, OpenReads
  <2> QED
    BY <2>1, <2>3 DEF IInv, SavedInv
<1>2. IInv /\ [Next]_vars => [~InMemory /\ InMemory' =>
                                \A c \in Chunks : /\ Chunk(c)' \in {saved[c], NoValue}
                                                  /\ complete => Chunk(c)' = saved[c]]_vars
  BY <1>1
<1> QED
  BY <1>2, Inductive, PTL DEF Spec, ReopenGivesSaved
-------------------------------------------------------------------------------
(* The loops of set_region_chunk find the lowest run of free sectors that holds *)
(* the chunk, for files of any size and chunks of any number of sectors a char  *)
(* can count.                                                                   *)

\* FirstRun is the lowest run when there is one.
LEMMA FirstRunIsLowest ==
  ASSUME NEW size_ \in Nat, NEW free \in [0..(size_ - 1) -> BOOLEAN], NEW count \in Nat,
         NEW s \in DOMAIN free, IsRun(free, s, count), \A t \in 0..(s - 1) : ~IsRun(free, t, count)
  PROVE  FirstRun(free, count) = s
<1> DEFINE Lowest(f) == IsRun(free, f, count) /\ \A t \in 0..(f - 1) : ~IsRun(free, t, count)
<1>1. Lowest(s) /\ s \in DOMAIN free
  OBVIOUS
<1>2. ASSUME NEW f \in DOMAIN free, Lowest(f) PROVE f = s
  <2>1. f \in Nat /\ s \in Nat
    OBVIOUS
  <2>2. ~(f < s) /\ ~(s < f)
    BY <1>1, <1>2, <2>1
  <2> QED
    BY <2>1, <2>2
<1>3. FirstRun(free, count) = CHOOSE f \in DOMAIN free : Lowest(f)
  BY DEF FirstRun
<1> HIDE DEF Lowest
<1> QED
  BY <1>1, <1>2, <1>3

\* A run lies within the map.
LEMMA RunBound ==
  ASSUME NEW size_ \in Nat, NEW free \in [0..(size_ - 1) -> BOOLEAN], NEW count \in Nat \ {0},
         NEW s \in Nat, IsRun(free, s, count)
  PROVE  /\ s + count <= size_
         /\ \A k \in s..(s + count - 1) : k \in 0..(size_ - 1) /\ free[k]
<1>1. \A k \in s..(s + count - 1) : k \in 0..(size_ - 1) /\ free[k]
  BY DEF IsRun, SectorRange
<1>2. s + count - 1 \in s..(s + count - 1)
  OBVIOUS
<1> QED
  BY <1>1, <1>2

LEMMA SearchInitInv == SearchInit => SearchInv
BY MaxSizeIsNat, MaxRequiredIsChar DEF SearchInit, SearchInv, SearchTypeOK

LEMMA SkipInv == SearchInv /\ Skip => SearchInv'
<1> SUFFICES ASSUME SearchInv, Skip PROVE SearchInv'
  OBVIOUS
<1>1. SearchTypeOK'
  BY MaxSizeIsNat, MaxRequiredIsChar DEF SearchInv, SearchTypeOK, Skip, given
<1>2. \A s \in 0..(sector' - 1) : ~free_map[s]
  BY DEF SearchInv, SearchTypeOK, Skip
<1> QED
  BY <1>1, <1>2 DEF SearchInv, Skip, given

LEMMA FoundFreeInv == SearchInv /\ FoundFree => SearchInv'
<1> SUFFICES ASSUME SearchInv, FoundFree PROVE SearchInv'
  OBVIOUS
<1>1. SearchTypeOK'
  BY MaxSizeIsNat, MaxRequiredIsChar DEF SearchInv, SearchTypeOK, FoundFree, given
<1>2. run_length = 0 /\ run_length' = 0 /\ sector' = sector /\ pc' = "extend" /\ free_map' = free_map
      /\ required' = required /\ required \in Nat \ {0}
  BY MaxRequiredIsChar DEF SearchInv, SearchTypeOK, FoundFree, given
<1>3. \A t \in 0..(sector - 1) : ~IsRun(free_map, t, required)
  <2> SUFFICES ASSUME NEW t \in 0..(sector - 1), IsRun(free_map, t, required) PROVE FALSE
    OBVIOUS
  <2>1. t \in SectorRange(t, required)
    BY <1>2 DEF SectorRange, SearchInv, SearchTypeOK
  <2>2. free_map[t]
    BY <2>1 DEF IsRun
  <2> QED
    BY <2>2 DEF SearchInv, FoundFree
<1>4. /\ run_length' < required'
      /\ ~(run_length' # 0)
      /\ \A t \in 0..(sector' - run_length' - 1) : ~IsRun(free_map', t, required')
  <2>1. sector' - run_length' - 1 = sector - 1
    BY <1>2 DEF SearchInv, SearchTypeOK
  <2>2. required' > 0
    BY <1>2
  <2> QED
    BY <1>2, <1>3, <2>1, <2>2
<1> QED
  BY <1>1, <1>2, <1>4 DEF SearchInv

LEMMA NothingFreeInv == SearchInv /\ NothingFree => SearchInv'
<1> SUFFICES ASSUME SearchInv, NothingFree PROVE SearchInv'
  OBVIOUS
<1>1. SearchTypeOK'
  BY MaxSizeIsNat, MaxRequiredIsChar DEF SearchInv, SearchTypeOK, NothingFree, given
<1>2. run_length' = 0 /\ pc' = "done" /\ sector = free_size /\ free_map' = free_map
      /\ required' = required /\ required \in Nat \ {0} /\ free_map \in [0..(free_size - 1) -> BOOLEAN]
  BY MaxSizeIsNat, MaxRequiredIsChar DEF SearchInv, SearchTypeOK, NothingFree, given
<1>3. ~HasRun(free_map, required)
  <2> SUFFICES ASSUME NEW s \in DOMAIN free_map, IsRun(free_map, s, required) PROVE FALSE
    BY DEF HasRun
  <2>1. s \in 0..(sector - 1)
    BY <1>2
  <2>2. s \in SectorRange(s, required)
    BY <1>2, <2>1 DEF SectorRange
  <2>3. free_map[s]
    BY <2>2 DEF IsRun
  <2> QED
    BY <2>1, <2>3 DEF SearchInv, NothingFree
<1> QED
  BY <1>1, <1>2, <1>3 DEF SearchInv, Found

LEMMA ExtendInv == SearchInv /\ Extend => SearchInv'
<1> SUFFICES ASSUME SearchInv, Extend PROVE SearchInv'
  OBVIOUS
<1>1. /\ free_size \in Nat /\ free_map \in [0..(free_size - 1) -> BOOLEAN] /\ required \in Nat \ {0}
      /\ sector \in 0..(free_size - 1) /\ run_length \in Nat \ {0} /\ run_length < required
      /\ run_start \in Nat /\ run_start = sector - run_length
      /\ free_map[sector] /\ pc = "extend"
  BY MaxSizeIsNat, MaxRequiredIsChar DEF SearchInv, SearchTypeOK, Extend
<1>2. /\ run_length' = run_length + 1 /\ run_start' = run_start
      /\ free_map' = free_map /\ required' = required /\ free_size' = free_size
      /\ IF run_length' >= required THEN pc' = "done" /\ sector' = sector ELSE pc' = "extend" /\ sector' = sector + 1
  BY <1>1 DEF Extend, given, Pass
<1>3. SearchTypeOK'
  BY <1>1, <1>2, MaxSizeIsNat, MaxRequiredIsChar DEF SearchInv, SearchTypeOK
<1>4. IsRun(free_map, run_start, run_length')
  <2>1. IsRun(free_map, run_start, run_length)
    BY <1>1 DEF SearchInv
  <2>2. \A s \in SectorRange(run_start, run_length') : s \in SectorRange(run_start, run_length) \/ s = sector
    BY <1>1, <1>2 DEF SectorRange
  <2> QED
    BY <1>1, <2>1, <2>2 DEF IsRun
<1>5. \A t \in 0..(run_start - 1) : ~IsRun(free_map, t, required)
  BY <1>1 DEF SearchInv
<1>6. CASE run_length' >= required
  <2>1. run_length' = required
    BY <1>1, <1>2, <1>6
  <2> QED
    BY <1>1, <1>2, <1>3, <1>4, <1>5, <1>6, <2>1 DEF SearchInv, Found
<1>7. CASE run_length' < required
  <2>1. pc' = "extend" /\ run_start' = sector' - run_length'
    BY <1>1, <1>2, <1>7
  <2> QED
    BY <1>1, <1>2, <1>3, <1>4, <1>5, <1>7, <2>1, SMTT(30) DEF SearchInv
<1> QED
  BY <1>1, <1>2, <1>6, <1>7

\* A run of the required length that starts below i and does not end before it has i in it.
LEMMA TakenSectorEndsRuns ==
  ASSUME NEW size_ \in Nat, NEW free \in [0..(size_ - 1) -> BOOLEAN], NEW count \in Nat \ {0},
         NEW at \in 0..(size_ - 1), ~free[at], NEW t \in 0..at, t + count > at
  PROVE  ~IsRun(free, t, count)
<1>1. at \in SectorRange(t, count)
  BY DEF SectorRange
<1> QED
  BY <1>1 DEF IsRun

LEMMA InterruptInv == SearchInv /\ Interrupt => SearchInv'
<1> SUFFICES ASSUME SearchInv, Interrupt PROVE SearchInv'
  OBVIOUS
<1>1. /\ free_size \in Nat /\ free_map \in [0..(free_size - 1) -> BOOLEAN] /\ required \in Nat \ {0}
      /\ sector \in 0..(free_size - 1) /\ run_length \in Nat \ {0} /\ run_length < required
      /\ ~free_map[sector] /\ pc = "extend"
  BY MaxSizeIsNat, MaxRequiredIsChar DEF SearchInv, SearchTypeOK, Interrupt
<1>2. /\ run_length' = 0 /\ run_start' = run_start /\ pc' = "extend" /\ sector' = sector + 1
      /\ free_map' = free_map /\ required' = required /\ free_size' = free_size
  BY <1>1 DEF Interrupt, given, Pass
<1>3. SearchTypeOK'
  BY <1>1, <1>2, MaxSizeIsNat, MaxRequiredIsChar DEF SearchInv, SearchTypeOK
<1>4. \A t \in 0..(sector' - run_length' - 1) : ~IsRun(free_map, t, required)
  <2> SUFFICES ASSUME NEW t \in 0..sector PROVE ~IsRun(free_map, t, required)
    BY <1>1, <1>2
  <2>1. CASE t <= sector - run_length - 1
    BY <1>1, <2>1 DEF SearchInv
  <2>2. CASE t > sector - run_length - 1
    <3>1. t + required > sector
      BY <1>1, <2>2
    <3> QED
      BY <1>1, <3>1, TakenSectorEndsRuns
  <2> QED
    BY <1>1, <2>1, <2>2
<1> QED
  BY <1>1, <1>2, <1>3, <1>4 DEF SearchInv

LEMMA StartInv == SearchInv /\ Start => SearchInv'
<1> SUFFICES ASSUME SearchInv, Start PROVE SearchInv'
  OBVIOUS
<1>1. /\ free_size \in Nat /\ free_map \in [0..(free_size - 1) -> BOOLEAN] /\ required \in Nat \ {0}
      /\ sector \in 0..(free_size - 1) /\ run_length = 0 /\ pc = "extend"
  BY MaxSizeIsNat, MaxRequiredIsChar DEF SearchInv, SearchTypeOK, Start
<1>2. /\ free_map' = free_map /\ required' = required /\ free_size' = free_size
      /\ IF free_map[sector] THEN run_start' = sector /\ run_length' = 1 ELSE run_start' = run_start /\ run_length' = 0
      /\ IF run_length' >= required THEN pc' = "done" /\ sector' = sector ELSE pc' = "extend" /\ sector' = sector + 1
  BY <1>1 DEF Start, given, Pass
<1>3. SearchTypeOK'
  BY <1>1, <1>2, MaxSizeIsNat, MaxRequiredIsChar DEF SearchInv, SearchTypeOK
<1>4. \A t \in 0..(sector - 1) : ~IsRun(free_map, t, required)
  BY <1>1 DEF SearchInv
<1>5. CASE free_map[sector]
  <2>1. IsRun(free_map, run_start', run_length')
    <3>1. SectorRange(run_start', run_length') = {sector}
      BY <1>1, <1>2, <1>5 DEF SectorRange
    <3> QED
      BY <1>1, <1>5, <3>1 DEF IsRun
  <2>2. CASE required = 1
    BY <1>1, <1>2, <1>3, <1>4, <1>5, <2>1, <2>2 DEF SearchInv, Found
  <2>3. CASE required # 1
    <3>1. pc' = "extend" /\ sector' = sector + 1 /\ run_length' = 1 /\ run_start' = sector
      BY <1>1, <1>2, <1>5, <2>3
    <3> QED
      BY <1>1, <1>2, <1>3, <1>4, <2>1, <2>3, <3>1, SMTT(30) DEF SearchInv
  <2> QED
    BY <2>2, <2>3
<1>6. CASE ~free_map[sector]
  <2>1. pc' = "extend" /\ sector' = sector + 1 /\ run_length' = 0
    BY <1>1, <1>2, <1>6
  <2>2. \A t \in 0..sector : ~IsRun(free_map, t, required)
    <3> SUFFICES ASSUME NEW t \in 0..sector PROVE ~IsRun(free_map, t, required)
      OBVIOUS
    <3>1. CASE t = sector
      BY <1>1, <1>6, <3>1, TakenSectorEndsRuns
    <3>2. CASE t < sector
      BY <1>1, <1>4, <3>2
    <3> QED
      BY <1>1, <3>1, <3>2
  <2> QED
    BY <1>1, <1>2, <1>3, <2>1, <2>2 DEF SearchInv
<1> QED
  BY <1>5, <1>6

LEMMA EndInv == SearchInv /\ End => SearchInv'
<1> SUFFICES ASSUME SearchInv, End PROVE SearchInv'
  OBVIOUS
<1>1. /\ free_size \in Nat /\ free_map \in [0..(free_size - 1) -> BOOLEAN] /\ required \in Nat \ {0}
      /\ sector = free_size /\ run_length \in Nat /\ run_length < required /\ pc = "extend"
  BY MaxSizeIsNat, MaxRequiredIsChar DEF SearchInv, SearchTypeOK, End
<1>2. UNCHANGED <<free_size, free_map, required, sector, run_start, run_length>> /\ pc' = "done"
  BY DEF End, given
<1>3. SearchTypeOK'
  BY <1>1, <1>2 DEF SearchInv, SearchTypeOK
<1>4. ~HasRun(free_map, required)
  <2> SUFFICES ASSUME NEW s \in DOMAIN free_map, IsRun(free_map, s, required) PROVE FALSE
    BY DEF HasRun
  <2>1. s \in Nat /\ s + required <= free_size
    BY <1>1, RunBound
  <2>2. s \in 0..(sector - run_length - 1)
    BY <1>1, <2>1
  <2> QED
    BY <1>1, <2>2 DEF SearchInv
<1> QED
  BY <1>1, <1>2, <1>3, <1>4 DEF SearchInv, Found

LEMMA SearchNextInv == SearchInv /\ [SearchNext]_search => SearchInv'
<1> SUFFICES ASSUME SearchInv, [SearchNext]_search PROVE SearchInv'
  OBVIOUS
<1>1. CASE UNCHANGED search
  BY <1>1 DEF search, SearchInv, SearchTypeOK, Found
<1> QED
  BY <1>1, SkipInv, FoundFreeInv, NothingFreeInv, ExtendInv, InterruptInv, StartInv, EndInv DEF SearchNext

LEMMA SearchIsInvariant == SearchSpec => []SearchInv
BY SearchInitInv, SearchNextInv, PTL DEF SearchSpec

\* The types of the search's variables: run_length never passes the required count, and
\* no index leaves the map.
THEOREM SearchTypeCorrect == SearchSpec => []SearchTypeOK
<1>1. SearchInv => SearchTypeOK
  BY DEF SearchInv
<1> QED
  BY <1>1, SearchIsInvariant, PTL

\* The search of set_region_chunk returns the lowest run of free sectors that is long
\* enough, and reports none only when there is none.
THEOREM SearchIsFirstFit == SearchSpec => []FindsFirstRun
<1>1. SearchInv => FindsFirstRun
  <2> SUFFICES ASSUME SearchInv, pc = "done"
               PROVE  /\ Found <=> HasRun(free_map, required)
                      /\ Found => run_start = FirstRun(free_map, required)
    BY DEF FindsFirstRun
  <2>1. free_size \in Nat /\ free_map \in [0..(free_size - 1) -> BOOLEAN] /\ required \in Nat \ {0}
        /\ run_start \in -1..(free_size - 1)
    BY MaxSizeIsNat, MaxRequiredIsChar DEF SearchInv, SearchTypeOK
  <2>2. CASE ~Found
    BY <2>2 DEF SearchInv
  <2>3. CASE Found
    <3>1. IsRun(free_map, run_start, required) /\ \A t \in 0..(run_start - 1) : ~IsRun(free_map, t, required)
      BY <2>3 DEF SearchInv
    <3>2. run_start \in DOMAIN free_map
      BY <2>1, <2>3 DEF SearchInv, Found, SearchTypeOK
    <3> QED
      BY <2>1, <2>3, <3>1, <3>2, FirstRunIsLowest DEF HasRun
  <2> QED
    BY <2>2, <2>3
<1> QED
  BY <1>1, SearchIsInvariant, PTL
==============================================================================
