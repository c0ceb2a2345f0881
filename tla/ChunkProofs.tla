----------------------------- MODULE ChunkProofs -----------------------------
(***************************************************************************)
(* Theorems of Chunk, for every size of sub chunk and of chunk, and of     *)
(* StorageEncoding, for every size of palette.                             *)
(***************************************************************************)
EXTENDS Chunk, StorageEncoding, TLAPS, WellFoundedInduction, FiniteSetTheorems

USE SideIsPositive, ByteIsNat, SubChunksFit, LayersIsNat

\* A height divides into a sub chunk and a height within it.
LEMMA Division ==
  ASSUME NEW y \in Nat
  PROVE  /\ y = Side * (y \div Side) + (y % Side)
         /\ y % Side \in 0..(Side - 1)
         /\ y \div Side \in Nat
BY SMT

LEMMA Composition ==
  ASSUME NEW n \in Nat, NEW h \in 0..(Side - 1)
  PROVE  (h + n * Side) \div Side = n /\ (h + n * Side) % Side = h
BY SMT

\* Two digits in base Side determine their number.
LEMMA Digits ==
  ASSUME NEW a \in Nat, NEW b \in Nat, NEW s \in 0..(Side - 1), NEW t \in 0..(Side - 1),
         a * Side + s = b * Side + t
  PROVE  a = b /\ s = t
<1>1. ~(a < b)
  <2>1. ASSUME a < b PROVE FALSE
    <3>1. a * Side + Side <= b * Side BY <2>1, SMT
    <3>2. QED BY <3>1, SMT
  <2>2. QED BY <2>1
<1>2. ~(b < a)
  <2>1. ASSUME b < a PROVE FALSE
    <3>1. b * Side + Side <= a * Side BY <2>1, SMT
    <3>2. QED BY <3>1, SMT
  <2>2. QED BY <2>1
<1>3. QED BY <1>1, <1>2, SMT

Cell == 0..(Side - 1)

\* (x << 8) | (z << 4) | y is a cell of the array.
LEMMA IndexInRange ==
  ASSUME NEW x \in Cell, NEW y \in Cell, NEW z \in Cell
  PROVE  Index(x, y, z) \in Blocks
<1>1. x * Side + z \in Nat /\ x * Side + z + 1 <= Side * Side
  <2>1. x * Side + Side <= Side * Side BY SMT DEF Cell
  <2>2. x * Side \in Nat BY SMT DEF Cell
  <2>3. QED BY <2>1, <2>2, SMT DEF Cell
<1>2. PICK r \in Nat : r = x * Side + z BY <1>1
<1>3. PICK q \in Nat : q = Side * Side BY SMT
<1>4. r * Side + Side <= q * Side
  <2>1. r + 1 <= q BY <1>1, <1>2, <1>3, SMT
  <2>2. QED BY <2>1, SMT
<1>5. r * Side \in Nat BY SMT
<1>6. r * Side + y \in 0..(q * Side - 1) BY <1>4, <1>5, SMT DEF Cell
<1>7. QED BY <1>2, <1>3, <1>6 DEF Index, Blocks

\* Different cells of a storage have different indices.
LEMMA IndexIsInjective ==
  ASSUME NEW x \in Cell, NEW y \in Cell, NEW z \in Cell,
         NEW u \in Cell, NEW v \in Cell, NEW w \in Cell,
         Index(x, y, z) = Index(u, v, w)
  PROVE  x = u /\ y = v /\ z = w
<1>1. x * Side + z \in Nat /\ u * Side + w \in Nat BY SMT DEF Cell
<1>2. x * Side + z = u * Side + w /\ y = v BY <1>1, Digits DEF Index, Cell
<1>3. x \in Nat /\ u \in Nat BY DEF Cell
<1>4. QED BY <1>2, <1>3, Digits DEF Cell

\* A set of heights that is not empty has a greatest one: the least distance to the top.
LEMMA Greatest ==
  ASSUME NEW H, H \subseteq Cell, H # {}
  PROVE  \E y \in H : \A h \in H : h <= y
<1> DEFINE T == {Side - 1 - h : h \in H}
<1>1. T \subseteq Nat /\ T # {}
  <2>1. \A h \in H : Side - 1 - h \in Nat BY SMT DEF Cell
  <2>2. QED BY <2>1
<1>2. IsWellFoundedOn(OpToRel(<, Nat), Nat) BY NatLessThanWellFounded
<1>3. PICK m \in T : \A t \in T : <<t, m>> \notin OpToRel(<, Nat) BY <1>1, <1>2, WFMin
<1>4. \A t \in T : ~(t < m) BY <1>1, <1>3 DEF OpToRel
<1>5. PICK y \in H : m = Side - 1 - y BY <1>3
<1>6. \A h \in H : h <= y
  <2>1. TAKE h \in H
  <2>2. Side - 1 - h \in T OBVIOUS
  <2>3. ~(Side - 1 - h < Side - 1 - y) BY <2>2, <1>4, <1>5
  <2>4. QED BY <2>3, SMT DEF Cell
<1>7. QED BY <1>6

\* A new storage reads its runtime id everywhere.
LEMMA NewStorage ==
  ASSUME NEW id \in Ids
  PROVE  /\ new_block_storage(id) \in BlockStorages
         /\ Sound(new_block_storage(id), id)
         /\ is_empty_block_storage(new_block_storage(id))
         /\ \A x, y, z \in Cell :
              get_block_storage_block_runtime_id(x, y, z, new_block_storage(id)) = id
<1> DEFINE s == new_block_storage(id)
<1>1. s.palette = <<id>> /\ s.blocks = [b \in Blocks |-> 0] /\ s \in BlockStorages
  BY DEF new_block_storage, BlockStorages
<1>2. Len(<<id>>) = 1 /\ DOMAIN <<id>> = {1} /\ <<id>>[1] = id OBVIOUS
<1>3. Sound(s, id) BY <1>1, <1>2 DEF Sound
<1>4. is_empty_block_storage(s) BY <1>1 DEF is_empty_block_storage
<1>5. \A x, y, z \in Cell : get_block_storage_block_runtime_id(x, y, z, s) = id
  BY <1>1, <1>2, IndexInRange DEF get_block_storage_block_runtime_id
<1> HIDE DEF s
<1>6. QED BY <1>1, <1>3, <1>4, <1>5 DEF s

\* What a storage reads is the id of a place of its palette.
LEMMA ReadStorage ==
  ASSUME NEW s \in BlockStorages, NEW first, Sound(s, first),
         NEW x \in Cell, NEW y \in Cell, NEW z \in Cell
  PROVE  /\ s.blocks[Index(x, y, z)] + 1 \in DOMAIN s.palette
         /\ get_block_storage_block_runtime_id(x, y, z, s) \in Ids
         /\ get_block_storage_block_runtime_id(x, y, z, s) = first <=> s.blocks[Index(x, y, z)] = 0
<1>1. PICK b \in Blocks : b = Index(x, y, z) BY IndexInRange
<1>2. s.palette \in Seq(Ids) /\ s.blocks[b] \in Nat BY DEF BlockStorages
<1>3. PICK k \in Nat : k = s.blocks[b] BY <1>2
<1>4. k < Len(s.palette) BY <1>3 DEF Sound
<1>5. k + 1 \in DOMAIN s.palette /\ 1 \in DOMAIN s.palette BY <1>2, <1>4
<1>6. s.palette[k + 1] \in Ids BY <1>2, <1>5
<1>7. s.palette[k + 1] = first <=> k + 1 = 1 BY <1>5 DEF Sound
<1>8. QED BY <1>1, <1>3, <1>5, <1>6, <1>7, SMT DEF get_block_storage_block_runtime_id

\* The cells of t read as those of s do, but for one.
OnlyOneCell(t, s, x, y, z, id) ==
  \A u, v, w \in Cell :
    get_block_storage_block_runtime_id(u, v, w, t)
      = IF u = x /\ v = y /\ w = z THEN id ELSE get_block_storage_block_runtime_id(u, v, w, s)

\* set_block_storage_block_runtime_id keeps a storage sound, and changes what one cell
\* reads.
LEMMA SetStorage ==
  ASSUME NEW s \in BlockStorages, NEW first, Sound(s, first), NEW id \in Ids,
         NEW x \in Cell, NEW y \in Cell, NEW z \in Cell
  PROVE  LET t == set_block_storage_block_runtime_id(x, y, z, id, s) IN
         /\ t \in BlockStorages
         /\ Sound(t, first)
         /\ OnlyOneCell(t, s, x, y, z, id)
<1> DEFINE t == set_block_storage_block_runtime_id(x, y, z, id, s)
<1>1. PICK b \in Blocks : b = Index(x, y, z) BY IndexInRange
<1>2. s.palette \in Seq(Ids) /\ s.blocks \in [Blocks -> Nat] BY DEF BlockStorages
<1>3. PICK n \in Nat :
        /\ n < Len(t.palette)
        /\ t.palette \in Seq(Ids)
        /\ t.palette[n + 1] = id
        /\ t.blocks = [s.blocks EXCEPT ![b] = n]
        /\ t = [blocks |-> t.blocks, palette |-> t.palette]
        /\ Len(s.palette) <= Len(t.palette)
        /\ \A m \in DOMAIN s.palette : t.palette[m] = s.palette[m]
        /\ \A m, k \in DOMAIN t.palette : t.palette[m] = t.palette[k] => m = k
  <2>1. CASE InPalette(id, s)
    <3>1. PICK m \in DOMAIN s.palette : s.palette[m] = id BY <2>1 DEF InPalette
    <3>2. \A k \in DOMAIN s.palette : s.palette[k] = id => k = m BY <3>1 DEF Sound
    <3>3. m \in Nat /\ DOMAIN s.palette = 1..Len(s.palette) BY <1>2
    <3>4. \A k \in 1..(m - 1) : s.palette[k] # id BY <3>2, <3>3, SMT
    <3>5. Search(id, s) = m BY <3>1, <3>2, <3>4 DEF Search
    <3>6. t = [s EXCEPT !.blocks[b] = m - 1] BY <2>1, <3>5, <1>1 DEF set_block_storage_block_runtime_id
    <3>7. t.palette = s.palette /\ t.blocks = [s.blocks EXCEPT ![b] = m - 1]
          /\ t = [blocks |-> t.blocks, palette |-> t.palette] BY <3>6 DEF BlockStorages
    <3>8. m - 1 \in Nat /\ m - 1 < Len(s.palette) /\ (m - 1) + 1 = m BY <3>1, <3>3, SMT
    <3>9. \A a, k \in DOMAIN s.palette : s.palette[a] = s.palette[k] => a = k BY DEF Sound
    <3>10. Len(s.palette) <= Len(s.palette) BY <1>2
    <3> HIDE DEF t
    <3>11. QED BY <3>1, <3>7, <3>8, <3>9, <3>10, <1>2
  <2>2. CASE ~InPalette(id, s)
    <3>1. t = [blocks |-> [s.blocks EXCEPT ![b] = Len(s.palette)], palette |-> Append(s.palette, id)]
      BY <2>2, <1>1 DEF set_block_storage_block_runtime_id
    <3>2. t.palette = Append(s.palette, id) /\ t.blocks = [s.blocks EXCEPT ![b] = Len(s.palette)]
          /\ t = [blocks |-> t.blocks, palette |-> t.palette] BY <3>1
    <3>3. PICK len \in Nat : len = Len(s.palette) BY <1>2
    <3>4. t.palette \in Seq(Ids) /\ Len(t.palette) = len + 1 /\ t.palette[len + 1] = id
          /\ \A m \in DOMAIN s.palette : t.palette[m] = s.palette[m]
      BY <3>2, <3>3, <1>2, SMTT(60)
    <3>5. \A m \in DOMAIN s.palette : s.palette[m] # id BY <2>2 DEF InPalette
    <3>6. DOMAIN s.palette = 1..len /\ DOMAIN t.palette = 1..(len + 1) BY <3>3, <3>4, <1>2
    <3>7. \A m, k \in DOMAIN s.palette : s.palette[m] = s.palette[k] => m = k BY DEF Sound
    <3>8. \A m, k \in DOMAIN t.palette : t.palette[m] = t.palette[k] => m = k
      <4>1. SUFFICES ASSUME NEW m \in DOMAIN t.palette, NEW k \in DOMAIN t.palette, t.palette[m] = t.palette[k]
                     PROVE  m = k
        OBVIOUS
      <4>2. m \in 1..(len + 1) /\ k \in 1..(len + 1) BY <3>6
      <4>3. CASE m \in 1..len /\ k \in 1..len BY <4>3, <4>1, <3>4, <3>6, <3>7
      <4>4. CASE m = len + 1 /\ k \in 1..len BY <4>4, <4>1, <3>4, <3>5, <3>6
      <4>5. CASE k = len + 1 /\ m \in 1..len BY <4>5, <4>1, <3>4, <3>5, <3>6
      <4>6. CASE m = len + 1 /\ k = len + 1 BY <4>6
      <4>7. QED BY <4>2, <4>3, <4>4, <4>5, <4>6, SMT
    <3>9. len < Len(t.palette) /\ len <= Len(t.palette) BY <3>4, SMT
    <3> HIDE DEF t
    <3>10. QED BY <3>2, <3>3, <3>4, <3>8, <3>9
  <2>3. QED BY <2>1, <2>2
<1> HIDE DEF t
<1>4. t.blocks \in [Blocks -> Nat] BY <1>2, <1>3
<1>5. t \in BlockStorages BY <1>3, <1>4 DEF BlockStorages
<1>6. Sound(t, first)
  <2>8. Len(s.palette) \in Nat /\ Len(t.palette) \in Nat BY <1>2, <1>3
  <2> DEFINE len == Len(s.palette)  tlen == Len(t.palette)
  <2>1. len \in Nat /\ tlen \in Nat /\ len = Len(s.palette) /\ tlen = Len(t.palette) /\ len <= tlen
    BY <2>8, <1>3
  <2> HIDE DEF len, tlen
  <2>2. \A a \in Blocks : s.blocks[a] < len BY <2>1 DEF Sound
  <2>3. \A a \in Blocks : t.blocks[a] < tlen
    <3>1. TAKE a \in Blocks
    <3>2. CASE a = b BY <3>2, <1>2, <1>3, <2>1
    <3>3. CASE a # b
      <4>1. t.blocks[a] = s.blocks[a] /\ s.blocks[a] \in Nat BY <3>3, <1>2, <1>3
      <4>2. QED BY <4>1, <2>1, <2>2, SMT
    <3>4. QED BY <3>2, <3>3
  <2>4. s.palette # <<>> /\ s.palette[1] = first BY DEF Sound
  <2>5. len > 0 /\ 1 \in DOMAIN s.palette BY <2>1, <2>4, <1>2
  <2>6. t.palette[1] = first /\ t.palette # <<>> BY <2>1, <2>4, <2>5, <1>3
  <2>7. QED BY <2>1, <2>3, <2>6, <1>3 DEF Sound
<1>7. \A u, v, w \in Cell :
        get_block_storage_block_runtime_id(u, v, w, t)
          = IF u = x /\ v = y /\ w = z THEN id ELSE get_block_storage_block_runtime_id(u, v, w, s)
  <2>1. TAKE u, v, w \in Cell
  <2>2. PICK c \in Blocks : c = Index(u, v, w) BY IndexInRange
  <2>3. c = b <=> (u = x /\ v = y /\ w = z) BY <2>2, <1>1, IndexIsInjective
  <2>4. CASE c = b
    <3>1. t.blocks[c] = n BY <2>4, <1>2, <1>3
    <3>2. QED BY <3>1, <2>2, <2>3, <2>4, <1>3 DEF get_block_storage_block_runtime_id
  <2>5. CASE c # b
    <3>1. t.blocks[c] = s.blocks[c] BY <2>5, <1>2, <1>3
    <3>2. s.blocks[c] + 1 \in DOMAIN s.palette BY <2>2, ReadStorage
    <3>3. t.palette[s.blocks[c] + 1] = s.palette[s.blocks[c] + 1] BY <3>2, <1>3
    <3>4. QED BY <3>1, <3>3, <2>2, <2>3, <2>5 DEF get_block_storage_block_runtime_id
  <2>6. QED BY <2>4, <2>5
<1>8. OnlyOneCell(t, s, x, y, z, id) BY <1>7 DEF OnlyOneCell
<1>9. QED BY <1>5, <1>6, <1>8 DEF t

\* What the search of one storage returns.
LEMMA HighestInStorage ==
  ASSUME NEW s \in BlockStorages, NEW x \in Cell, NEW z \in Cell
  PROVE  LET h == get_block_storage_highest_block_at(x, z, s) IN
         \/ h = BLOCK_STORAGE_EMPTY /\ \A y \in Cell : s.blocks[Index(x, y, z)] = 0
         \/ /\ h \in Cell /\ s.blocks[Index(x, h, z)] # 0
            /\ \A y \in Cell : s.blocks[Index(x, y, z)] # 0 => y <= h
<1>1. CASE Heights(x, z, s) = {}
  BY <1>1 DEF Heights, Cell, get_block_storage_highest_block_at
<1>2. CASE Heights(x, z, s) # {}
  <2>1. Heights(x, z, s) \subseteq Cell BY DEF Heights, Cell
  <2>2. \E y \in Heights(x, z, s) : \A h \in Heights(x, z, s) : h <= y BY <1>2, <2>1, Greatest
  <2>3. PICK h \in Heights(x, z, s) : /\ h = get_block_storage_highest_block_at(x, z, s)
                                      /\ \A g \in Heights(x, z, s) : g <= h
    BY <1>2, <2>2 DEF get_block_storage_highest_block_at
  <2>4. QED BY <2>1, <2>3 DEF Heights, Cell
<1>3. QED BY <1>1, <1>2

SubChunk == [0..(Layers - 1) -> BlockStorages]

LEMMA HighestInSubChunk ==
  ASSUME NEW c \in SubChunk, NEW x \in Cell, NEW z \in Cell, NEW layer \in Nat
  PROVE  LET h == get_sub_chunk_highest_block_at(x, z, layer, c) IN
         \/ /\ h \in {SUB_CHUNK_LAYER_NOT_PRESENT, BLOCK_STORAGE_EMPTY}
            /\ h < 0
            /\ layer < Layers => \A y \in Cell : c[layer].blocks[Index(x, y, z)] = 0
         \/ /\ h \notin {SUB_CHUNK_LAYER_NOT_PRESENT, BLOCK_STORAGE_EMPTY}
            /\ layer < Layers
            /\ h \in Cell /\ c[layer].blocks[Index(x, h, z)] # 0
            /\ \A y \in Cell : c[layer].blocks[Index(x, y, z)] # 0 => y <= h
<1>1. CASE layer < Layers
  <2>1. c[layer] \in BlockStorages BY <1>1 DEF SubChunk
  <2>2. PICK h : h = get_block_storage_highest_block_at(x, z, c[layer]) OBVIOUS
  <2>3. h = get_sub_chunk_highest_block_at(x, z, layer, c) BY <1>1, <2>2 DEF get_sub_chunk_highest_block_at
  <2>4. \/ h = -1 /\ \A y \in Cell : c[layer].blocks[Index(x, y, z)] = 0
        \/ /\ h \in Cell /\ c[layer].blocks[Index(x, h, z)] # 0
           /\ \A y \in Cell : c[layer].blocks[Index(x, y, z)] # 0 => y <= h
    BY <2>1, <2>2, HighestInStorage DEF BLOCK_STORAGE_EMPTY
  <2>5. h \in Cell => h \notin {-1, -2} BY SMT DEF Cell
  <2>6. QED BY <1>1, <2>3, <2>4, <2>5 DEF SUB_CHUNK_LAYER_NOT_PRESENT, BLOCK_STORAGE_EMPTY
<1>2. CASE ~(layer < Layers)
  BY <1>2 DEF get_sub_chunk_highest_block_at, SUB_CHUNK_LAYER_NOT_PRESENT, BLOCK_STORAGE_EMPTY
<1>3. QED BY <1>1, <1>2
------------------------------------------------------------------------------
(* The storage of a place, and what the places read.                       *)

StorageOf(p) == IF p[1] = Biome THEN biomes[p[3] \div Side] ELSE sub_chunks[p[3] \div Side][p[1]]

LEMMA PlaceParts ==
  ASSUME NEW p \in Places
  PROVE  /\ p[1] \in 0..Layers /\ p[2] \in Cell /\ p[4] \in Cell /\ p[3] \in 0..(Byte - 1)
         /\ p[3] % Side \in Cell /\ p[3] \div Side \in 0..(SubChunks - 1)
         /\ p[1] # Biome => p[1] \in 0..(Layers - 1)
         /\ p[2] % Side = p[2] /\ p[4] % Side = p[4]
<1>1. p[1] \in 0..Layers /\ p[2] \in Cell /\ p[4] \in Cell /\ p[3] \in 0..(Byte - 1) BY DEF Places, Cell
<1>2. p[3] % Side \in Cell /\ p[3] \div Side \in 0..(SubChunks - 1)
  <2>1. PICK y \in 0..(Byte - 1) : y = p[3] BY <1>1
  <2>2. y % Side \in Cell /\ y \div Side \in Nat BY Division DEF Cell
  <2>3. y \div Side < SubChunks BY HeightFits
  <2>4. PICK q \in Nat : q = y \div Side BY <2>2
  <2>5. q \in 0..(SubChunks - 1) BY <2>3, <2>4, SMT
  <2>6. QED BY <2>1, <2>2, <2>4, <2>5
<1>3. p[1] # Biome => p[1] \in 0..(Layers - 1) BY <1>1, SMT DEF Biome
<1>4. \A x \in Cell : x % Side = x BY SMT DEF Cell
<1>5. QED BY <1>1, <1>2, <1>3, <1>4

LEMMA ReadOfPlace ==
  ASSUME NEW p \in Places
  PROVE  Read(p) = get_block_storage_block_runtime_id(p[2], p[3] % Side, p[4], StorageOf(p))
<1>1. CASE p[1] = Biome BY <1>1, PlaceParts DEF Read, StorageOf, get_chunk_biome_runtime_id
<1>2. CASE p[1] # Biome
  <2>1. p[1] < Layers BY <1>2, PlaceParts
  <2>2. QED BY <1>2, <2>1, PlaceParts DEF Read, StorageOf, get_chunk_block_runtime_id, get_sub_chunk_block_runtime_id
<1>3. QED BY <1>1, <1>2
------------------------------------------------------------------------------
(* What the setting of a block or a biome does to the chunk.               *)

ByteArg == 0..(Byte - 1)

LEMMA ArgParts ==
  ASSUME NEW x \in ByteArg
  PROVE  /\ x % Side \in Cell /\ x \in Nat
         /\ x \div Side \in 0..(SubChunks - 1)
         /\ (x % Side) + (x \div Side) * Side = x
<1>1. x \in Nat /\ x % Side \in Cell /\ x \div Side \in Nat BY Division DEF ByteArg, Cell
<1>2. x \div Side < SubChunks BY HeightFits DEF ByteArg
<1>3. PICK q \in Nat : q = x \div Side BY <1>1
<1>4. q \in 0..(SubChunks - 1) BY <1>2, <1>3, SMT
<1>5. (x % Side) + (x \div Side) * Side = x BY <1>1, Division, SMT
<1>6. QED BY <1>1, <1>3, <1>4, <1>5

\* One height is one pair of a sub chunk and a height within it.
LEMMA SameHeight ==
  ASSUME NEW v \in ByteArg, NEW y \in ByteArg
  PROVE  v = y <=> (v \div Side = y \div Side /\ v % Side = y % Side)
BY ArgParts

Storages == sub_chunks \in [0..(SubChunks - 1) -> SubChunk] /\ biomes \in [0..(SubChunks - 1) -> BlockStorages]

LEMMA SetBlockEffect ==
  ASSUME TypeOK, PalettesAreSound,
         NEW x \in ByteArg, NEW y \in ByteArg, NEW z \in ByteArg, NEW id \in Ids, NEW layer \in Nat,
         layer < Layers,
         set_chunk_block_runtime_id(x, y, z, id, layer)
  PROVE  /\ biomes' = biomes
         /\ sub_chunks' \in [0..(SubChunks - 1) -> SubChunk]
         /\ \A n \in 0..(SubChunks - 1), l \in 0..(Layers - 1) :
              IF n = y \div Side /\ l = layer
              THEN sub_chunks'[n][l] = set_block_storage_block_runtime_id(x % Side, y % Side, z % Side, id, sub_chunks[n][l])
              ELSE sub_chunks'[n][l] = sub_chunks[n][l]
<1>1. PICK q \in 0..(SubChunks - 1) : q = y \div Side BY ArgParts
<1>2. x % Side \in Cell /\ y % Side \in Cell /\ z % Side \in Cell BY ArgParts
<1>3. sub_chunks \in [0..(SubChunks - 1) -> SubChunk] BY DEF TypeOK, SubChunk
<1>4. PICK s : s = sub_chunks[q] OBVIOUS
<1>5. s \in SubChunk /\ layer \in 0..(Layers - 1) BY <1>3, <1>4, SMT
<1>6. s[layer] \in BlockStorages BY <1>5 DEF SubChunk
<1>7. PICK t : t = set_block_storage_block_runtime_id(x % Side, y % Side, z % Side, id, s[layer]) OBVIOUS
<1>8. Sound(s[layer], air_runtime_id) BY <1>4, <1>5 DEF PalettesAreSound
<1>9. t \in BlockStorages BY <1>2, <1>6, <1>7, <1>8, SetStorage
<1>10. sub_chunks' = [sub_chunks EXCEPT ![q] = [s EXCEPT ![layer] = t]] /\ biomes' = biomes
  BY <1>1, <1>4, <1>7 DEF set_chunk_block_runtime_id, set_sub_chunk_block_runtime_id
<1>11. [s EXCEPT ![layer] = t] \in SubChunk BY <1>5, <1>9 DEF SubChunk
<1>12. sub_chunks' \in [0..(SubChunks - 1) -> SubChunk] BY <1>3, <1>10, <1>11
<1>13. \A n \in 0..(SubChunks - 1), l \in 0..(Layers - 1) :
         sub_chunks'[n][l] = IF n = q /\ l = layer THEN t ELSE sub_chunks[n][l]
  BY <1>3, <1>4, <1>5, <1>10 DEF SubChunk
<1>14. QED BY <1>1, <1>4, <1>7, <1>10, <1>12, <1>13

LEMMA SetBiomeEffect ==
  ASSUME TypeOK, PalettesAreSound,
         NEW x \in ByteArg, NEW y \in ByteArg, NEW z \in ByteArg, NEW id \in Ids,
         set_chunk_biome_runtime_id(x, y, z, id)
  PROVE  /\ sub_chunks' = sub_chunks
         /\ biomes' \in [0..(SubChunks - 1) -> BlockStorages]
         /\ \A n \in 0..(SubChunks - 1) :
              IF n = y \div Side
              THEN biomes'[n] = set_block_storage_block_runtime_id(x % Side, y % Side, z % Side, id, biomes[n])
              ELSE biomes'[n] = biomes[n]
<1>1. PICK q \in 0..(SubChunks - 1) : q = y \div Side BY ArgParts
<1>2. x % Side \in Cell /\ y % Side \in Cell /\ z % Side \in Cell BY ArgParts
<1>3. biomes \in [0..(SubChunks - 1) -> BlockStorages] BY DEF TypeOK
<1>4. PICK t : t = set_block_storage_block_runtime_id(x % Side, y % Side, z % Side, id, biomes[q]) OBVIOUS
<1>5. Sound(biomes[q], biome_runtime_id) BY DEF PalettesAreSound
<1>6. t \in BlockStorages BY <1>2, <1>3, <1>4, <1>5, SetStorage
<1>7. biomes' = [biomes EXCEPT ![q] = t] /\ sub_chunks' = sub_chunks
  BY <1>1, <1>4 DEF set_chunk_biome_runtime_id
<1>8. QED BY <1>1, <1>3, <1>4, <1>6, <1>7

\* A layer that is not there.
LEMMA SetNoLayer ==
  ASSUME TypeOK,
         NEW x \in ByteArg, NEW y \in ByteArg, NEW z \in ByteArg, NEW id \in Ids, NEW layer \in Nat,
         ~(layer < Layers),
         set_chunk_block_runtime_id(x, y, z, id, layer)
  PROVE  sub_chunks' = sub_chunks /\ biomes' = biomes
<1>1. PICK q \in 0..(SubChunks - 1) : q = y \div Side BY ArgParts
<1>2. sub_chunks' = [sub_chunks EXCEPT ![q] = sub_chunks[q]] /\ biomes' = biomes
  BY <1>1 DEF set_chunk_block_runtime_id, set_sub_chunk_block_runtime_id
<1>3. QED BY <1>2 DEF TypeOK
------------------------------------------------------------------------------
(* The invariant.                                                          *)

\* The part of the type invariant that is not the chunk.
LoopTypes ==
  /\ pc \in {"idle", "highest", "found", "send_count", "counted", "outside"}
  /\ i \in ByteArg
  /\ column \in ByteArg \X ByteArg \X ByteArg
  /\ result \in Int
  /\ request \in {<<>>} \cup (Places \X Ids)
  /\ sets \in Nat

LEMMA TypeParts == TypeOK <=> Storages /\ LoopTypes
BY DEF TypeOK, Storages, LoopTypes, SubChunk, ByteArg

LEMMA TypePartsNext == Storages' /\ LoopTypes' => TypeOK'
BY DEF TypeOK, Storages, LoopTypes, SubChunk, ByteArg

ChunkParts == Storages /\ PalettesAreSound /\ WithinReach

\* A call that sets leaves no loop running.
Quiet == pc = "idle" /\ LoopTypes

LEMMA QuietIsEnough == Quiet /\ ChunkParts => ChunkInv
BY TypeParts DEF Quiet, ChunkParts, ChunkInv, LoopInv, FindsHighest, SendsWhatIsNotEmpty

LEMMA InitInv == Init => ChunkInv
<1>1. SUFFICES ASSUME Init PROVE Quiet /\ ChunkParts BY QuietIsEnough
<1>2. Quiet BY <1>1 DEF Init, Quiet, LoopTypes, ByteArg
<1>3. new_block_storage(air_runtime_id) \in BlockStorages /\ Sound(new_block_storage(air_runtime_id), air_runtime_id)
      /\ new_block_storage(biome_runtime_id) \in BlockStorages /\ Sound(new_block_storage(biome_runtime_id), biome_runtime_id)
  BY NewStorage, IdsHold
<1>4. Storages BY <1>1, <1>3 DEF Init, Storages, SubChunk, new_sub_chunk
<1>5. \A n \in 0..(SubChunks - 1), l \in 0..(Layers - 1) : sub_chunks[n][l] = new_block_storage(air_runtime_id)
  BY <1>1 DEF Init, new_sub_chunk
<1>6. \A n \in 0..(SubChunks - 1) : biomes[n] = new_block_storage(biome_runtime_id) BY <1>1 DEF Init
<1>7. PalettesAreSound BY <1>3, <1>5, <1>6 DEF PalettesAreSound
<1>8. WithinReach BY <1>5, IndexInRange DEF WithinReach, new_block_storage, Cell
<1>9. QED BY <1>2, <1>4, <1>7, <1>8 DEF ChunkParts

\* A cell that reads as before keeps its index zero or not zero.
LEMMA SetBlockParts ==
  ASSUME ChunkInv,
         NEW x \in ByteArg, NEW y \in ByteArg, NEW z \in ByteArg, NEW id \in Ids, NEW layer \in Nat,
         set_chunk_block_runtime_id(x, y, z, id, layer)
  PROVE  ChunkParts'
<1>0. TypeOK /\ PalettesAreSound /\ WithinReach /\ Storages BY TypeParts DEF ChunkInv
<1>1. CASE ~(layer < Layers)
  <2>1. sub_chunks' = sub_chunks /\ biomes' = biomes BY <1>1, <1>0, SetNoLayer
  <2>2. QED BY <2>1, <1>0 DEF ChunkParts, Storages, PalettesAreSound, WithinReach
<1>2. CASE layer < Layers
  <2> DEFINE q == y \div Side
  <2>1. /\ biomes' = biomes
        /\ sub_chunks' \in [0..(SubChunks - 1) -> SubChunk]
        /\ \A n \in 0..(SubChunks - 1), l \in 0..(Layers - 1) :
             IF n = q /\ l = layer
             THEN sub_chunks'[n][l] = set_block_storage_block_runtime_id(x % Side, y % Side, z % Side, id, sub_chunks[n][l])
             ELSE sub_chunks'[n][l] = sub_chunks[n][l]
    BY <1>0, <1>2, SetBlockEffect
  <2>2. x % Side \in Cell /\ y % Side \in Cell /\ z % Side \in Cell BY ArgParts
  <2>3. ASSUME NEW n \in 0..(SubChunks - 1), NEW l \in 0..(Layers - 1)
        PROVE  /\ Sound(sub_chunks[n][l], air_runtime_id) /\ sub_chunks[n][l] \in BlockStorages
               /\ Sound(sub_chunks'[n][l], air_runtime_id)
    <3>1. Sound(sub_chunks[n][l], air_runtime_id) /\ sub_chunks[n][l] \in BlockStorages
      BY <1>0 DEF PalettesAreSound, Storages, SubChunk
    <3>2. PICK s \in BlockStorages : s = sub_chunks[n][l] BY <3>1
    <3>3. Sound(set_block_storage_block_runtime_id(x % Side, y % Side, z % Side, id, s), air_runtime_id)
      BY <2>2, <3>1, <3>2, SetStorage
    <3>4. QED BY <2>1, <3>1, <3>2, <3>3
  <2>4. Storages' BY <2>1, <1>0 DEF Storages
  <2>5. PalettesAreSound' BY <2>1, <2>3, <1>0 DEF PalettesAreSound
  <2>6. ASSUME NEW n \in 0..(SubChunks - 1), NEW l \in 0..(Layers - 1),
               NEW u \in Cell, NEW v \in Cell, NEW w \in Cell,
               sub_chunks'[n][l].blocks[Index(u, v, w)] # 0
        PROVE  v + n * Side < Byte
    <3>1. Sound(sub_chunks[n][l], air_runtime_id) /\ sub_chunks[n][l] \in BlockStorages
          /\ Sound(sub_chunks'[n][l], air_runtime_id) /\ sub_chunks'[n][l] \in BlockStorages
      BY <2>1, <2>3 DEF SubChunk
    <3>2. get_block_storage_block_runtime_id(u, v, w, sub_chunks'[n][l]) # air_runtime_id
      BY <2>6, <3>1, ReadStorage
    <3>3. CASE get_block_storage_block_runtime_id(u, v, w, sub_chunks[n][l]) # air_runtime_id
      <4>1. sub_chunks[n][l].blocks[Index(u, v, w)] # 0 BY <3>1, <3>3, ReadStorage
      <4>2. QED BY <4>1, <1>0 DEF WithinReach, Cell
    <3>4. CASE get_block_storage_block_runtime_id(u, v, w, sub_chunks[n][l]) = air_runtime_id
      <4>1. sub_chunks'[n][l] # sub_chunks[n][l] BY <3>2, <3>4
      <4>2. n = q /\ l = layer BY <4>1, <2>1
      <4>3. PICK s \in BlockStorages : s = sub_chunks[n][l] /\ Sound(s, air_runtime_id) BY <3>1
      <4>4. sub_chunks'[n][l] = set_block_storage_block_runtime_id(x % Side, y % Side, z % Side, id, s)
        BY <4>2, <4>3, <2>1
      <4>5. get_block_storage_block_runtime_id(u, v, w, sub_chunks'[n][l])
              = IF u = x % Side /\ v = y % Side /\ w = z % Side THEN id
                ELSE get_block_storage_block_runtime_id(u, v, w, s)
        <5>1. OnlyOneCell(set_block_storage_block_runtime_id(x % Side, y % Side, z % Side, id, s), s,
                          x % Side, y % Side, z % Side, id)
          BY <2>2, <4>3, SetStorage
        <5>2. OnlyOneCell(sub_chunks'[n][l], s, x % Side, y % Side, z % Side, id) BY <4>4, <5>1
        <5>3. QED BY <5>2 DEF OnlyOneCell
      <4>6. v = y % Side BY <4>5, <3>2, <3>4, <4>3
      <4>7. v + n * Side = y BY <4>6, <4>2, ArgParts
      <4>8. QED BY <4>7 DEF ByteArg
    <3>5. QED BY <3>3, <3>4
  <2>7. WithinReach' BY <2>6 DEF WithinReach, Cell
  <2>8. QED BY <2>4, <2>5, <2>7 DEF ChunkParts
<1>3. QED BY <1>1, <1>2

LEMMA SetBiomeParts ==
  ASSUME ChunkInv,
         NEW x \in ByteArg, NEW y \in ByteArg, NEW z \in ByteArg, NEW id \in Ids,
         set_chunk_biome_runtime_id(x, y, z, id)
  PROVE  ChunkParts'
<1>0. TypeOK /\ PalettesAreSound /\ WithinReach /\ Storages BY TypeParts DEF ChunkInv
<1> DEFINE q == y \div Side
<1>1. /\ sub_chunks' = sub_chunks
      /\ biomes' \in [0..(SubChunks - 1) -> BlockStorages]
      /\ \A n \in 0..(SubChunks - 1) :
           IF n = q
           THEN biomes'[n] = set_block_storage_block_runtime_id(x % Side, y % Side, z % Side, id, biomes[n])
           ELSE biomes'[n] = biomes[n]
  BY <1>0, SetBiomeEffect
<1>2. x % Side \in Cell /\ y % Side \in Cell /\ z % Side \in Cell BY ArgParts
<1>3. ASSUME NEW n \in 0..(SubChunks - 1) PROVE Sound(biomes'[n], biome_runtime_id)
  <2>1. PICK s \in BlockStorages : s = biomes[n] /\ Sound(s, biome_runtime_id)
    BY <1>0 DEF PalettesAreSound, Storages
  <2>2. Sound(set_block_storage_block_runtime_id(x % Side, y % Side, z % Side, id, s), biome_runtime_id)
    BY <1>2, <2>1, SetStorage
  <2>3. QED BY <1>1, <2>1, <2>2
<1>4. QED BY <1>0, <1>1, <1>3 DEF ChunkParts, Storages, PalettesAreSound, WithinReach

\* What the places of a layer that are not air have in the array.
LEMMA NotAirIndex ==
  ASSUME ChunkInv, NEW x \in ByteArg, NEW z \in ByteArg, NEW l \in 0..(Layers - 1), NEW y \in ByteArg
  PROVE  y \in NotAir(x, z, l) <=> sub_chunks[y \div Side][l].blocks[Index(x % Side, y % Side, z % Side)] # 0
<1>1. PICK s : s = sub_chunks[y \div Side][l] OBVIOUS
<1>2. y \div Side \in 0..(SubChunks - 1) /\ x % Side \in Cell /\ y % Side \in Cell /\ z % Side \in Cell BY ArgParts
<1>3. s \in BlockStorages /\ Sound(s, air_runtime_id)
  BY <1>1, <1>2 DEF ChunkInv, TypeOK, PalettesAreSound
<1>4. get_chunk_block_runtime_id(x, y, z, l) = get_block_storage_block_runtime_id(x % Side, y % Side, z % Side, s)
  BY <1>1 DEF get_chunk_block_runtime_id, get_sub_chunk_block_runtime_id
<1>5. QED BY <1>1, <1>2, <1>3, <1>4, ReadStorage DEF NotAir, ByteArg

LEMMA DownIsByte ==
  ASSUME i \in ByteArg, Down
  PROVE  i' \in ByteArg /\ (i' < SubChunks => i' = i - 1)
BY SMT DEF Down, ByteArg

LEMMA HighestPass == ChunkInv /\ get_chunk_highest_block_at => ChunkInv'
<1>1. SUFFICES ASSUME ChunkInv, get_chunk_highest_block_at PROVE ChunkInv'
  OBVIOUS
<1>2. /\ TypeOK /\ PalettesAreSound /\ WithinReach /\ Storages /\ LoopTypes
  BY <1>1, TypeParts DEF ChunkInv
<1>3. pc = "highest" /\ i < SubChunks /\ UNCHANGED <<sub_chunks, biomes, column, request, sets>>
  BY <1>1 DEF get_chunk_highest_block_at, chunk
<1>4. Storages' /\ PalettesAreSound' /\ WithinReach'
  BY <1>2, <1>3 DEF Storages, PalettesAreSound, WithinReach
<1>5. PICK a \in ByteArg, b \in ByteArg, layer \in ByteArg : column = <<a, b, layer>> BY <1>2 DEF LoopTypes
<1>6. PICK x \in Cell, z \in Cell : x = a % Side /\ z = b % Side BY <1>5, ArgParts
<1>7. i \in 0..(SubChunks - 1) /\ layer \in Nat BY <1>2, <1>3, SMT DEF LoopTypes, ByteArg
<1>8. sub_chunks \in [0..(SubChunks - 1) -> SubChunk] BY <1>2 DEF Storages
<1>9. PICK h : h = get_sub_chunk_highest_block_at(x, z, layer, sub_chunks[i]) OBVIOUS
<1>10. \A n \in (i + 1)..(SubChunks - 1) : get_sub_chunk_highest_block_at(x, z, layer, sub_chunks[n]) < 0
  BY <1>1, <1>3, <1>5, <1>6 DEF ChunkInv, LoopInv
<1>11. CASE h \notin {SUB_CHUNK_LAYER_NOT_PRESENT, BLOCK_STORAGE_EMPTY}
  <2>1. pc' = "found" /\ result' = h + i * Side /\ i' = i
    BY <1>1, <1>5, <1>6, <1>9, <1>11 DEF get_chunk_highest_block_at
  <2>2. /\ layer < Layers /\ h \in Cell
        /\ sub_chunks[i][layer].blocks[Index(x, h, z)] # 0
        /\ \A y \in Cell : sub_chunks[i][layer].blocks[Index(x, y, z)] # 0 => y <= h
    BY <1>7, <1>8, <1>9, <1>11, HighestInSubChunk
  <2>3. layer \in 0..(Layers - 1) BY <2>2, <1>7, SMT
  <2>4. PICK r \in ByteArg : r = h + i * Side
    <3>1. h + i * Side < Byte BY <1>2, <1>7, <2>2, <2>3 DEF WithinReach, Cell
    <3>2. i * Side \in Nat BY <1>7, SMT
    <3>3. h + i * Side \in ByteArg BY <2>2, <3>1, <3>2, SMT DEF Cell, ByteArg
    <3>4. QED BY <3>3
  <2>5. r \div Side = i /\ r % Side = h BY <1>7, <2>2, <2>4, Composition DEF Cell
  <2>6. r \in NotAir(a, b, layer) BY <1>1, <1>6, <2>2, <2>3, <2>5, NotAirIndex
  <2>7. ASSUME NEW y \in NotAir(a, b, layer) PROVE y <= r
    <3>1. y \in ByteArg BY <2>7 DEF NotAir, ByteArg
    <3>2. PICK q \in 0..(SubChunks - 1), t \in Cell : q = y \div Side /\ t = y % Side /\ t + q * Side = y
      BY <3>1, ArgParts
    <3>3. sub_chunks[q][layer].blocks[Index(x, t, z)] # 0 BY <1>1, <1>6, <2>3, <2>7, <3>1, <3>2, NotAirIndex
    <3>4. CASE q = i
      <4>1. t <= h BY <3>4, <3>3, <2>2
      <4>2. PICK k \in Nat : k = i * Side BY <1>7, SMT
      <4>3. y = t + k /\ r = h + k BY <4>2, <3>4, <3>2, <2>4
      <4>4. h \in Nat /\ t \in Nat BY <2>2, SMT DEF Cell
      <4>5. QED BY <4>1, <4>2, <4>3, <4>4, SMT
    <3>5. CASE q < i
      <4>1. q * Side + Side <= i * Side BY <3>5, <1>7, SMT
      <4>2. PICK m \in Nat, k \in Nat : m = q * Side /\ k = i * Side BY <1>7, SMT
      <4>3. y = t + m /\ r = h + k /\ m + Side <= k BY <4>1, <4>2, <3>2, <2>4
      <4>4. h \in Nat /\ t \in Nat /\ t < Side BY <2>2, SMT DEF Cell
      <4>5. QED BY <4>2, <4>3, <4>4, SMT
    <3>6. CASE q > i
      <4>1. q \in (i + 1)..(SubChunks - 1) BY <3>6, <1>7
      <4>2. get_sub_chunk_highest_block_at(x, z, layer, sub_chunks[q]) < 0 BY <4>1, <1>10
      <4>3. PICK g : g = get_sub_chunk_highest_block_at(x, z, layer, sub_chunks[q]) OBVIOUS
      <4>4. g \in Cell => ~(g < 0) BY SMT DEF Cell
      <4>5. sub_chunks[q] \in SubChunk BY <1>8
      <4>6. \A y1 \in Cell : sub_chunks[q][layer].blocks[Index(x, y1, z)] = 0
        BY <4>2, <4>3, <4>4, <4>5, <1>7, <2>2, HighestInSubChunk
      <4>7. QED BY <4>6, <3>2, <3>3
    <3>7. QED BY <3>4, <3>5, <3>6, <3>2, <1>7
  <2>8. FindsHighest'
    <3>1. NotAir(a, b, layer)' = NotAir(a, b, layer)
      BY <1>3 DEF NotAir, get_chunk_block_runtime_id
    <3>2. column' = <<a, b, layer>> BY <1>3, <1>5
    <3>3. result' = r BY <2>1, <2>4
    <3>4. NotAir(column[1], column[2], column[3])' = NotAir(a, b, layer)'
      BY <3>2 DEF NotAir, get_chunk_block_runtime_id
    <3>5. QED BY <3>1, <3>3, <3>4, <2>6, <2>7 DEF FindsHighest
  <2>9. LoopTypes' BY <2>1, <2>4, <1>2, <1>3 DEF LoopTypes, ByteArg
  <2>10. QED BY <2>1, <2>8, <2>9, <1>4, TypePartsNext DEF ChunkInv, LoopInv, SendsWhatIsNotEmpty
<1>12. CASE h \in {SUB_CHUNK_LAYER_NOT_PRESENT, BLOCK_STORAGE_EMPTY}
  <2>1. Down /\ pc' = "highest" /\ result' = result
    BY <1>1, <1>3, <1>5, <1>6, <1>9, <1>12 DEF get_chunk_highest_block_at
  <2>2. i' \in ByteArg /\ (i' < SubChunks => i' = i - 1) BY <2>1, <1>2, DownIsByte DEF LoopTypes
  <2>3. LoopTypes' BY <2>1, <2>2, <1>2, <1>3 DEF LoopTypes
  <2>4. h < 0 BY <1>12 DEF SUB_CHUNK_LAYER_NOT_PRESENT, BLOCK_STORAGE_EMPTY
  <2>5. ASSUME i' < SubChunks, NEW n \in (i' + 1)..(SubChunks - 1)
        PROVE  get_sub_chunk_highest_block_at(x, z, layer, sub_chunks[n]) < 0
    <3>1. n = i \/ n \in (i + 1)..(SubChunks - 1) BY <2>2, <2>5, <1>7, SMT DEF ByteArg
    <3>2. QED BY <3>1, <2>4, <1>9, <1>10
  <2>6. LoopInv' BY <2>1, <2>5, <1>3, <1>5, <1>6 DEF LoopInv
  <2>7. QED BY <2>1, <2>3, <2>6, <1>4, TypePartsNext DEF ChunkInv, FindsHighest, SendsWhatIsNotEmpty
<1>13. QED BY <1>11, <1>12

LEMMA SendCountPass == ChunkInv /\ get_chunk_sub_chunk_send_count => ChunkInv'
<1>1. SUFFICES ASSUME ChunkInv, get_chunk_sub_chunk_send_count PROVE ChunkInv'
  OBVIOUS
<1>2. /\ TypeOK /\ PalettesAreSound /\ WithinReach /\ Storages /\ LoopTypes
  BY <1>1, TypeParts DEF ChunkInv
<1>3. pc = "send_count" /\ i < SubChunks /\ UNCHANGED <<sub_chunks, biomes, column, request, sets>>
  BY <1>1 DEF get_chunk_sub_chunk_send_count, chunk
<1>4. Storages' /\ PalettesAreSound' /\ WithinReach'
  BY <1>2, <1>3 DEF Storages, PalettesAreSound, WithinReach
<1>5. i \in 0..(SubChunks - 1) BY <1>2, <1>3, SMT DEF LoopTypes, ByteArg
<1>6. /\ result = SubChunks - 1 - i
      /\ \A n \in (i + 1)..(SubChunks - 1) : is_empty_sub_chunk(sub_chunks[n])
  BY <1>1, <1>3 DEF ChunkInv, LoopInv
<1>7. CASE is_empty_sub_chunk(sub_chunks[i])
  <2>1. Down /\ pc' = "send_count" /\ result' = result + 1
    BY <1>1, <1>3, <1>7 DEF get_chunk_sub_chunk_send_count
  <2>2. i' \in ByteArg /\ (i' < SubChunks => i' = i - 1) BY <2>1, <1>2, DownIsByte DEF LoopTypes
  <2>3. result' \in Int BY <2>1, <1>2 DEF LoopTypes
  <2>4. LoopTypes' BY <2>1, <2>2, <2>3, <1>2, <1>3 DEF LoopTypes
  <2>5. ASSUME i' < SubChunks
        PROVE  /\ result' = SubChunks - 1 - i'
               /\ \A n \in (i' + 1)..(SubChunks - 1) : is_empty_sub_chunk(sub_chunks[n])
    <3>1. i' = i - 1 BY <2>2, <2>5
    <3>2. result' = SubChunks - 1 - i' BY <3>1, <2>1, <1>5, <1>6, SMT
    <3>3. \A n \in (i' + 1)..(SubChunks - 1) : n = i \/ n \in (i + 1)..(SubChunks - 1) BY <3>1, <1>5, SMT
    <3>4. QED BY <3>2, <3>3, <1>6, <1>7
  <2>6. LoopInv' BY <2>1, <2>5, <1>3 DEF LoopInv
  <2>7. QED BY <2>1, <2>4, <2>6, <1>4, TypePartsNext DEF ChunkInv, FindsHighest, SendsWhatIsNotEmpty
<1>8. CASE ~is_empty_sub_chunk(sub_chunks[i])
  <2>1. pc' = "counted" /\ result' = SubChunks - result /\ i' = i
    BY <1>1, <1>3, <1>8 DEF get_chunk_sub_chunk_send_count
  <2>2. result' = i + 1 /\ result' - 1 = i /\ result' \in 1..SubChunks BY <2>1, <1>5, <1>6, SMT
  <2>3. LoopTypes' BY <2>1, <2>2, <1>2, <1>3 DEF LoopTypes
  <2>4. ASSUME NEW x \in Cell, NEW z \in Cell, NEW l \in 0..(Layers - 1), NEW y \in NotAir(x, z, l)
        PROVE  y \div Side < i + 1
    <3>1. y \in ByteArg BY <2>4 DEF NotAir, ByteArg
    <3>2. PICK q \in 0..(SubChunks - 1) : q = y \div Side BY <3>1, ArgParts
    <3>3. y % Side \in Cell BY <3>1, ArgParts
    <3>4. x % Side = x /\ z % Side = z BY SMT DEF Cell
    <3>5. PICK s : s = sub_chunks[q][l] OBVIOUS
    <3>6. s \in BlockStorages /\ Sound(s, air_runtime_id) BY <1>2, <3>2, <3>5 DEF TypeOK, PalettesAreSound
    <3>7. get_chunk_block_runtime_id(x, y, z, l) = get_block_storage_block_runtime_id(x, y % Side, z, s)
      BY <3>2, <3>4, <3>5 DEF get_chunk_block_runtime_id, get_sub_chunk_block_runtime_id
    <3>8. s.blocks[Index(x, y % Side, z)] # 0 /\ Index(x, y % Side, z) \in Blocks
      BY <3>3, <3>6, <3>7, <2>4, ReadStorage, IndexInRange DEF NotAir
    <3>9. ~is_empty_sub_chunk(sub_chunks[q])
      BY <3>5, <3>8 DEF is_empty_sub_chunk, is_empty_block_storage
    <3>10. q \notin (i + 1)..(SubChunks - 1) BY <3>9, <1>6
    <3>11. QED BY <3>2, <3>10, <1>5, SMT
  <2>5. \A x, z \in Cell, l \in 0..(Layers - 1) : NotAir(x, z, l)' = NotAir(x, z, l)
    BY <1>3 DEF NotAir, get_chunk_block_runtime_id
  <2>6. SendsWhatIsNotEmpty'
    BY <2>1, <2>2, <2>4, <2>5, <1>3, <1>8 DEF SendsWhatIsNotEmpty, Cell
  <2>7. QED BY <2>1, <2>3, <2>6, <1>4, TypePartsNext DEF ChunkInv, LoopInv, FindsHighest
<1>9. QED BY <1>7, <1>8

LEMMA StepInv == ChunkInv /\ [Next]_vars => ChunkInv'
<1>1. SUFFICES ASSUME ChunkInv, [Next]_vars PROVE ChunkInv'
  OBVIOUS
<1>2. TypeOK /\ Storages /\ LoopTypes BY <1>1, TypeParts DEF ChunkInv
<1>3. ASSUME Quiet', ChunkParts' PROVE ChunkInv'
  BY <1>3, TypePartsNext DEF Quiet, ChunkParts, ChunkInv, LoopInv, FindsHighest, SendsWhatIsNotEmpty
<1>4. ASSUME UNCHANGED chunk PROVE ChunkParts'
  BY <1>1, <1>2, <1>4 DEF chunk, ChunkInv, ChunkParts, Storages, PalettesAreSound, WithinReach
<1>5. ASSUME NEW x \in Xs, NEW y \in Ys, NEW z \in Zs, NEW id \in Ids, NEW layer \in LayerArgs,
             set_chunk_block_runtime_id(x, y, z, id, layer)
      PROVE  ChunkInv'
  <2>1. x \in ByteArg /\ y \in ByteArg /\ z \in ByteArg /\ layer \in Nat BY ArgsAreBytes DEF ByteArg
  <2>2. ChunkParts' BY <1>1, <1>5, <2>1, SetBlockParts
  <2>3. layer < Layers => <<layer, x % Side, y, z % Side>> \in Places
    <3>1. layer < Layers => layer \in 0..Layers BY <2>1, SMT
    <3>2. x % Side \in Cell /\ z % Side \in Cell BY <2>1, ArgParts
    <3>3. QED BY <3>1, <3>2, <2>1 DEF Places, ByteArg, Cell
  <2>5. request' \in {<<>>} \cup (Places \X Ids)
    BY <1>2, <1>5, <2>3 DEF set_chunk_block_runtime_id, LoopTypes
  <2>6. Quiet' BY <1>2, <1>5, <2>5 DEF set_chunk_block_runtime_id, Quiet, LoopTypes
  <2>4. QED BY <2>2, <2>6, <1>3
<1>6. ASSUME NEW x \in Xs, NEW y \in Ys, NEW z \in Zs, NEW id \in Ids,
             set_chunk_biome_runtime_id(x, y, z, id)
      PROVE  ChunkInv'
  <2>1. x \in ByteArg /\ y \in ByteArg /\ z \in ByteArg BY ArgsAreBytes DEF ByteArg
  <2>2. ChunkParts' BY <1>1, <1>6, <2>1, SetBiomeParts
  <2>3. <<Biome, x % Side, y, z % Side>> \in Places
    BY <2>1, ArgParts DEF Places, ByteArg, Cell, Biome
  <2>4. request' \in {<<>>} \cup (Places \X Ids) BY <1>6, <2>3 DEF set_chunk_biome_runtime_id
  <2>5. Quiet' BY <1>2, <1>6, <2>4 DEF set_chunk_biome_runtime_id, Quiet, LoopTypes
  <2>6. QED BY <2>2, <2>5, <1>3
<1>7. ASSUME NEW x \in Xs, NEW z \in Zs, NEW layer \in LayerArgs, CallHighest(x, z, layer) PROVE ChunkInv'
  <2>1. pc' = "highest" /\ i' = SubChunks - 1 /\ column' = <<x, z, layer>> /\ UNCHANGED <<chunk, result, request, sets>>
    BY <1>7 DEF CallHighest
  <2>2. i' \in ByteArg /\ (i' + 1)..(SubChunks - 1) = {} BY <2>1, SMT DEF ByteArg
  <2>3. LoopTypes' BY <1>2, <2>1, <2>2, ArgsAreBytes DEF LoopTypes, ByteArg
  <2>4. ChunkParts' BY <1>4, <2>1
  <2>5. QED BY <2>1, <2>2, <2>3, <2>4, TypePartsNext
            DEF ChunkParts, ChunkInv, LoopInv, FindsHighest, SendsWhatIsNotEmpty
<1>8. ASSUME CallSendCount PROVE ChunkInv'
  <2>1. pc' = "send_count" /\ i' = SubChunks - 1 /\ result' = 0 /\ UNCHANGED <<chunk, column, request, sets>>
    BY <1>8 DEF CallSendCount
  <2>2. i' \in ByteArg /\ (i' + 1)..(SubChunks - 1) = {} /\ result' = SubChunks - 1 - i'
    BY <2>1, SMT DEF ByteArg
  <2>3. LoopTypes' BY <1>2, <2>1, <2>2 DEF LoopTypes
  <2>4. ChunkParts' BY <1>4, <2>1
  <2>5. QED BY <2>1, <2>2, <2>3, <2>4, TypePartsNext
            DEF ChunkParts, ChunkInv, LoopInv, FindsHighest, SendsWhatIsNotEmpty
<1>9. ASSUME Outside PROVE ChunkInv'
  <2>1. pc' = "outside" /\ UNCHANGED <<chunk, i, column, result, request, sets>> BY <1>9 DEF Outside
  <2>2. LoopTypes' BY <1>2, <2>1 DEF LoopTypes
  <2>3. ChunkParts' BY <1>4, <2>1
  <2>4. QED BY <2>1, <2>2, <2>3, TypePartsNext
            DEF ChunkParts, ChunkInv, LoopInv, FindsHighest, SendsWhatIsNotEmpty
<1>10. ASSUME Return PROVE ChunkInv'
  <2>1. pc' = "idle" /\ UNCHANGED <<chunk, i, column, result, request, sets>> BY <1>10 DEF Return
  <2>2. Quiet' BY <1>2, <2>1 DEF Quiet, LoopTypes
  <2>3. ChunkParts' BY <1>4, <2>1
  <2>4. QED BY <2>2, <2>3, <1>3
<1>11. ASSUME UNCHANGED vars PROVE ChunkInv'
  <2>1. TypeOK' /\ PalettesAreSound' /\ WithinReach'
    BY <1>1, <1>11 DEF vars, ChunkInv, TypeOK, PalettesAreSound, WithinReach
  <2>2. LoopInv' BY <1>1, <1>11 DEF vars, ChunkInv, LoopInv
  <2>3. FindsHighest' BY <1>1, <1>11 DEF vars, ChunkInv, FindsHighest, NotAir, get_chunk_block_runtime_id
  <2>4. SendsWhatIsNotEmpty'
    BY <1>1, <1>11 DEF vars, ChunkInv, SendsWhatIsNotEmpty, NotAir, get_chunk_block_runtime_id
  <2>5. QED BY <2>1, <2>2, <2>3, <2>4 DEF ChunkInv
<1>12. QED
  BY <1>1, <1>5, <1>6, <1>7, <1>8, <1>9, <1>10, <1>11, HighestPass, SendCountPass DEF Next

LEMMA Invariance == Spec => []ChunkInv
BY InitInv, StepInv, PTL DEF Spec

\* chunk_t keeps its type for any side, height, layers and ids.
THEOREM TypeCorrect == Spec => []TypeOK
BY Invariance, PTL DEF ChunkInv

\* No call leaves an index past its palette, an id twice in a palette, or another id
\* than that of the new storage in its first place.
THEOREM PalettesStaySound == Spec => []PalettesAreSound
BY Invariance, PTL DEF ChunkInv

\* get_chunk_highest_block_at returns the highest block of its column.
THEOREM HighestIsCorrect == Spec => []FindsHighest
BY Invariance, PTL DEF ChunkInv

\* get_chunk_sub_chunk_send_count leaves out no sub chunk with a block.
THEOREM SendCountIsCorrect == Spec => []SendsWhatIsNotEmpty
BY Invariance, PTL DEF ChunkInv

\* Both searches stop where the blocks begin.
THEOREM SearchesAreCorrect == Spec => []HeightIsKnown
<1>1. ChunkInv => HeightIsKnown BY DEF ChunkInv, HeightIsKnown
<1>2. QED BY Invariance, <1>1, PTL
------------------------------------------------------------------------------
(* The refinement.                                                         *)

LEMMA MapInit == Init => Map!Init
<1>1. SUFFICES ASSUME Init PROVE Map!Init
  OBVIOUS
<1>2. ASSUME NEW p \in Places
      PROVE  Read(p) = IF p[1] = Biome THEN biome_runtime_id ELSE air_runtime_id
  <2>1. PICK q \in 0..(SubChunks - 1) : q = p[3] \div Side BY PlaceParts
  <2>2. StorageOf(p) = new_block_storage(IF p[1] = Biome THEN biome_runtime_id ELSE air_runtime_id)
    BY <1>1, <2>1, PlaceParts DEF Init, StorageOf, new_sub_chunk
  <2>3. (IF p[1] = Biome THEN biome_runtime_id ELSE air_runtime_id) \in Ids BY IdsHold
  <2>4. QED BY <2>2, <2>3, PlaceParts, ReadOfPlace, NewStorage
<1>3. QED BY <1>1, <1>2 DEF Init, Map!Init

\* A step that writes one cell of one storage sets one place.
LEMMA OnePlace ==
  ASSUME NEW p \in Places, NEW id \in Ids, request' = <<p, id>>,
         \A r \in Places : Read(r)' = IF r = p THEN id ELSE Read(r)
  PROVE  Map!Next
<1>1. [r \in Places |-> Read(r)]' = [[r \in Places |-> Read(r)] EXCEPT ![p] = id]
  OBVIOUS
<1>2. QED BY <1>1 DEF Map!Next, Map!Set

LEMMA ReadOfPlaceNext ==
  ASSUME NEW p \in Places
  PROVE  Read(p)' = get_block_storage_block_runtime_id(p[2], p[3] % Side, p[4],
                      IF p[1] = Biome THEN biomes'[p[3] \div Side] ELSE sub_chunks'[p[3] \div Side][p[1]])
<1>1. CASE p[1] = Biome BY <1>1, PlaceParts DEF Read, get_chunk_biome_runtime_id
<1>2. CASE p[1] # Biome
  <2>1. p[1] < Layers BY <1>2, PlaceParts
  <2>2. QED BY <1>2, <2>1, PlaceParts DEF Read, get_chunk_block_runtime_id, get_sub_chunk_block_runtime_id
<1>3. QED BY <1>1, <1>2

LEMMA MapSetBlock ==
  ASSUME ChunkInv,
         NEW x \in ByteArg, NEW y \in ByteArg, NEW z \in ByteArg, NEW id \in Ids, NEW layer \in 0..(Layers - 1),
         set_chunk_block_runtime_id(x, y, z, id, layer)
  PROVE  Map!Next
<1>0. TypeOK /\ PalettesAreSound BY DEF ChunkInv
<1>1. PICK xx \in Cell, zz \in Cell, t \in Cell, q \in 0..(SubChunks - 1) :
        xx = x % Side /\ zz = z % Side /\ t = y % Side /\ q = y \div Side
  BY ArgParts
<1>2. PICK p : p = <<layer, xx, y, zz>> OBVIOUS
<1>3. p \in Places BY <1>1, <1>2 DEF Places, Cell, ByteArg
<1>4. layer \in Nat /\ layer < Layers /\ layer # Biome BY SMT DEF Biome
<1>5. /\ biomes' = biomes
      /\ \A n \in 0..(SubChunks - 1), l \in 0..(Layers - 1) :
           IF n = q /\ l = layer
           THEN sub_chunks'[n][l] = set_block_storage_block_runtime_id(xx, t, zz, id, sub_chunks[n][l])
           ELSE sub_chunks'[n][l] = sub_chunks[n][l]
  BY <1>0, <1>1, <1>4, SetBlockEffect
<1>6. PICK s \in BlockStorages : s = sub_chunks[q][layer] /\ Sound(s, air_runtime_id)
  BY <1>0 DEF TypeOK, PalettesAreSound
<1>7. ASSUME NEW r \in Places PROVE Read(r)' = IF r = p THEN id ELSE Read(r)
  <2>1. PICK rq \in 0..(SubChunks - 1), rt \in Cell : rq = r[3] \div Side /\ rt = r[3] % Side BY PlaceParts
  <2>2. r[3] \in ByteArg /\ r[2] \in Cell /\ r[4] \in Cell BY PlaceParts DEF ByteArg
  <2>3. r[3] = y <=> (rq = q /\ rt = t) BY <1>1, <2>1, <2>2, SameHeight
  <2>4. r = <<r[1], r[2], r[3], r[4]>> BY DEF Places
  <2>5. r = p <=> (r[1] = layer /\ r[2] = xx /\ r[3] = y /\ r[4] = zz) BY <1>2, <2>4
  <2>6. CASE r[1] = Biome
    BY <2>6, <1>4, <1>5, <2>5, ReadOfPlace, ReadOfPlaceNext DEF StorageOf
  <2>7. CASE r[1] # Biome /\ ~(rq = q /\ r[1] = layer)
    <3>1. sub_chunks'[rq][r[1]] = sub_chunks[rq][r[1]] BY <2>7, <1>5, PlaceParts
    <3>2. r # p BY <2>3, <2>5, <2>7
    <3>3. QED BY <3>1, <3>2, <2>1, <2>7, ReadOfPlace, ReadOfPlaceNext DEF StorageOf
  <2>8. CASE r[1] # Biome /\ rq = q /\ r[1] = layer
    <3>1. sub_chunks'[rq][r[1]] = set_block_storage_block_runtime_id(xx, t, zz, id, s)
      <4>1. IF rq = q /\ r[1] = layer
            THEN sub_chunks'[rq][r[1]] = set_block_storage_block_runtime_id(xx, t, zz, id, sub_chunks[rq][r[1]])
            ELSE sub_chunks'[rq][r[1]] = sub_chunks[rq][r[1]]
        BY <2>8, <1>5
      <4>2. QED BY <4>1, <2>8, <1>6
    <3>2. get_block_storage_block_runtime_id(r[2], rt, r[4], set_block_storage_block_runtime_id(xx, t, zz, id, s))
            = IF r[2] = xx /\ rt = t /\ r[4] = zz THEN id
              ELSE get_block_storage_block_runtime_id(r[2], rt, r[4], s)
      <4>1. Sound(s, air_runtime_id) BY <1>6
      <4>2. OnlyOneCell(set_block_storage_block_runtime_id(xx, t, zz, id, s), s, xx, t, zz, id)
        BY <4>1, SetStorage
      <4>3. QED BY <4>2, <2>2 DEF OnlyOneCell
    <3>3. r = p <=> (r[2] = xx /\ rt = t /\ r[4] = zz) BY <2>3, <2>5, <2>8
    <3>4. Read(r)' = get_block_storage_block_runtime_id(r[2], rt, r[4], sub_chunks'[rq][r[1]])
      BY <2>1, <2>8, ReadOfPlaceNext
    <3>5. Read(r) = get_block_storage_block_runtime_id(r[2], rt, r[4], s)
      BY <2>1, <2>8, <1>6, ReadOfPlace DEF StorageOf
    <3>6. QED BY <3>1, <3>2, <3>3, <3>4, <3>5
  <2>9. QED BY <2>6, <2>7, <2>8
<1>8. request' = <<p, id>> BY <1>1, <1>2, <1>4 DEF set_chunk_block_runtime_id
<1>9. QED BY <1>3, <1>7, <1>8, OnePlace

LEMMA MapSetBiome ==
  ASSUME ChunkInv,
         NEW x \in ByteArg, NEW y \in ByteArg, NEW z \in ByteArg, NEW id \in Ids,
         set_chunk_biome_runtime_id(x, y, z, id)
  PROVE  Map!Next
<1>0. TypeOK /\ PalettesAreSound BY DEF ChunkInv
<1>1. PICK xx \in Cell, zz \in Cell, t \in Cell, q \in 0..(SubChunks - 1) :
        xx = x % Side /\ zz = z % Side /\ t = y % Side /\ q = y \div Side
  BY ArgParts
<1>2. PICK p : p = <<Biome, xx, y, zz>> OBVIOUS
<1>3. p \in Places BY <1>1, <1>2 DEF Places, Cell, ByteArg, Biome
<1>4. /\ sub_chunks' = sub_chunks
      /\ \A n \in 0..(SubChunks - 1) :
           IF n = q
           THEN biomes'[n] = set_block_storage_block_runtime_id(xx, t, zz, id, biomes[n])
           ELSE biomes'[n] = biomes[n]
  BY <1>0, <1>1, SetBiomeEffect
<1>5. PICK s \in BlockStorages : s = biomes[q] /\ Sound(s, biome_runtime_id)
  BY <1>0 DEF TypeOK, PalettesAreSound
<1>6. ASSUME NEW r \in Places PROVE Read(r)' = IF r = p THEN id ELSE Read(r)
  <2>1. PICK rq \in 0..(SubChunks - 1), rt \in Cell : rq = r[3] \div Side /\ rt = r[3] % Side BY PlaceParts
  <2>2. r[3] \in ByteArg /\ r[2] \in Cell /\ r[4] \in Cell BY PlaceParts DEF ByteArg
  <2>3. r[3] = y <=> (rq = q /\ rt = t) BY <1>1, <2>1, <2>2, SameHeight
  <2>4. r = <<r[1], r[2], r[3], r[4]>> BY DEF Places
  <2>5. r = p <=> (r[1] = Biome /\ r[2] = xx /\ r[3] = y /\ r[4] = zz) BY <1>2, <2>4
  <2>6. CASE r[1] # Biome
    BY <2>6, <1>4, <2>5, ReadOfPlace, ReadOfPlaceNext DEF StorageOf
  <2>7. CASE r[1] = Biome /\ rq # q
    BY <2>7, <1>4, <2>1, <2>3, <2>5, ReadOfPlace, ReadOfPlaceNext DEF StorageOf
  <2>8. CASE r[1] = Biome /\ rq = q
    <3>1. biomes'[rq] = set_block_storage_block_runtime_id(xx, t, zz, id, s) BY <2>8, <1>4, <1>5
    <3>2. get_block_storage_block_runtime_id(r[2], rt, r[4], set_block_storage_block_runtime_id(xx, t, zz, id, s))
            = IF r[2] = xx /\ rt = t /\ r[4] = zz THEN id
              ELSE get_block_storage_block_runtime_id(r[2], rt, r[4], s)
      <4>1. Sound(s, biome_runtime_id) BY <1>5
      <4>2. OnlyOneCell(set_block_storage_block_runtime_id(xx, t, zz, id, s), s, xx, t, zz, id)
        BY <4>1, SetStorage
      <4>3. QED BY <4>2, <2>2 DEF OnlyOneCell
    <3>3. r = p <=> (r[2] = xx /\ rt = t /\ r[4] = zz) BY <2>3, <2>5, <2>8
    <3>4. Read(r)' = get_block_storage_block_runtime_id(r[2], rt, r[4], biomes'[rq])
      BY <2>1, <2>8, ReadOfPlaceNext
    <3>5. Read(r) = get_block_storage_block_runtime_id(r[2], rt, r[4], s)
      BY <2>1, <2>8, <1>5, ReadOfPlace DEF StorageOf
    <3>6. QED BY <3>1, <3>2, <3>3, <3>4, <3>5
  <2>9. QED BY <2>6, <2>7, <2>8
<1>7. request' = <<p, id>> BY <1>1, <1>2 DEF set_chunk_biome_runtime_id
<1>8. QED BY <1>3, <1>6, <1>7, OnePlace

Mapped == <<[p \in Places |-> Read(p)], request>>

LEMMA MapStutter ==
  ASSUME UNCHANGED chunk, request' = request
  PROVE  UNCHANGED Mapped
<1>1. sub_chunks' = sub_chunks /\ biomes' = biomes BY DEF chunk
<1>2. \A p \in Places : Read(p)' = Read(p) BY <1>1, ReadOfPlace, ReadOfPlaceNext DEF StorageOf
<1>3. QED BY <1>2 DEF Mapped

LEMMA MapStep == ChunkInv /\ [Next]_vars => [Map!Next]_Mapped
<1>1. SUFFICES ASSUME ChunkInv, [Next]_vars
               PROVE  Map!Next \/ UNCHANGED Mapped
  OBVIOUS
<1>2. ASSUME NEW x \in Xs, NEW y \in Ys, NEW z \in Zs, NEW id \in Ids, NEW layer \in LayerArgs,
             set_chunk_block_runtime_id(x, y, z, id, layer)
      PROVE  Map!Next \/ UNCHANGED Mapped
  <2>1. x \in ByteArg /\ y \in ByteArg /\ z \in ByteArg /\ layer \in Nat BY ArgsAreBytes DEF ByteArg
  <2>2. CASE layer < Layers
    <3>1. layer \in 0..(Layers - 1) BY <2>1, <2>2, SMT
    <3>2. QED BY <3>1, <2>1, <1>1, <1>2, MapSetBlock
  <2>3. CASE ~(layer < Layers)
    <3>1. sub_chunks' = sub_chunks /\ biomes' = biomes BY <2>1, <2>3, <1>1, <1>2, SetNoLayer DEF ChunkInv
    <3>2. request' = request BY <2>3, <1>2 DEF set_chunk_block_runtime_id
    <3>3. QED BY <3>1, <3>2, MapStutter DEF chunk
  <2>4. QED BY <2>2, <2>3
<1>3. ASSUME NEW x \in Xs, NEW y \in Ys, NEW z \in Zs, NEW id \in Ids, set_chunk_biome_runtime_id(x, y, z, id)
      PROVE  Map!Next
  <2>1. x \in ByteArg /\ y \in ByteArg /\ z \in ByteArg BY ArgsAreBytes DEF ByteArg
  <2>2. QED BY <2>1, <1>1, <1>3, MapSetBiome
<1>4. ASSUME NEW x \in Xs, NEW z \in Zs, NEW layer \in LayerArgs, CallHighest(x, z, layer) PROVE UNCHANGED chunk /\ request' = request
  BY <1>4 DEF CallHighest, chunk
<1>5. CallSendCount \/ get_chunk_highest_block_at \/ get_chunk_sub_chunk_send_count \/ Outside \/ Return
        => UNCHANGED chunk /\ request' = request
  BY DEF CallSendCount, get_chunk_highest_block_at, get_chunk_sub_chunk_send_count, Outside, Return, chunk
<1>6. UNCHANGED vars => UNCHANGED chunk /\ request' = request BY DEF vars, chunk
<1>7. QED BY <1>1, <1>2, <1>3, <1>4, <1>5, <1>6, MapStutter DEF Next

\* chunk.c implements the map of BlockMap: what a place reads is what was last set
\* there, for any side, height, layers and ids.
THEOREM Refinement == Spec => ImplementsBlockMap
<1>1. Init => Map!Init BY MapInit
<1>2. ChunkInv /\ [Next]_vars => [Map!Next]_Mapped BY MapStep
<1>3. QED BY <1>1, <1>2, Invariance, PTL DEF Spec, ImplementsBlockMap, Map!Spec, Mapped
------------------------------------------------------------------------------
(* The packing of a storage (StorageEncoding).                             *)

Power(k) == 2 ^ k

LEMMA PowersOfTwo ==
  /\ Power(0) = 1 /\ Power(1) = 2 /\ Power(2) = 4 /\ Power(3) = 8 /\ Power(4) = 16
  /\ Power(5) = 32 /\ Power(6) = 64 /\ Power(7) = 128 /\ Power(8) = 256 /\ Power(9) = 512
  /\ Power(10) = 1024 /\ Power(11) = 2048 /\ Power(12) = 4096 /\ Power(13) = 8192
  /\ Power(14) = 16384 /\ Power(15) = 32768 /\ Power(16) = 65536
BY SMT DEF Power

LEMMA PowerIsNat == ASSUME NEW m \in 0..16 PROVE Power(m) \in Nat
<1>1. \/ m = 0 \/ m = 1 \/ m = 2 \/ m = 3 \/ m = 4 \/ m = 5 \/ m = 6 \/ m = 7 \/ m = 8
      \/ m = 9 \/ m = 10 \/ m = 11 \/ m = 12 \/ m = 13 \/ m = 14 \/ m = 15 \/ m = 16
  OBVIOUS
<1>2. QED
  BY <1>1, PowersOfTwo

LEMMA LeastOf == ASSUME NEW T \in SUBSET Nat, T # {} PROVE \E n \in T : \A t \in T : n <= t
<1>1. IsWellFoundedOn(OpToRel(<, Nat), Nat)
  BY NatLessThanWellFounded
<1>2. PICK n \in T : \A t \in T : <<t, n>> \notin OpToRel(<, Nat)
  BY <1>1, WFMin
<1>3. \A t \in T : ~(t < n)
  BY <1>2 DEF OpToRel
<1>4. QED
  BY <1>3

\* The first power of two that reaches a size, of those that are wide enough for 16 bits.
LEMMA Width ==
  ASSUME NEW n \in Nat \ {0}, n <= Power(16)
  PROVE  bits_per_block(n) \in 0..16 /\ n <= Power(bits_per_block(n))
<1> DEFINE reaching == {k \in 0..16 : Power(k) >= n}
<1>1. \E k \in reaching : \A t \in reaching : k <= t
  <2>1. 16 \in reaching
    OBVIOUS
  <2>2. reaching \in SUBSET Nat
    OBVIOUS
  <2> HIDE DEF reaching
  <2>3. QED
    BY <2>1, <2>2, LeastOf
<1>2. PICK k \in reaching : \A t \in reaching : k <= t
  BY <1>1
<1>3. \A m \in 0..(k - 1) : Power(m) < n
  <2> SUFFICES ASSUME NEW m \in 0..(k - 1) PROVE Power(m) < n
    OBVIOUS
  <2>1. m \in 0..16 /\ m < k
    BY <1>2
  <2>2. m \notin reaching
    BY <1>2, <2>1
  <2>3. Power(m) \in Nat
    BY <2>1, PowerIsNat
  <2>4. QED
    BY <2>1, <2>2, <2>3
<1>4. \E j \in 0..16 : Power(j) >= n /\ \A m \in 0..(j - 1) : Power(m) < n
  BY <1>2, <1>3
<1>5. \E j \in 0..16 : 2 ^ j >= n /\ \A m \in 0..(j - 1) : 2 ^ m < n
  BY <1>4, Zenon DEF Power
<1>6. bits_per_block(n) \in 0..16 /\ Power(bits_per_block(n)) >= n
  BY <1>5, Zenon DEF bits_per_block, Power
<1>7. QED
  BY <1>6, PowerIsNat

\* What a version must satisfy: it has words enough and no more, indices that fit, and bits
\* enough for the palette it is chosen for.
VersionFits(v, n) ==
  /\ v.bits \in 1..16 /\ v.per_word \in 2..32 /\ v.words \in Nat \ {0}
  /\ v.per_word = 32 \div v.bits
  /\ (v.words - 1) * v.per_word < Cells
  /\ v.words * v.per_word >= Cells
  /\ v.words = (Cells + v.per_word - 1) \div v.per_word
  /\ n <= Power(v.bits)

LEMMA VersionsFit ==
  ASSUME Cells = 4096, NEW n \in Nat \ {0}, n <= Power(16)
  PROVE  VersionFits(VersionOf(n), n)
<1> DEFINE b == bits_per_block(n)
<1>1. b \in 0..16 /\ n <= Power(b)
  BY Width
<1>2. CASE b \in {0, 1}
  <2>1. VersionOf(n) = BITARRAY_V1
    BY <1>2 DEF VersionOf
  <2> HIDE DEF b
  <2>2. n <= Power(1)
    BY <1>1, <1>2, PowersOfTwo
  <2>3. QED
    BY <2>1, <2>2, PowersOfTwo DEF VersionFits, BITARRAY_V1, Version
<1>3. CASE b = 2
  <2>1. VersionOf(n) = BITARRAY_V2
    BY <1>3 DEF VersionOf
  <2> HIDE DEF b
  <2>2. QED
    BY <1>1, <1>3, <2>1, PowersOfTwo DEF VersionFits, BITARRAY_V2, Version
<1>4. CASE b = 3
  <2>1. VersionOf(n) = BITARRAY_V3
    BY <1>4 DEF VersionOf
  <2> HIDE DEF b
  <2>2. QED
    BY <1>1, <1>4, <2>1, PowersOfTwo DEF VersionFits, BITARRAY_V3, Version
<1>5. CASE b = 4
  <2>1. VersionOf(n) = BITARRAY_V4
    BY <1>5 DEF VersionOf
  <2> HIDE DEF b
  <2>2. QED
    BY <1>1, <1>5, <2>1, PowersOfTwo DEF VersionFits, BITARRAY_V4, Version
<1>6. CASE b = 5
  <2>1. VersionOf(n) = BITARRAY_V5
    BY <1>6 DEF VersionOf
  <2> HIDE DEF b
  <2>2. QED
    BY <1>1, <1>6, <2>1, PowersOfTwo DEF VersionFits, BITARRAY_V5, Version
<1>7. CASE b = 6
  <2>1. VersionOf(n) = BITARRAY_V6
    BY <1>7 DEF VersionOf
  <2> HIDE DEF b
  <2>2. QED
    BY <1>1, <1>7, <2>1, PowersOfTwo DEF VersionFits, BITARRAY_V6, Version
<1>8. CASE b \in {7, 8}
  <2>1. VersionOf(n) = BITARRAY_V8
    BY <1>8 DEF VersionOf
  <2> HIDE DEF b
  <2>2. n <= Power(8)
    BY <1>1, <1>8, PowersOfTwo
  <2>3. QED
    BY <2>1, <2>2, PowersOfTwo DEF VersionFits, BITARRAY_V8, Version
<1>9. CASE b > 8
  <2>1. VersionOf(n) = BITARRAY_V16
    BY <1>1, <1>9 DEF VersionOf
  <2> HIDE DEF b
  <2>2. n <= Power(16)
    BY <1>1, <1>9, PowersOfTwo
  <2>3. QED
    BY <2>1, <2>2, PowersOfTwo DEF VersionFits, BITARRAY_V16, Version
<1> HIDE DEF b
<1>10. QED
  BY <1>1, <1>2, <1>3, <1>4, <1>5, <1>6, <1>7, <1>8, <1>9

\* A cell that a word holds, the k-th of it.
CellOf(w, k) == [cell |-> w * version.per_word + k, shift |-> version.bits * k]

\* The word at hand holds the cells that it should, in order; before and after it every cell
\* that was passed has been sent.
HoldsItsCells ==
  \A c \in word : \E k \in 0..(version.per_word - 1) :
     /\ c = CellOf(IF loop = "inner" THEN word_index ELSE word_index - 1, k)
     /\ c.cell < Cells
     /\ loop = "inner" => k < ii

CountersHold ==
  /\ palette_size \in PaletteSizes
  /\ loop \in {"outer", "inner", "done"}
  /\ word_index \in 0..version.words /\ ii \in 0..version.per_word /\ position \in 0..Cells
  /\ sent \in Nat
  /\ IsFiniteSet(word)

InAWord ==
  loop = "inner" => /\ word_index < version.words
                    /\ sent = word_index * version.per_word
                    /\ position = sent + ii
                    /\ Cardinality(word) = ii

BetweenWords ==
  /\ loop # "inner" => /\ sent = position
                       /\ position = IF word_index = version.words
                                     THEN Cells ELSE word_index * version.per_word
  /\ loop = "done" => word_index = version.words
  /\ loop = "outer" /\ word_index = 0 => word = {}

PackInv == CountersHold /\ InAWord /\ BetweenWords /\ HoldsItsCells

LEMMA VersionIsFit ==
  ASSUME Cells = 4096, palette_size \in PaletteSizes
  PROVE  VersionFits(version, palette_size)
<1>1. palette_size \in Nat \ {0} /\ palette_size <= Power(16)
  BY PalettesFit, Zenon DEF Power
<1>2. QED
  BY <1>1, VersionsFit DEF version

LEMMA Below ==
  ASSUME NEW p \in Nat, NEW a \in Nat, NEW c \in Nat, a <= c
  PROVE  a * p \in Nat /\ a * p <= c * p /\ (a + 1) * p = a * p + p
BY SMT

LEMMA Quotient ==
  ASSUME NEW p \in Nat \ {0}, NEW a \in Nat, NEW k \in 0..(p - 1)
  PROVE  (a * p + k) \div p = a /\ (a * p + k) % p = k
BY SMT

LEMMA PackSteps ==
  ASSUME PackInv, PackNext, VersionFits(version, palette_size)
  PROVE  PackInv'
<1> DEFINE b == version.bits
           p == version.per_word
           W == version.words
<1>0. palette_size' = palette_size /\ version' = version
  BY DEF PackNext, Word, Shift, PutWord, Done, version
<1>1. Cells \in Nat
  BY CellsIsNat
<1>2. /\ b \in 1..16 /\ p \in 2..32 /\ W \in Nat \ {0}
      /\ (W - 1) * p < Cells /\ W * p >= Cells
  BY DEF VersionFits
<1>3. /\ palette_size \in PaletteSizes /\ word_index \in 0..W /\ ii \in 0..p
      /\ position \in 0..Cells /\ sent \in Nat /\ IsFiniteSet(word)
  BY DEF PackInv, CountersHold
<1>4. HoldsItsCells
  BY DEF PackInv
<1> HIDE DEF b, p, W
<1>5. \A a \in Nat : a < W => a * p < Cells
  <2> SUFFICES ASSUME NEW a \in Nat, a < W PROVE a * p < Cells
    OBVIOUS
  <2>1. a * p <= (W - 1) * p /\ a * p \in Nat
    BY <1>1, <1>2, Below, SMT
  <2>2. (W - 1) * p \in Nat
    BY <1>1, <1>2, Below, SMT
  <2>3. QED
    BY <1>1, <1>2, <2>1, <2>2
<1>6. CASE Word
  <2>1. /\ loop = "outer" /\ word_index < W /\ word' = {} /\ ii' = 0 /\ loop' = "inner"
        /\ UNCHANGED <<palette_size, word_index, position, sent>>
    BY <1>6 DEF Word, W
  <2>2. sent = position /\ position = word_index * p
    BY <1>1, <1>2, <1>3, <2>1 DEF PackInv, InAWord, BetweenWords, p, W
  <2>3. Cardinality(word') = 0 /\ IsFiniteSet(word')
    BY <2>1, FS_EmptySet
  <2>4. ii' \in 0..p /\ position' = sent' + ii' /\ sent' = word_index' * p
    BY <1>1, <1>2, <1>3, <2>1, <2>2, SMT
  <2>5. HoldsItsCells'
    BY <2>1 DEF HoldsItsCells
  <2>6. CountersHold'
    BY <1>0, <1>3, <2>1, <2>3, <2>4 DEF CountersHold, p, W
  <2>7. InAWord'
    BY <1>0, <1>3, <2>1, <2>3, <2>4 DEF InAWord, p, W
  <2>8. BetweenWords'
    BY <1>0, <1>3, <2>1, <2>3, <2>4 DEF BetweenWords, p, W
  <2>9. QED
    BY <2>5, <2>6, <2>7, <2>8 DEF PackInv
<1>7. CASE Shift
  <2>1. /\ loop = "inner" /\ ii < p /\ position < Cells /\ loop' = "inner"
        /\ word' = word \cup {[cell |-> position, shift |-> b * ii]}
        /\ position' = position + 1 /\ ii' = ii + 1
        /\ UNCHANGED <<palette_size, word_index, sent>>
    BY <1>7 DEF Shift, p, b
  <2>2. /\ word_index < W /\ sent = word_index * p /\ position = sent + ii
        /\ Cardinality(word) = ii
    BY <2>1 DEF PackInv, InAWord, BetweenWords, p, W
  <2> DEFINE new == [cell |-> position, shift |-> b * ii]
  <2>3. new = CellOf(word_index, ii)
    BY <2>2 DEF CellOf, b, p
  <2>4. new \notin word
    <3> SUFFICES ASSUME new \in word PROVE FALSE
      OBVIOUS
    <3>1. PICK k \in 0..(p - 1) : new = CellOf(word_index, k) /\ k < ii
      BY <1>4, <2>1 DEF HoldsItsCells, p
    <3>2. position = word_index * p + k
      BY <3>1 DEF CellOf, p
    <3>3. word_index * p \in Nat
      BY <1>1, <1>2, <1>3, Below, SMT
    <3>4. QED
      BY <1>3, <2>2, <3>1, <3>2, <3>3, SMT
  <2>5. IsFiniteSet(word') /\ Cardinality(word') = ii'
    BY <1>3, <2>1, <2>2, <2>4, FS_AddElement
  <2>6. ii' \in 0..p /\ position' \in 0..Cells /\ position' = sent' + ii'
    BY <1>1, <1>2, <1>3, <2>1, <2>2, SMT
  <2>7. HoldsItsCells'
    <3> SUFFICES ASSUME NEW c \in word'
                 PROVE  \E k \in 0..(p - 1) : /\ c = CellOf(word_index, k)
                                              /\ c.cell < Cells /\ k < ii'
      BY <1>0, <2>1 DEF HoldsItsCells, CellOf, p
    <3>1. CASE c \in word
      <4>1. PICK k \in 0..(p - 1) : c = CellOf(word_index, k) /\ c.cell < Cells /\ k < ii
        BY <1>4, <2>1, <3>1 DEF HoldsItsCells, p
      <4>2. k < ii'
        BY <1>1, <1>2, <1>3, <2>1, <4>1
      <4>3. QED
        BY <4>1, <4>2
    <3>2. CASE c = new
      <4>1. ii \in 0..(p - 1) /\ ii < ii'
        BY <1>1, <1>2, <1>3, <2>1
      <4>2. c.cell = position
        BY <3>2
      <4>3. QED
        BY <2>1, <2>3, <3>2, <4>1, <4>2
    <3>3. QED
      BY <2>1, <3>1, <3>2
  <2>8. CountersHold'
    BY <1>0, <1>3, <2>1, <2>2, <2>5, <2>6 DEF CountersHold, p, W
  <2>9. InAWord'
    BY <1>0, <1>3, <2>1, <2>2, <2>5, <2>6 DEF InAWord, p, W
  <2>10. BetweenWords'
    BY <1>0, <1>3, <2>1, <2>2, <2>5, <2>6 DEF BetweenWords, p, W
  <2>11. QED
    BY <2>7, <2>8, <2>9, <2>10 DEF PackInv
<1>8. CASE PutWord
  <2>1. /\ loop = "inner" /\ (ii >= p \/ position >= Cells)
        /\ sent' = sent + Cardinality(word) /\ word_index' = word_index + 1 /\ loop' = "outer"
        /\ UNCHANGED <<palette_size, ii, position, word>>
    BY <1>8 DEF PutWord, p
  <2>2. /\ word_index < W /\ sent = word_index * p /\ position = sent + ii
        /\ Cardinality(word) = ii
    BY <2>1 DEF PackInv, InAWord, BetweenWords, p, W
  <2>3. sent' = position'
    BY <2>1, <2>2
  <2>4. (word_index + 1) * p = word_index * p + p /\ word_index * p \in Nat
    BY <1>1, <1>2, <1>3, Below, SMT
  <2>5. position' = IF word_index' = W THEN Cells ELSE word_index' * p
    <3>1. CASE word_index + 1 = W
      <4>1. word_index * p + p >= Cells
        BY <1>1, <1>2, <2>4, <3>1
      <4>2. position = Cells
        BY <1>1, <1>2, <1>3, <2>1, <2>2, <2>4, <4>1
      <4>3. QED
        BY <2>1, <3>1, <4>2
    <3>2. CASE word_index + 1 # W
      <4>1. (word_index + 1) * p < Cells
        BY <1>1, <1>2, <1>3, <1>5, <2>2, <3>2
      <4>2. ii = p
        BY <1>1, <1>2, <1>3, <2>1, <2>2, <2>4, <4>1
      <4>3. QED
        BY <2>1, <2>2, <2>4, <3>2, <4>2
    <3>3. QED
      BY <3>1, <3>2
  <2>6. HoldsItsCells'
    <3> SUFFICES ASSUME NEW c \in word
                 PROVE  \E k \in 0..(p - 1) : c = CellOf(word_index' - 1, k) /\ c.cell < Cells
      BY <1>0, <2>1 DEF HoldsItsCells, CellOf, p
    <3>1. word_index' - 1 = word_index
      BY <1>1, <1>2, <1>3, <2>1
    <3>2. QED
      BY <1>4, <2>1, <3>1 DEF HoldsItsCells, p
  <2>7. word_index' \in 0..W /\ word_index' # 0 /\ sent' \in Nat
    BY <1>1, <1>2, <1>3, <2>1, <2>2, <2>3
  <2>8. CountersHold'
    BY <1>0, <1>3, <2>1, <2>3, <2>5, <2>7 DEF CountersHold, p, W
  <2>9. InAWord'
    BY <1>0, <1>3, <2>1, <2>3, <2>5, <2>7 DEF InAWord, p, W
  <2>10. BetweenWords'
    BY <1>0, <1>3, <2>1, <2>3, <2>5, <2>7 DEF BetweenWords, p, W
  <2>11. QED
    BY <2>6, <2>8, <2>9, <2>10 DEF PackInv
<1>9. CASE Done
  <2>1. /\ loop = "outer" /\ word_index >= W /\ loop' = "done"
        /\ UNCHANGED <<palette_size, word_index, ii, position, word, sent>>
    BY <1>9 DEF Done, W
  <2>2. word_index' = W
    BY <1>1, <1>2, <1>3, <2>1
  <2>3. HoldsItsCells'
    BY <1>0, <1>4, <2>1 DEF HoldsItsCells, CellOf
  <2>4. /\ sent' = position'
        /\ position' = IF word_index' = W THEN Cells ELSE word_index' * p
    BY <2>1 DEF PackInv, InAWord, BetweenWords, p, W
  <2>5. CountersHold'
    BY <1>0, <1>3, <2>1, <2>2, <2>4 DEF CountersHold, p, W
  <2>6. InAWord'
    BY <1>0, <1>3, <2>1, <2>2, <2>4 DEF InAWord, p, W
  <2>7. BetweenWords'
    BY <1>0, <1>3, <2>1, <2>2, <2>4 DEF BetweenWords, p, W
  <2>8. QED
    BY <2>3, <2>5, <2>6, <2>7 DEF PackInv
<1>10. QED
  BY <1>6, <1>7, <1>8, <1>9 DEF PackNext

LEMMA WhatPacked ==
  ASSUME PackInv, VersionFits(version, palette_size)
  PROVE  ReadWhereWritten
<1> DEFINE b == version.bits
           p == version.per_word
           W == version.words
<1>1. Cells \in Nat
  BY CellsIsNat
<1>2. /\ b \in 1..16 /\ p \in 2..32 /\ W \in Nat \ {0} /\ p = 32 \div b
      /\ W = (Cells + p - 1) \div p /\ palette_size <= Power(b)
  BY DEF VersionFits
<1>3. /\ palette_size \in PaletteSizes /\ word_index \in 0..W /\ ii \in 0..p
      /\ position \in 0..Cells /\ sent \in Nat
  BY DEF PackInv, CountersHold
<1>4. b * p <= 32
  BY <1>1, <1>2, SMT
<1> HIDE DEF b, p, W
<1>5. ASSUME NEW c \in word
      PROVE  /\ c \in [cell : 0..(Cells - 1), shift : 0..31]
             /\ c.cell \div p = IF loop = "inner" THEN word_index ELSE word_index - 1
             /\ c.shift = (c.cell % p) * b
             /\ c.shift + b <= 32
  <2> DEFINE base == IF loop = "inner" THEN word_index ELSE word_index - 1
  <2>1. PICK k \in 0..(p - 1) : c = CellOf(base, k) /\ c.cell < Cells
    BY DEF PackInv, HoldsItsCells, p
  <2>2. c = [cell |-> base * p + k, shift |-> b * k]
    BY <2>1 DEF CellOf, p, b
  <2>3. base \in Nat
    <3>1. CASE loop = "inner"
      BY <1>3, <3>1
    <3>2. CASE loop # "inner"
      <4>1. word_index # 0
        BY <1>1, <1>2, <3>2 DEF PackInv, CountersHold, BetweenWords, W
      <4>2. QED
        BY <1>1, <1>2, <1>3, <3>2, <4>1
    <3>3. QED
      BY <3>1, <3>2
  <2> HIDE DEF base
  <2>4. (base * p + k) \div p = base /\ (base * p + k) % p = k
    <3>1. p \in Nat \ {0}
      BY <1>1, <1>2
    <3>2. QED
      BY <2>3, <3>1, Quotient, Zenon
  <2>5. base * p \in Nat
    BY <1>1, <1>2, <2>3, Below, SMT
  <2>6. base * p + k \in 0..(Cells - 1)
    <3>1. base * p + k < Cells
      BY <2>1, <2>2
    <3>2. QED
      BY <1>1, <1>2, <2>5, <3>1
  <2>7. b * k \in Nat /\ b * k + b <= b * p
    <3>1. (k + 1) * b <= p * b /\ (k + 1) * b = k * b + b /\ k * b \in Nat
      BY <1>1, <1>2, Below, SMT
    <3>2. QED
      BY <1>1, <1>2, <3>1, SMT
  <2>8. b * k \in 0..31 /\ b * k + b <= 32
    BY <1>1, <1>2, <1>4, <2>7
  <2>9. c.cell = base * p + k /\ c.shift = b * k
    BY <2>2
  <2>10. c.cell \div p = base /\ c.shift = (c.cell % p) * b
    BY <1>1, <1>2, <2>4, <2>9, SMT
  <2>11. c \in [cell : 0..(Cells - 1), shift : 0..31] /\ c.shift + b <= 32
    BY <2>2, <2>6, <2>8
  <2>12. QED
    BY <2>10, <2>11 DEF base
<1>6. CellsInPlace
  <2>1. palette_size <= 2 ^ version.bits
    BY <1>1, <1>2, Zenon DEF Power, b
  <2>2. p = 32 \div version.bits
    BY <1>1, <1>2 DEF b
  <2>3. QED
    BY <1>5, <2>1, <2>2, Zenon DEF CellsInPlace, b
<1>7. sent \in 0..Cells
  <2>1. CASE loop = "inner"
    BY <1>1, <1>2, <1>3, <2>1 DEF PackInv, InAWord
  <2>2. CASE loop # "inner"
    BY <1>3, <2>2 DEF PackInv, BetweenWords
  <2>3. QED
    BY <2>1, <2>2
<1>8. PackTypeOK
  BY <1>3, <1>5, <1>7 DEF PackTypeOK, PackInv, CountersHold, W, p
<1>9. AllCellsSent
  BY <1>1, <1>2 DEF AllCellsSent, PackInv, BetweenWords, W, p, b
<1>10. QED
  BY <1>6, <1>8, <1>9 DEF ReadWhereWritten

LEMMA PackStarts ==
  ASSUME PackInit, Cells = 4096
  PROVE  PackInv
<1>1. VersionFits(version, palette_size)
  BY VersionIsFit DEF PackInit
<1>2. version.per_word \in 2..32 /\ version.words \in Nat \ {0}
  BY <1>1 DEF VersionFits
<1>3. IsFiniteSet(word) /\ HoldsItsCells
  BY FS_EmptySet DEF PackInit, HoldsItsCells
<1>4. position = word_index * version.per_word
  BY <1>2 DEF PackInit
<1>5. QED
  BY <1>2, <1>3, <1>4 DEF PackInit, PackInv, CountersHold, InAWord, BetweenWords

\* put_misc_block_storage sends every cell of a storage once, in the word and at the shift where
\* the width of an index says it is and in bits of its own, wide enough for its palette,
\* whatever size the palette has.
THEOREM StorageIsPacked == ASSUME Cells = 4096 PROVE PackSpec => []ReadWhereWritten
<1>1. PackInit => PackInv
  BY PackStarts
<1>2. PackInv => VersionFits(version, palette_size)
  BY VersionIsFit DEF PackInv, CountersHold
<1>3. PackInv /\ [PackNext]_storage => PackInv'
  <2> SUFFICES ASSUME PackInv, [PackNext]_storage PROVE PackInv'
    OBVIOUS
  <2>1. CASE PackNext
    BY <1>2, <2>1, PackSteps
  <2>2. CASE UNCHANGED storage
    BY <2>2 DEF storage, PackInv, CountersHold, InAWord, BetweenWords, HoldsItsCells, CellOf,
                 version
  <2>3. QED
    BY <2>1, <2>2
<1>4. PackInv => ReadWhereWritten
  BY <1>2, WhatPacked
<1>5. QED
  BY <1>1, <1>3, <1>4, PTL DEF PackSpec
==============================================================================
