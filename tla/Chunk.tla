-------------------------------- MODULE Chunk --------------------------------
(***************************************************************************)
(* A chunk in memory (podrum/world/chunk/chunk.c, subchunk.c,              *)
(* blockstorage.c): sub chunks of two block storages each, and one storage *)
(* of biomes per sub chunk.  A storage keeps an index per cell and a       *)
(* palette of runtime ids.  The two loops that go down over the sub chunks *)
(* are a step per pass.                                                    *)
(***************************************************************************)
EXTENDS Integers, Sequences, FiniteSets

CONSTANTS Side,       \* 16: cells along an edge of a sub chunk
          Byte,       \* 256: values of a uint8_t, the type of a coordinate
          SubChunks,  \* CHUNK_SUB_CHUNK_SIZE
          Layers,     \* block_storages_count of a sub chunk
          Xs, Ys, Zs, \* coordinates the callers pass
          LayerArgs,  \* layers the callers pass
          Ids,        \* runtime ids
          air_runtime_id, biome_runtime_id,
          EmptyQueries, \* whether callers search a column without blocks
          MaxSets     \* bound: calls that set

ASSUME SideIsPositive == Side \in Nat \ {0}
ASSUME ByteIsNat == Byte \in Nat \ {0}
ASSUME HeightFits == \A y \in 0..(Byte - 1) : y \div Side < SubChunks
ASSUME SubChunksFit == SubChunks \in 1..(Byte - 1)
ASSUME LayersIsNat == Layers \in Nat
ASSUME ArgsAreBytes == /\ Xs \subseteq 0..(Byte - 1)
                       /\ Ys \subseteq 0..(Byte - 1)
                       /\ Zs \subseteq 0..(Byte - 1)
                       /\ LayerArgs \subseteq 0..(Byte - 1)
ASSUME IdsHold == air_runtime_id \in Ids /\ biome_runtime_id \in Ids

VARIABLES sub_chunks, \* sub_chunks[i].block_storages[layer]
          biomes,
          pc,         \* "idle", a loop: "highest" or "send_count", "outside"
          i,          \* its counter, a uint8_t
          column,     \* arguments x, z, layer of get_chunk_highest_block_at
          result,     \* what the last loop returned
          request,    \* history: the place and id of the last call that set
          sets        \* number of calls that set

vars == <<sub_chunks, biomes, pc, i, column, result, request, sets>>
chunk == <<sub_chunks, biomes>>

------------------------------------------------------------------------------
(* blockstorage.c                                                          *)

\* (x << 8) | (z << 4) | y
Index(x, y, z) == (x * Side + z) * Side + y

Blocks == 0..(Side * Side * Side - 1)

new_block_storage(runtime_id) == [blocks |-> [b \in Blocks |-> 0], palette |-> <<runtime_id>>]

\* palette[index]: the C array starts at 0.
get_block_storage_block_runtime_id(x, y, z, s) == s.palette[s.blocks[Index(x, y, z)] + 1]

\* The loop over the palette reaches no end.
InPalette(id, s) == \E n \in DOMAIN s.palette : s.palette[n] = id

\* Where it breaks: the first place of the id.
Search(id, s) == CHOOSE n \in DOMAIN s.palette : s.palette[n] = id /\ \A m \in 1..(n - 1) : s.palette[m] # id

set_block_storage_block_runtime_id(x, y, z, id, s) ==
  IF InPalette(id, s)
  THEN [s EXCEPT !.blocks[Index(x, y, z)] = Search(id, s) - 1]
  ELSE [palette |-> Append(s.palette, id),
        blocks  |-> [s.blocks EXCEPT ![Index(x, y, z)] = Len(s.palette)]]

\* Heights at which the storage has a block in a column.
Heights(x, z, s) == {y \in 0..(Side - 1) : s.blocks[Index(x, y, z)] # 0}

BLOCK_STORAGE_EMPTY == -1

\* From 15 down to the first index that is not 0.
get_block_storage_highest_block_at(x, z, s) ==
  IF Heights(x, z, s) = {} THEN BLOCK_STORAGE_EMPTY
  ELSE CHOOSE y \in Heights(x, z, s) : \A h \in Heights(x, z, s) : h <= y

is_empty_block_storage(s) == \A b \in Blocks : s.blocks[b] = 0
------------------------------------------------------------------------------
(* subchunk.c                                                              *)

SUB_CHUNK_LAYER_NOT_PRESENT == -2

new_sub_chunk == [l \in 0..(Layers - 1) |-> new_block_storage(air_runtime_id)]

get_sub_chunk_block_runtime_id(x, y, z, layer, c) ==
  IF layer < Layers THEN get_block_storage_block_runtime_id(x, y, z, c[layer])
  ELSE SUB_CHUNK_LAYER_NOT_PRESENT

set_sub_chunk_block_runtime_id(x, y, z, id, layer, c) ==
  IF layer < Layers
  THEN [c EXCEPT ![layer] = set_block_storage_block_runtime_id(x, y, z, id, c[layer])]
  ELSE c

get_sub_chunk_highest_block_at(x, z, layer, c) ==
  IF layer < Layers THEN get_block_storage_highest_block_at(x, z, c[layer])
  ELSE SUB_CHUNK_LAYER_NOT_PRESENT

is_empty_sub_chunk(c) == \A l \in 0..(Layers - 1) : is_empty_block_storage(c[l])
------------------------------------------------------------------------------
(* chunk.c                                                                 *)

\* The biomes, beside the layers of blocks.
Biome == Layers

\* new_chunk
Init ==
  /\ sub_chunks = [n \in 0..(SubChunks - 1) |-> new_sub_chunk]
  /\ biomes = [n \in 0..(SubChunks - 1) |-> new_block_storage(biome_runtime_id)]
  /\ pc = "idle" /\ i = 0 /\ column = <<0, 0, 0>> /\ result = 0
  /\ request = <<>> /\ sets = 0

get_chunk_block_runtime_id(x, y, z, layer) ==
  get_sub_chunk_block_runtime_id(x % Side, y % Side, z % Side, layer, sub_chunks[y \div Side])

\* The layer is not looked at.
get_chunk_biome_runtime_id(x, y, z) ==
  get_block_storage_block_runtime_id(x % Side, y % Side, z % Side, biomes[y \div Side])

\* Mutant: x and z change places.
Mut_set_chunk_block_runtime_id(x, y, z, id, layer) ==
  /\ pc = "idle" /\ sets < MaxSets
  /\ sub_chunks' = [sub_chunks EXCEPT ![y \div Side] =
       set_sub_chunk_block_runtime_id(z % Side, y % Side, x % Side, id, layer, sub_chunks[y \div Side])]
  /\ request' = IF layer < Layers THEN <<<<layer, x % Side, y, z % Side>>, id>> ELSE request
  /\ sets' = sets + 1
  /\ UNCHANGED <<biomes, pc, i, column, result>>

set_chunk_block_runtime_id(x, y, z, id, layer) ==
  /\ pc = "idle" /\ sets < MaxSets
  /\ sub_chunks' = [sub_chunks EXCEPT ![y \div Side] =
       set_sub_chunk_block_runtime_id(x % Side, y % Side, z % Side, id, layer, sub_chunks[y \div Side])]
  /\ request' = IF layer < Layers THEN <<<<layer, x % Side, y, z % Side>>, id>> ELSE request
  /\ sets' = sets + 1
  /\ UNCHANGED <<biomes, pc, i, column, result>>

set_chunk_biome_runtime_id(x, y, z, id) ==
  /\ pc = "idle" /\ sets < MaxSets
  /\ biomes' = [biomes EXCEPT ![y \div Side] =
       set_block_storage_block_runtime_id(x % Side, y % Side, z % Side, id, biomes[y \div Side])]
  /\ request' = <<<<Biome, x % Side, y, z % Side>>, id>>
  /\ sets' = sets + 1
  /\ UNCHANGED <<sub_chunks, pc, i, column, result>>

\* --i of a uint8_t.  `i >= 0` holds of every uint8_t, so neither loop ends by it.
Down == i' = IF i = 0 THEN Byte - 1 ELSE i - 1

\* sub_chunks[i] past the array: the rest is undefined.
Outside ==
  /\ pc \in {"highest", "send_count"} /\ i >= SubChunks
  /\ pc' = "outside"
  /\ UNCHANGED <<chunk, i, column, result, request, sets>>

\* Callers that know: the column has a block, the chunk has one.
ColumnHasBlock(x, z, layer) ==
  \E n \in 0..(SubChunks - 1) : get_sub_chunk_highest_block_at(x % Side, z % Side, layer, sub_chunks[n]) >= 0
HasBlock == \E n \in 0..(SubChunks - 1) : ~is_empty_sub_chunk(sub_chunks[n])

CallHighest(x, z, layer) ==
  /\ pc = "idle"
  /\ EmptyQueries \/ ColumnHasBlock(x, z, layer)
  /\ pc' = "highest" /\ i' = SubChunks - 1 /\ column' = <<x, z, layer>>
  /\ UNCHANGED <<chunk, result, request, sets>>

\* Mutant: the height within the sub chunk is returned.
Mut_get_chunk_highest_block_at ==
  /\ pc = "highest" /\ i < SubChunks
  /\ LET y == get_sub_chunk_highest_block_at(column[1] % Side, column[2] % Side, column[3], sub_chunks[i]) IN
     IF y \notin {SUB_CHUNK_LAYER_NOT_PRESENT, BLOCK_STORAGE_EMPTY}
     THEN pc' = "found" /\ result' = y /\ i' = i
     ELSE Down /\ UNCHANGED <<pc, result>>
  /\ UNCHANGED <<chunk, column, request, sets>>

get_chunk_highest_block_at ==
  /\ pc = "highest" /\ i < SubChunks
  /\ LET y == get_sub_chunk_highest_block_at(column[1] % Side, column[2] % Side, column[3], sub_chunks[i]) IN
     IF y \notin {SUB_CHUNK_LAYER_NOT_PRESENT, BLOCK_STORAGE_EMPTY}
     THEN pc' = "found" /\ result' = y + i * Side /\ i' = i
     ELSE Down /\ UNCHANGED <<pc, result>>
  /\ UNCHANGED <<chunk, column, request, sets>>

\* top_empty is the number of passes so far: kept in result.
CallSendCount ==
  /\ pc = "idle"
  /\ EmptyQueries \/ HasBlock
  /\ pc' = "send_count" /\ i' = SubChunks - 1 /\ result' = 0
  /\ UNCHANGED <<chunk, column, request, sets>>

get_chunk_sub_chunk_send_count ==
  /\ pc = "send_count" /\ i < SubChunks
  /\ IF is_empty_sub_chunk(sub_chunks[i])
     THEN result' = result + 1 /\ Down /\ pc' = pc
     ELSE result' = SubChunks - result /\ pc' = "counted" /\ i' = i
  /\ UNCHANGED <<chunk, column, request, sets>>

Return ==
  /\ pc \in {"found", "counted"}
  /\ pc' = "idle"
  /\ UNCHANGED <<chunk, i, column, result, request, sets>>

Next ==
  \/ \E x \in Xs, y \in Ys, z \in Zs, id \in Ids :
       \/ \E layer \in LayerArgs : set_chunk_block_runtime_id(x, y, z, id, layer)
       \/ set_chunk_biome_runtime_id(x, y, z, id)
  \/ \E x \in Xs, z \in Zs, layer \in LayerArgs : CallHighest(x, z, layer)
  \/ CallSendCount
  \/ get_chunk_highest_block_at \/ get_chunk_sub_chunk_send_count
  \/ Outside \/ Return

Spec == Init /\ [][Next]_vars
------------------------------------------------------------------------------
\* The places of a chunk: a position in a layer of blocks, or among the biomes.
Places == (0..Layers) \X (0..(Side - 1)) \X (0..(Byte - 1)) \X (0..(Side - 1))

BlockStorages == [blocks : [Blocks -> Nat], palette : Seq(Ids)]

TypeOK ==
  /\ sub_chunks \in [0..(SubChunks - 1) -> [0..(Layers - 1) -> BlockStorages]]
  /\ biomes \in [0..(SubChunks - 1) -> BlockStorages]
  /\ pc \in {"idle", "highest", "found", "send_count", "counted", "outside"}
  /\ i \in 0..(Byte - 1)
  /\ column \in (0..(Byte - 1)) \X (0..(Byte - 1)) \X (0..(Byte - 1))
  /\ result \in Int
  /\ request \in {<<>>} \cup (Places \X Ids)
  /\ sets \in Nat

\* No index of a storage is past its palette, no id is in it twice, and its first
\* place keeps the id of the new storage: index 0 is air to the searches.
Sound(s, first) ==
  /\ s.palette # <<>> /\ s.palette[1] = first
  /\ \A b \in Blocks : s.blocks[b] < Len(s.palette)
  /\ \A m, n \in DOMAIN s.palette : s.palette[m] = s.palette[n] => m = n

\* The palettes of every storage stay sound however blocks are overwritten: no
\* entry is ever removed from a palette (blockstorage.c:25).
PalettesAreSound ==
  /\ \A n \in 0..(SubChunks - 1), l \in 0..(Layers - 1) : Sound(sub_chunks[n][l], air_runtime_id)
  /\ \A n \in 0..(SubChunks - 1) : Sound(biomes[n], biome_runtime_id)

Read(p) == IF p[1] = Biome THEN get_chunk_biome_runtime_id(p[2], p[3], p[4])
           ELSE get_chunk_block_runtime_id(p[2], p[3], p[4], p[1])

Map == INSTANCE BlockMap WITH
  holds <- [p \in Places |-> Read(p)],
  Initial <- [p \in Places |-> IF p[1] = Biome THEN biome_runtime_id ELSE air_runtime_id]

\* chunk.c keeps what was set in every cell, of blocks and of biomes, in spite of
\* the indirection through palettes: it implements the map of BlockMap.
ImplementsBlockMap == Map!Spec

\* The blocks of a column that are not air, of a layer.
NotAir(x, z, layer) ==
  {y \in 0..(Byte - 1) : get_chunk_block_runtime_id(x, y, z, layer) # air_runtime_id}

\* get_chunk_highest_block_at answers the highest block that is not air, although it
\* looks at indices and never at runtime ids (blockstorage.c:45).
FindsHighest ==
  pc = "found" => LET ys == NotAir(column[1], column[2], column[3]) IN
                  result \in ys /\ \A y \in ys : y <= result

\* send_chunk sends every sub chunk that has a block in any layer, and no empty one
\* on top (chunk.c:62).
SendsWhatIsNotEmpty ==
  pc = "counted" =>
    /\ result \in 1..SubChunks /\ ~is_empty_sub_chunk(sub_chunks[result - 1])
    /\ \A x, z \in 0..(Side - 1), l \in 0..(Layers - 1) : \A y \in NotAir(x, z, l) : y \div Side < result

\* Both searches stop where the blocks begin: what they leave out above is air
\* (chunk.c:39, 62).
HeightIsKnown == FindsHighest /\ SendsWhatIsNotEmpty

\* Heights are bytes, so the sub chunks above the last byte stay as they were made.
WithinReach ==
  \A n \in 0..(SubChunks - 1), l \in 0..(Layers - 1) : \A x, y, z \in 0..(Side - 1) :
    sub_chunks[n][l].blocks[Index(x, y, z)] # 0 => y + n * Side < Byte

\* The inductive invariant: a loop has seen only empty columns, or empty sub chunks,
\* above i.  Past the array it claims nothing.
LoopInv ==
  /\ pc = "highest" /\ i < SubChunks =>
       \A n \in (i + 1)..(SubChunks - 1) :
         get_sub_chunk_highest_block_at(column[1] % Side, column[2] % Side, column[3], sub_chunks[n]) < 0
  /\ pc = "send_count" /\ i < SubChunks =>
       /\ result = SubChunks - 1 - i
       /\ \A n \in (i + 1)..(SubChunks - 1) : is_empty_sub_chunk(sub_chunks[n])

ChunkInv == TypeOK /\ PalettesAreSound /\ WithinReach /\ LoopInv /\ FindsHighest /\ SendsWhatIsNotEmpty

\* The loops look only at the sub chunks there are, and end: an empty column
\* is answered with CHUNK_EMPTY (chunk.c:48).
StaysInside == pc # "outside"
==============================================================================
