INIT ChunkPartInit
NEXT ChunkPartNext
CONSTANTS
  Side = 2
  Byte = 4
  SubChunks = 3
  Layers = 2
  Xs = {0, 3}
  Ys = {0, 3}
  Zs = {1}
  LayerArgs = {0, 1, 2}
  Ids = {0, 1, 2}
  air_runtime_id = 0
  biome_runtime_id = 1
  EmptyQueries = FALSE
  MaxSets = 3
  Cells = 4096
  PaletteSizes = {1, 2, 3, 4, 5, 8, 9, 16, 17, 32, 33, 64, 65, 128, 129, 256, 257, 65536}
INVARIANTS HeightIsKnown ReadWhereWritten
PROPERTY ImplementsBlockMap
\* The packing ends.
CHECK_DEADLOCK FALSE
