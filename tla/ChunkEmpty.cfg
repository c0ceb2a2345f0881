\* Callers that also search columns without blocks.
SPECIFICATION Spec
CONSTANTS
  Side = 2
  Byte = 4
  SubChunks = 3
  Layers = 2
  Xs = {0, 3}
  Ys = {0, 3}
  Zs = {1}
  LayerArgs = {0, 1, 2}
  Ids = {0, 1, 2}
  air_runtime_id = 0
  biome_runtime_id = 1
  EmptyQueries = TRUE
  MaxSets = 3
INVARIANT StaysInside
CHECK_DEADLOCK FALSE
