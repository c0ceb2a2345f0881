SPECIFICATION Spec
CONSTANTS
  Chunks = {c1, c2}
  Values = {"small", "large"}
  Sectors <- SectorsOfValues
  NoValue = none
  MaxSectors = 6
SYMMETRY ChunkSymmetry
INVARIANTS NoSharedSectors FreeMapIsExact ReadBack
PROPERTY ReopenGivesSaved
