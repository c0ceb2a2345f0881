SPECIFICATION PartsSpec
CONSTANTS
  Addresses = {1, 2}
  EntityIds = {1, 2, 3}
  Batches = {}
  Positions = {}
  Reach = 1
  ChunkSide = 2
  ServerRadius = 3
  MaxSent = 4
  MaxSaid = 2
  MaxQueue = 3
INVARIANTS WorldIsToldFirst StandsOnSentChunk TableFollowsClients
PROPERTIES PromiseIsKept StaysThenPlays
