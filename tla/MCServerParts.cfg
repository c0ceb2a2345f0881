INIT PartsInit
NEXT PartsNext
CONSTANTS
  Files <- MCFiles
  MaxByte = 2
  EmptyName = ""
  NoName = "none"
  MaxBlocks = 4
  Names = {help, stop}
  Executors = {e1, e2}
  Unset = unset
  Nothing = nothing
  MaxCommands = 3
  Tokens <- MCTokens
  Keys <- MCKeys
  Start <- MCStart
  root = root
  twin = twin
  stranger = stranger
  garbled = garbled
  xuid = xuid
  MOJANG_ROOT_KEY = root
  Identities = {xuid}
  None = none
  MaxChain = 5
INVARIANTS StatesAreFound CreativeItemsMeanTheirNames CommandsAreFound LoginFollowsChain
\* The tables are freed, the client is answered.
CHECK_DEADLOCK FALSE
