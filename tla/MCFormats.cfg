INIT FormatsInit
NEXT FormatsNext
CONSTANTS
  MaxSize = 8
  MaxRequired = 4
  MaxTokens = 4
  ByteSize = 4
  VarIntBytes = 8
  VarLongBytes = 16
  PutValues <- AllValues
  MaxItems = 2
  Inputs <- MCInputs
INVARIANTS FindsFirstRun NumbersReadBack TextComesBack ReadBack ComesApart AllIsFreed
\* Every part ends.
CHECK_DEADLOCK FALSE
