SPECIFICATION FairSpec
CONSTANTS
  short = short
  long = long
  other = other
  Messages <- TwoMessages
  Fragments <- TwoFragments
  PerSet = 2
  MaxSeq = 3
PROPERTIES SentIsDispatched
