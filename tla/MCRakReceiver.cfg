SPECIFICATION Spec
CONSTANTS
  short = short
  long = long
  other = other
  Messages <- MCMessages
  Fragments <- MCFragments
  PerSet = 1
  MaxSeq = 4
INVARIANTS AckedIsHandled AckedMessageIsDispatched DispatchedIsWhole GapNackedButHead
