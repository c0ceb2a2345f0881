INIT SendingInit
NEXT SendingNext
CONSTANTS
  Numbers = {0, 1, 2, 3, 5, 6, 8}
  MaxCount = 4
  Mtu = 63
  Sizes = {1, 6}
  Reliabilities = {1, 3, 4}
  Channels = {0, 1}
  Acks = 2
  CompoundIds = 65536
  MaxMessages = 3
  MaxSeq = 4
INVARIANTS NumbersIdentify NothingLost WholeMessagesSent OrderFollowsSubmission DatagramsFitTheMtu RoundTrip
\* The codec ends.
CHECK_DEADLOCK FALSE
