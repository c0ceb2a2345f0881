SPECIFICATION FairSpec
CONSTANTS
  Ips = {ip1}
  Ports = {p1, p2}
  Workers = {w1}
  FrameSets <- MCFrameSets
  MaxDatagrams = 5
INVARIANTS NoOrphanPlayer NotificationComesLast
PROPERTIES PlayersLeave StopEnds
\* The process ends.
CHECK_DEADLOCK FALSE
