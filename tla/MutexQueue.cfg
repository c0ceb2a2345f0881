\* Three threads, as in the server, and two messages.
SPECIFICATION FairSpec
CONSTANTS
  Threads = {tick, worker, console}
  Items = {m1, m2}
  NULL = NULL
  Garbage = Garbage
  NoThread = NoThread
  MaxLen = 2
INVARIANTS LockProtects
PROPERTIES ImplementsWorkQueue LockReleased
