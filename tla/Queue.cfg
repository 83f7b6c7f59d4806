SPECIFICATION FairQueueSpec
CONSTANTS
  Poster = {p1, p2}
  HeadSize = 2
  Capacity = 7
  DataSize <- MCSizes
  MaxPost = 4
  Semaphore = FALSE
  Junk = Junk
INVARIANTS QueueTypeOK Aligned InOrder
PROPERTIES FifoOrder FifoServes
CHECK_DEADLOCK FALSE
