\* Three threads, every kind of failure, one thread that may miss the stop flag.
CONSTANTS
  Total = 5
  ChunkSize = 2
  NumThreads = 3
  Fates = {"ok", "reject", "decline"}
  Sizes = {1, 2}
  Budget = 2
  SpawnMayFail = TRUE
  Laggards = {2}
SPECIFICATION FairSpec
INVARIANTS TypeOK HeldOnce SessionBounded
PROPERTIES Promise NoWorkAfterStop Terminates
