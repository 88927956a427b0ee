\* One thread: the serial checker, and the parse-only run.
CONSTANTS
  Total = 5
  ChunkSize = 2
  NumThreads = 1
  Fates = {"ok", "reject", "decline"}
  Sizes = {1, 2}
  Budget = 2
  SpawnMayFail = TRUE
  Laggards = {}
SPECIFICATION FairSpec
PROPERTIES Promise
