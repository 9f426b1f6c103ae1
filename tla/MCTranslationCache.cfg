SPECIFICATION FairSpec
CONSTANTS
  Program <- Mixed
  Entries <- AllBlocks
  Ewram <- MCEwram
  Iwram <- MCIwram
  Bios <- MCBios
  Page = 2
  Buckets = 2
  Capacity <- MCCapacity
  Header = 1
  RetryLimit = 32
  MaxFlushes = 1
INVARIANTS OnlyUnfinishedAreStale InRangeIsLive LinksAreLive CodeIsGuarded
PROPERTIES LinksStayLive TranslatedIsFound LookupReturns
CHECK_DEADLOCK FALSE
