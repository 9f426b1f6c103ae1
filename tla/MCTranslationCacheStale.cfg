SPECIFICATION FairSpec
CONSTANTS
  Program <- Upward
  Entries <- AllBlocks
  Ewram <- MCEwram
  Iwram <- MCIwram
  Bios <- MCBios
  Page = 2
  Buckets = 2
  Capacity <- MCCapacity
  Header = 1
  RetryLimit = 32
  MaxFlushes = 1
INVARIANT NoStaleTag
CHECK_DEADLOCK FALSE
