SPECIFICATION FairSpec
CONSTANTS
  Library <- AllGames
  Addresses <- MCAddresses
  DataBits = 2
  write_backup_delay = 2
  RetryFrames = 3
  Outcomes = {"ok", "open", "short", "close"}
  MaxLoads = 1
PROPERTIES PendingUntilSaved
CHECK_DEADLOCK FALSE
