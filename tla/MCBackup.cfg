SPECIFICATION FairSpec
CONSTANTS
  Library <- AllGames
  Addresses <- MCAddresses
  DataBits = 2
  write_backup_delay = 2
  RetryFrames = 3
  Outcomes = {"ok", "open", "short", "close"}
  MaxLoads = 1
INVARIANTS CoveredBySave NoDroppedProgram
PROPERTIES QuitSavesOrTells BackupReachesFile
CHECK_DEADLOCK FALSE
