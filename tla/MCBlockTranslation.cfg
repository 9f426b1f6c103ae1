SPECIFICATION FairSpec
CONSTANTS
  Last <- MCLast
  Programs <- MCGated
  MAX_BLOCK_SIZE = 9
  MAX_EXITS = 9
  Budget = 3
PROPERTIES
  OrderSpec
  HardwareIsUpdated
