SPECIFICATION FairSpec
CONSTANTS
  Channels = {1, 2}
  Sounds = {0}
  FifoSize = 4
  FifoWords = 2
  WordBytes = 1
  RegionWords = 2
  Registers <- MCRegisters
  Controls <- MCControls
  DmaData <- MCDmaData
  OwnStores = {0}
  SoundTimers <- MCTimers
  MaxTasks = 3
INVARIANTS
  ControlTellsActive
  SamplesPlayedOnce
PROPERTIES
  OnlyEnabledTransfer
  FifoKeepsFed
