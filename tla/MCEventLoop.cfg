SPECIFICATION Spec
CONSTANTS
  HdrawCycles = 3
  HblankCycles = 2
  Visible = 1
  Lines = 2
  LastTimer = 1
  Reloads = {2, 3}
  FullReload = 3
  Prescales = {1}
  IrqTimers = {1}
  Masks <- MCMasks
  DispstatSets <- MCDispstat
  VcountSettings = {0}
  SavestateLoads = TRUE
INVARIANTS EventsAhead VideoOnTime
PROPERTIES HaltEnds FramesKeepComing
