SPECIFICATION Spec
CONSTANTS
  gamepak_ram_pages = 3
  RomPages = 4
  HighPages <- UpperHalf
  RegisterValues = {0, 1}
  MaxTime = 7
  MaxGames = 1
CHECK_DEADLOCK FALSE
INVARIANTS MapIsSound MirrorsAgree HeldBlockSurvives
PROPERTY MissStaysMapped
