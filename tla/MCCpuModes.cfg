SPECIFICATION Spec
CONSTANTS
  User = User
  Fiq = Fiq
  Irq = Irq
  Svc = Svc
  Engines <- MCEngines
  Code = 2
  MaxWork = 2
  MaxFrames = 3
PROPERTIES
  FollowsBanks
  ResumesWhereInterrupted
