SPECIFICATION Spec
CONSTANTS
  W = 5
  A = 3
  Values = {0, 1, 6, 15, 16, 31}
  Amounts = {0, 1, 4, 5, 6, 7, 8, 9, 31}
  Bases = {0, 6, 12, 20, 28}
INVARIANTS
  InterpreterFollowsArm
  X86FollowsArm
  Sh4FollowsArm
CHECK_DEADLOCK FALSE
