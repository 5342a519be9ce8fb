CONSTANTS
  ByteBits = 3
  ImmBits = 7
  UserBase = 32
  JalRange = 32768
  StackTop = 65536
  StackSize = 768
  Junk = 5
  MaxSteps = 1400
  MaxText = 4
  MaxLines = 5
INIT InitOwnPuts
NEXT Run
INVARIANT UserFunctionCalled
CHECK_DEADLOCK FALSE
