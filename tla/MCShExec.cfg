SPECIFICATION Spec
CONSTANTS
  MaxCmds = 3
  Redirs <- MCRedirs
  Cap = 1
  MaxWrite = 2
  MaxInts = 1
INVARIANTS OnlyItsPipes CleanReturn
PROPERTIES PipelineFinishes
CHECK_DEADLOCK FALSE
