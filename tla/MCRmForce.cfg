SPECIFICATION Spec
CONSTANTS
  Trees <- MCTrees
  Jobs <- MCForce
  PathMax = 5
  MaxProcs = 2
  MaxFaults = 1
INVARIANT ForceIgnoresMissing
CHECK_DEADLOCK FALSE
