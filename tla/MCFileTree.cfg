SPECIFICATION Spec
CONSTANTS
  Trees <- MCTrees
  Jobs <- MCJobs
  PathMax = 5
  MaxProcs = 2
  MaxFaults = 1
INVARIANTS NothingLost SuccessIsReal LinksNotFollowed
PROPERTIES CommandsFinish
CHECK_DEADLOCK FALSE
