SPECIFICATION Spec
CONSTANTS
  Programs = {"http"}
  p1 = p1
  p2 = p2
  r1 = r1
  r2 = r2
  Suites <- MCSuites
  Targets <- MCTargets
  Configs <- MCConfigs
  MaxKids = 1
  Inputs <- MCInputs
  Space = "space"
  Nul = "nul"
  MaxArgs = {0, 1, 2}
  Present <- MCPresent
  MaxOrphans = 2
  Passwd <- MCPasswd
  Group <- MCGroup
  Shadow <- MCShadow
  Words <- MCWords
  Passwords <- MCPasswords
  Procs = {p1, p2}
  MaxBegun = 2
  Lengths = {0, 1, 3}
  Buffer = 2
  Queue = 1
  Requests <- MCRequests
  Contents <- MCContents
  ReqMax = 10
  PathMax = 4
  Segment = 5
  Resolvers = {r1, r2}
  Ports = {1, 2}
  HostNames <- MCHostNames
  MaxLookups = 3
  MaxLabel = 2
  MaxName = 7
INVARIANT BodyDelivered
CHECK_DEADLOCK FALSE
