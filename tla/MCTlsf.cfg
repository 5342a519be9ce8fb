SPECIFICATION Spec
CONSTANTS
  Align = 2
  Header = 2
  MinBlock = 4
  Meta = 6
  SLLog2 = 1
  FLMax = 5
  Page = 8
  RegionMin = 24
  CacheMax = 2
  CacheBytes = 48
  SizeMax = 127
  Bases = {8, 48, 72}
  AddrMax = 96
  Sizes = {0, 1, 8, 16, 127}
  MaxLive = 3
INVARIANTS TypeOK BoundaryTags NoAdjacentFree IndexExact OwnedBlocks CacheAccounting NoIdleRegion
PROPERTIES GrowOnlyWhenExhausted ImplementsHeapSpec
CHECK_DEADLOCK FALSE
