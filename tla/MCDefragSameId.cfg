SPECIFICATION Spec
CONSTANTS
  r1 = r1  r2 = r2
  Req = {r1, r2}
  NumBlocks = 4
  DefragThreshold = 0
  MaxSwaps = 512
  PrefixCaching = FALSE
  MayReuseId = TRUE
  MaxEntries = 2
CHECK_DEADLOCK FALSE
INVARIANTS ContentsFollow
