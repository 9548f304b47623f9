\* Two processes, two blocks, two contents; a crash, and a cache under pressure.
CONSTANTS
  p1 = p1  p2 = p2  p3 = p3  b1 = b1  b2 = b2  b3 = b3  b4 = b4  b5 = b5
  b6 = b6  v1 = v1  v2 = v2
  Proc = {p1, p2}
  Block = {b1, b2}
  Val = {v1, v2}
  Zero = v1
  NotCached = NotCached
  NoBlock = NoBlock
  MAXOPBLOCKS = 3
  LOGSIZE = 6
  size = 6
  OpBlocks = 2
  UintMax = 7
  MaxCrashes = 1
SPECIFICATION Spec
INVARIANT LoggedStaysCached
