\* Two processes, three blocks, two contents; crashes and buffer recycling.
\* Two open calls fill the log but for one block: one call too many would
\* fill it.
CONSTANTS
  p1 = p1  p2 = p2  p3 = p3  b1 = b1  b2 = b2  b3 = b3  b4 = b4  b5 = b5
  b6 = b6  v1 = v1  v2 = v2
  Proc = {p1, p2}
  Block = {b1, b2, b3}
  Val = {v1, v2}
  Zero = v1
  NotCached = NotCached
  NoBlock = NoBlock
  MAXOPBLOCKS = 2
  LOGSIZE = 4
  size = 4
  OpBlocks = 1
  UintMax = 7
  MaxCrashes = 2
SPECIFICATION RoomySpec
SYMMETRY Symmetry
INVARIANTS LogInv NoPanic SleeperHasReason LoggedStaysCached DataInv
PROPERTY CallsAreAtomic
