\* LOGSIZE = 3 * MAXOPBLOCKS and size = LOGSIZE as in param.h and mkfs.c.
\* Calls write as many blocks as MAXOPBLOCKS allows.
CONSTANTS
  p1 = p1  p2 = p2  p3 = p3  b1 = b1  b2 = b2  b3 = b3  b4 = b4  b5 = b5
  b6 = b6  v1 = v1  v2 = v2
  Proc = {p1, p2, p3}
  Block = {b1, b2, b3, b4, b5, b6}
  Val = {v1}
  Zero = v1
  NotCached = NotCached
  NoBlock = NoBlock
  MAXOPBLOCKS = 2
  LOGSIZE = 6
  size = 6
  OpBlocks = 2
  UintMax = 7
  MaxCrashes = 0
SPECIFICATION Spec
SYMMETRY Symmetry
INVARIANTS NoPanic
