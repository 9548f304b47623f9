\* Each layer of the file system with two or three processes.
SPECIFICATION Spec
CONSTANTS
  p1 = p1  p2 = p2  p3 = p3  i1 = i1  x1 = x1  f1 = f1  f2 = f2  h1 = h1  h2 = h2
  NoProc = NoProc  NoBlock = NoBlock  Zero = Zero  NoPipe = NoPipe  Off = Off
\* mkfs ends; ialloc panics, and create does not go on, when no inode is free.
CHECK_DEADLOCK FALSE
SYMMETRY Symmetry
INVARIANTS CacheRight InodesRight FilesRight TreeRight ImageRight
PROPERTIES FileTableRight
