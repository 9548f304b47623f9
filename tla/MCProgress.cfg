\* Each part of the kernel that waits, under fair scheduling.
SPECIFICATION FairProgress
CONSTANTS
  NPROC = 3
  p1 = p1  p2 = p2  p3 = p3  b1 = b1  x = x
  NoProc = NoProc  NoBlock = NoBlock  NotCached = NotCached
  Intr = Intr  Printer = Printer  Nobody = Nobody  Sync = Sync  Off = Off
\* A pipe is freed, and a panic stops the console.
CHECK_DEADLOCK FALSE
INVARIANTS HolderIsExact NoLostWakeup SleepInv
PROPERTIES SleeperWakes LogSleeperWakes CloseWakes ServedByLaterInterrupts BufferedIsSent
