SPECIFICATION FairSpec
CONSTANTS
  c1 = c1
  c2 = c2
  Cpu = {c1, c2}
  NPROC = 3
  Parents <- Chain3
  MaxPid = 3
  KillPids = {}
  KallocFails = FALSE
CHECK_DEADLOCK FALSE
PROPERTY OrphanReaped
