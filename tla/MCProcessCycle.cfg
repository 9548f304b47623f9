SPECIFICATION Spec
CONSTANTS
  c1 = c1
  c2 = c2
  Cpu = {c1, c2}
  NPROC = 4
  Parents <- Chain4
  MaxPid = 5
  KillPids = {}
  KallocFails = FALSE
SYMMETRY CpuSymmetry
CHECK_DEADLOCK FALSE
INVARIANT NoLockCycle
