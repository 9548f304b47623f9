SPECIFICATION Spec
CONSTANTS
  c1 = c1
  c2 = c2
  Cpu = {c1, c2}
  NPROC = 3
  Parents <- Boot
  MaxPid = 4
  KillPids = {2, 3, 4}
  KallocFails = TRUE
SYMMETRY CpuSymmetry
CHECK_DEADLOCK FALSE
INVARIANT FreeSlotNotKilled
