\* Each program under fair scheduling.
SPECIFICATION FairSpec
CONSTANT Off = Off
\* primes ends, and the shell stops when nobody types.
CHECK_DEADLOCK FALSE
PROPERTIES ShellRight SleepRight PrimesRight
