\* Each part of the machine and of the libraries.
SPECIFICATION Spec
CONSTANTS
  p1 = p1  p2 = p2  p3 = p3  m1 = m1  m2 = m2  t1 = t1  t2 = t2  c1 = c1  c2 = c2
  bx = bx  by = by  nl = nl  eot = eot
  NoProc = NoProc  Intr = Intr  Printer = Printer  Nobody = Nobody  Sync = Sync
  ConsLock = ConsLock  UartLock = UartLock  None = None  Off = Off
\* A pipe is freed, a panic stops the console, a copy, a parse and a string function return.
CHECK_DEADLOCK FALSE
SYMMETRY Symmetry
INVARIANTS PipeRight LocksRight RegistersRight CopiesRight ParserRight
PROPERTIES IsFifo ConsoleRight OutputInOrder DiskRight MemoryRight HeapRight
