----------------------------- MODULE MCMachine ------------------------------
(***************************************************************************)
(* Pipes, devices, CPUs, memory and the libraries for TLC, one at a time:  *)
(* an initial state chooses a part, and the behaviour is that part's       *)
(* alone.  A variable is shared by the parts that have one of that name    *)
(* and Off in the others.                                                  *)
(***************************************************************************)
EXTENDS Integers, TLC

CONSTANTS p1, p2, p3, m1, m2, t1, t2, c1, c2, bx, by, nl, eot,
          NoProc, Intr, Printer, Nobody, Sync, ConsLock, UartLock, None, Off

VARIABLES part,
  pc, lock, left, killed, buf, got, used, panic, ret,                       \* of several parts
  data, nread, nwrite, readopen, writeopen, freed, fd, ch, eof, deserted,   \* of one: pipe
  r, w, e, zero, marks,                                                     \* console
  conslock, txlock, uart_tx_w, uart_tx_r, c, fifo, wire, irq, panicked,     \* uart
  free, chain, info, status, avail, availIdx, usedId, used_idx, busy, seen, inflight, done, isr, intr,  \* virtio
  lk, cpu, th,                                                              \* interrupts
  reg, sscratch, at, on, tf, stack, ctx, out, sched, sip,                   \* registers
  space, pipes, result,                                                     \* memory
  op, va0, len, pte, nul, sz, va, moved,                                    \* copies
  heap, live, own,                                                          \* malloc
  line, tree, ended,                                                        \* sh's parser
  mem, call, shown                                                          \* strings

pipe   == <<data, nread, nwrite, readopen, writeopen, freed, fd, ch, eof, deserted>>
cons   == <<r, w, e, zero, marks>>
uart   == <<conslock, txlock, uart_tx_w, uart_tx_r, c, fifo, wire, irq, panicked>>
virtio == <<free, chain, info, status, avail, availIdx, usedId, used_idx, busy, seen, inflight, done, isr, intr>>
locks  == <<lk, cpu, th>>
regs   == <<reg, sscratch, at, on, tf, stack, ctx, out, sched, sip>>
memory == <<space, pipes, result>>
copy   == <<op, va0, len, pte, nul, sz, va, moved>>
malloc == <<heap, live, own>>
parser == <<line, tree, ended>>
string == <<mem, call, shown>>
devices == <<pipe, cons, uart, virtio>>
cpus    == <<locks, regs>>
library == <<memory, copy, malloc, parser, string>>
all     == <<part, pc, lock, left, killed, buf, got, used, panic, ret, devices, cpus, library>>
-----------------------------------------------------------------------------
One == {p1}
Two == {p1, p2}
Three == {p1, p2, p3}
X == {bx}
XY == {bx, by}

\* A ring of two bytes with counters that wrap after four: kills, then bytes
\* that can be told apart.
P == INSTANCE Pipe WITH Proc <- Two, Byte <- X, PIPESIZE <- 2, UintMod <- 4, MaxN <- 2, Victims <- Two
Nobodies == {}
F == INSTANCE Pipe WITH Proc <- Two, Byte <- XY, PIPESIZE <- 2, UintMod <- 4, MaxN <- 2, Victims <- Nobodies
ASSUME P!ConstantsOK /\ F!ConstantsOK

\* Two readers; a ring of two characters with indices that wrap after four.
Chars == {bx, nl, eot}
C == INSTANCE Console
       WITH Proc <- Two, Char <- Chars, NL <- nl, EOF <- eot, INPUT_BUF <- 2, UintMod <- 4, MaxN <- 2

\* One writer with distinct characters, echo and printf.
U == INSTANCE Uart WITH Proc <- One, Char <- XY, UART_TX_BUF_SIZE <- 3, FIFO <- 2, MaxN <- 2

\* Room for two requests of three processes, and two descriptors left over.
V == INSTANCE Virtio WITH Proc <- Three, NUM <- 8, RingMod <- 8, Statuses <- {0, 1}
ASSUME V!ConstantsOK

Cpus == {c1, c2}
Threads == {t1, t2}
I == INSTANCE Interrupts WITH Cpu <- Cpus, Thread <- Two
ASSUME I!ConstantsOK
R == INSTANCE Registers WITH Cpu <- Cpus, Thread <- Threads

\* Two processes and programs that fit, that do not, and that are damaged.
Mem == {m1, m2}
Seg(a, memsz, filesz, reads) == [va |-> a, memsz |-> memsz, filesz |-> filesz, reads |-> reads]
SomeImages == {<<Seg(0, 3, 2, TRUE)>>, <<Seg(0, 1, 1, TRUE), Seg(2, 1, 1, FALSE)>>,
               <<Seg(0, 2, 1, TRUE), Seg(3, 1, 0, TRUE)>>, <<Seg(0, 1, 2, TRUE)>>, <<Seg(0, 0, 0, TRUE)>>}
SomeDeltas == {-9, -1, 3}
SomeArgs == {<<2>>}
M == INSTANCE Memory
       WITH Proc <- Mem, NPages <- 17, NPTE <- 2, PGSIZE <- 2, UintMod <- 64, ALIGN <- 1, PTRSIZE <- 1,
            MaxUser <- 10, Deltas <- SomeDeltas, MaxPipe <- 2, Images <- SomeImages, Args <- SomeArgs

\* Three pages of two bytes, one more beyond MAXVA.
Y == INSTANCE UserCopy WITH PGSIZE <- 2, NPages <- 3, MaxLen <- 3, WORD <- 2

\* An int is -16..15 here: a request of 31 is beyond what sbrk can be asked for.
Requests == {0, 1, 3, 7, 31}
H == INSTANCE Malloc WITH HeapSize <- 7, MinCore <- 4, HeaderSize <- 2, TwoW <- 32, Request <- Requests

Tokens == {"a", "<", ">", "+", "|", "&", ";", "(", ")"}
G == INSTANCE ShellParse WITH Token <- Tokens, MaxLine <- 5, MAXARGS <- 4

Bytes == 0..2
S == INSTANCE CString WITH Size <- 4, Byte <- Bytes, HalfW <- 64
-----------------------------------------------------------------------------
NoPipe ==
  /\ data = Off /\ nread = Off /\ nwrite = Off /\ readopen = Off /\ writeopen = Off
  /\ freed = Off /\ fd = Off /\ ch = Off /\ eof = Off /\ deserted = Off
NoCons == r = Off /\ w = Off /\ e = Off /\ zero = Off /\ marks = Off
NoUart ==
  /\ conslock = Off /\ txlock = Off /\ uart_tx_w = Off /\ uart_tx_r = Off /\ c = Off
  /\ fifo = Off /\ wire = Off /\ irq = Off /\ panicked = Off
NoVirtio ==
  /\ free = Off /\ chain = Off /\ info = Off /\ status = Off /\ avail = Off /\ availIdx = Off /\ usedId = Off /\ used_idx = Off
  /\ busy = Off /\ seen = Off /\ inflight = Off /\ done = Off /\ isr = Off /\ intr = Off
NoLocks == lk = Off /\ cpu = Off /\ th = Off
NoRegs ==
  /\ reg = Off /\ sscratch = Off /\ at = Off /\ on = Off /\ tf = Off
  /\ stack = Off /\ ctx = Off /\ out = Off /\ sched = Off /\ sip = Off
NoMemory == space = Off /\ pipes = Off /\ result = Off
NoCopy == op = Off /\ va0 = Off /\ len = Off /\ pte = Off /\ nul = Off /\ sz = Off /\ va = Off /\ moved = Off
NoMalloc == heap = Off /\ live = Off /\ own = Off
NoParser == line = Off /\ tree = Off /\ ended = Off
NoString == mem = Off /\ call = Off /\ shown = Off

Init ==
  /\ part \in {"pipe", "fifo", "console", "uart", "virtio", "locks", "registers",
               "memory", "copy", "malloc", "parser", "string"}
  /\ CASE part = "pipe" -> P!Init [] part = "fifo" -> F!Init [] OTHER -> NoPipe
  /\ IF part = "console" THEN C!Init ELSE NoCons
  /\ IF part = "uart" THEN U!Init ELSE NoUart
  /\ IF part = "virtio" THEN V!Init ELSE NoVirtio
  /\ IF part = "locks" THEN I!Init ELSE NoLocks
  /\ IF part = "registers" THEN R!Init ELSE NoRegs
  /\ IF part = "memory" THEN M!Init ELSE NoMemory
  /\ IF part = "copy" THEN Y!Init ELSE NoCopy
  /\ IF part = "malloc" THEN H!Init ELSE NoMalloc
  /\ IF part = "parser" THEN G!Init ELSE NoParser
  /\ IF part = "string" THEN S!Init ELSE NoString
  /\ part \in {"pipe", "fifo", "console", "uart", "virtio"} \/ pc = Off
  /\ part \in {"pipe", "fifo", "console"} \/ (lock = Off /\ killed = Off)
  /\ part \in {"pipe", "fifo", "console", "uart", "copy"} \/ left = Off
  /\ part \in {"console", "uart"} \/ buf = Off
  /\ part \in {"console", "copy"} \/ got = Off
  /\ part \in {"virtio", "memory"} \/ used = Off
  /\ part \in {"locks", "memory"} \/ panic = Off
  /\ part \in {"copy", "malloc"} \/ ret = Off

Next ==
  \/ /\ (part = "pipe" /\ P!Next) \/ (part = "fifo" /\ F!Next)
     /\ UNCHANGED <<part, buf, got, used, panic, ret, cons, uart, virtio, cpus, library>>
  \/ /\ part = "console" /\ C!Next
     /\ UNCHANGED <<part, used, panic, ret, pipe, uart, virtio, cpus, library>>
  \/ /\ part = "uart" /\ U!Next
     /\ UNCHANGED <<part, lock, killed, got, used, panic, ret, pipe, cons, virtio, cpus, library>>
  \/ /\ part = "virtio" /\ V!Next
     /\ UNCHANGED <<part, lock, left, killed, buf, got, panic, ret, pipe, cons, uart, cpus, library>>
  \/ /\ part = "locks" /\ I!Next
     /\ UNCHANGED <<part, pc, lock, left, killed, buf, got, used, ret, devices, regs, library>>
  \/ /\ part = "registers" /\ R!Next
     /\ UNCHANGED <<part, pc, lock, left, killed, buf, got, used, panic, ret, devices, locks, library>>
  \/ /\ part = "memory" /\ M!Next
     /\ UNCHANGED <<part, pc, lock, left, killed, buf, got, ret, devices, cpus, copy, malloc, parser, string>>
  \/ /\ part = "copy" /\ Y!Next
     /\ UNCHANGED <<part, pc, lock, killed, buf, used, panic, devices, cpus, memory, malloc, parser, string>>
  \/ /\ part = "malloc" /\ H!Next
     /\ UNCHANGED <<part, pc, lock, left, killed, buf, got, used, panic, devices, cpus, memory, copy, parser, string>>
  \/ /\ part = "parser" /\ G!Next
     /\ UNCHANGED <<part, pc, lock, left, killed, buf, got, used, panic, ret, devices, cpus, memory, copy, malloc, string>>
  \/ /\ part = "string" /\ S!Next
     /\ UNCHANGED <<part, pc, lock, left, killed, buf, got, used, panic, ret, devices, cpus, memory, copy, malloc, parser>>

Spec == Init /\ [][Next]_all

Symmetry == Permutations(Two)
-----------------------------------------------------------------------------
\* pipe.c: nobody is inside a call on a pipe, or can get there, once pipeclose
\* has given its page back; an end-of-file speaks for ever; readers sleep
\* beside an empty ring and writers beside a full one, but for one return of a
\* killed pipewrite.
PipeRight == part = "pipe" => P!PipeInv /\ P!PipeRight

Q == INSTANCE ByteQueue
       WITH Byte <- XY, Capacity <- 2, queue <- IF part = "fifo" THEN F!Contents ELSE <<>>,
            out <- IF part = "fifo" THEN ch ELSE bx
\* The ring of pipewrite and piperead is a bounded FIFO queue although its
\* counters wrap.
IsFifo == Q!Spec

LD == INSTANCE LineDiscipline
        WITH Char <- Chars, NL <- nl, EOF <- eot, Capacity <- 2,
             input <- IF part = "console" THEN C!Span(r, w) ELSE <<>>,
             line <- IF part = "console" THEN C!Span(w, e) ELSE <<>>
\* consoleintr and consoleread: the three indices stay in order, so that the
\* ring is a queue of complete lines and a line being edited; nobody sleeps
\* beside a line; each control-D that is consumed is one read of no bytes.
ConsoleRight ==
  /\ LD!Spec
  /\ [](part = "console" => C!TypeOK /\ C!NoLostWakeup /\ C!EofIsZeroRead)

Z == INSTANCE ByteQueue
       WITH Byte <- XY, Capacity <- 5, queue <- IF part = "uart" THEN U!Unsent ELSE <<>>,
            out <- IF part = "uart" THEN wire ELSE bx
\* What consolewrite gives uartputc goes over the wire once and in order.
OutputInOrder == Z!Spec

\* virtio_disk.c: every descriptor is free or in exactly one request's chain;
\* the disk works only on requests whose process still waits; a request that
\* was not answered is on a ring or in the device; virtio_disk_rw returns only
\* after its request was carried out.
DiskRight ==
  /\ [](part = "virtio" => V!VirtioInv /\ V!DeviceReadsLiveRequests)
  /\ [][part = "virtio" => V!ReturnsWhenDone]_all

\* spinlock.c, sched, the trap handlers: a spinlock has one holder, on the CPU
\* that lk->cpu names; nothing that holds one can be interrupted; a handler
\* keeps interrupts off until it returns; a system call that holds no lock has
\* them on, wherever sched moved it.
LocksRight == part = "locks" => I!SwitchInv /\ I!LocksRight

\* trampoline.S, kernelvec.S, swtch.S: a user program finds all its registers
\* after every trap, kernel code that was interrupted or switched out finds
\* its own, and tp is the hart id in the kernel.
RegistersRight ==
  part = "registers" => R!TypeOK /\ R!UserRegistersKept /\ R!TpIsHartid /\ R!KernelRegistersKept

\* kalloc.c, vm.c, exec.c: whatever fork, exec and sbrk did or gave up half
\* way, each page is free, in a pipe, or used in one place, and the pages below
\* p->sz are mapped and nothing else is; a call that fails changes nothing.
MemoryRight ==
  /\ [](part = "memory" => M!TypeOK /\ M!PagesConserved /\ M!MappedExactly)
  /\ [][part = "memory" => M!FailureChangesNothing]_all

\* umalloc.c: each unit of the heap is in one place, the free list goes round
\* once in address order, joined, and a block has room for what was asked for;
\* malloc returns a null pointer only when nothing fits and sbrk fails.  All
\* this up to a request so large that morecore's argument to sbrk does not fit
\* in an int.
HeapRight ==
  /\ [](part = "malloc" => H!TypeOK /\ H!Tiles /\ H!ListInOrder /\ H!RoomForRequest)
  /\ [][part = "malloc" => H!NullOnlyWhenFull /\ H!OverrunOnlyWhenHuge]_all

\* copyout, copyin, copyinstr, fetchaddr: each byte moves once, up to the first
\* that the user may not touch, and the call succeeds exactly when that is all;
\* a string ends at its first nul; no word is read beyond p->sz.
\* string.c, printf.c, ulib.c: nothing outside the destination is written,
\* overlapping areas and strings are copied as far as they fit, the first
\* difference decides a comparison, and printint shows the number atoi reads.
CopiesRight ==
  /\ part = "copy" => Y!TypeOK /\ Y!CopyIsExact /\ Y!StringIsExact /\ Y!FetchIsBelowSize
  /\ part = "string" => S!TypeOK /\ S!WritesInside /\ S!MoveIsExact /\ S!CopyIsExact
                        /\ S!CompareIsOrder /\ S!PrintsTheValue

\* sh.c: parsecmd accepts exactly the lines of the grammar, each argv has a
\* place for its null, and nulterminate ends every word.
ParserRight == part = "parser" => G!TypeOK /\ G!AcceptsGrammar /\ G!RoomForNull /\ G!WordsKept
=============================================================================
