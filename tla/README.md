# A TLA+ model of the xv6 kernel

This directory specifies parts of the kernel in `src/kernel`, checks them with
TLC on small instances and proves the most important invariants with TLAPS for
every size (eight modules of proofs, about the log, the process table, sleep-locks,
spinlocks, the buffer cache and pipes). File and line references are to the repository; `PROJECT.json`
gives the lines behind every definition.

## The system

xv6 is a small multiprocessor Unix. Its parts, their state, and who uses whom:

| part | state | operations | relies on |
|---|---|---|---|
| spinlocks (`spinlock.c`) | `locked`, `cpu`; per CPU `noff`, `intena` | acquire, release, push_off, pop_off | atomic swap |
| processes (`proc.c`) | `proc[NPROC]`: state, parent, chan, killed, pid, lock; `cpus[]` | fork, exit, wait, kill, yield, sched, scheduler, sleep, wakeup | spinlocks |
| sleep-locks (`sleeplock.c`) | `locked`, `pid` | acquiresleep, releasesleep, holdingsleep | sleep, wakeup |
| virtio driver (`virtio_disk.c`) | descriptors, avail and used rings | virtio_disk_rw, virtio_disk_intr | sleep, wakeup |
| buffer cache (`bio.c`) | `NBUF` buffers in an LRU list, `refcnt`, `valid` | bread, bwrite, brelse, bpin, bunpin | driver, sleep-locks |
| log (`log.c`) | in-memory header, `outstanding`, `committing`; header and log blocks on disk | begin_op, log_write, end_op, recovery | buffer cache, sleep |
| inodes (`fs.c`) | `icache`, bitmap and inode blocks | iget, ilock, iput, bmap, readi, writei, itrunc | log, cache, sleep-locks |
| directories (`fs.c`, `sysfile.c`) | directory contents | namex, create, link, unlink | inodes |
| files and pipes (`file.c`, `pipe.c`) | `ftable`, `ofile[]`; ring of 512 bytes | open, dup, close, read, write, pipe | inodes, sleep |
| console and UART (`console.c`, `uart.c`) | `r`, `w`, `e`; transmit ring | consoleread, consolewrite, interrupt handlers | sleep |
| memory (`kalloc.c`, `vm.c`, `exec.c`) | free list, page tables | kalloc, kfree, uvmalloc, uvmcopy, exec | spinlocks |
| user allocator (`umalloc.c`) | circular free list | malloc, free | sbrk |
| user programs (`user/`) | | init, sh, primes, find, xargs, ... | system calls |

What makes it hard: CPUs interleave between any two lock operations; a process
tests a condition and sleeps on it while another changes it; `exit` and `wait`
walk the process table under one lock while they take others; slots, buffers
and inodes are reused; the machine may crash between any two disk writes.

## Modules

| module | models | abstraction |
|---|---|---|
| `AtomicDisk` | what the log promises | memory, durable state, open calls |
| `Log` | `log.c`, with the cached copy and count of each block (`bio.c`) | block contents are model values |
| `LogProof`, `LogDataProof`, `LogAtomicProof` | theorems about `Log`: its counting, its data, the refinement of `AtomicDisk` | |
| `Process` | `proc.c` with the killed tests of `usertrap` | no memory, files or exit status |
| `ProcessProof` | theorems about `Process` | |
| `SleepLock` | `sleeplock.c` over `sleep` and `wakeup` | one lock, one channel |
| `SleepLockProof` | theorems about `SleepLock` | |
| `Interrupts` | `spinlock.c`, `trap.c`, `sched`, `yield`, `sleep`, the scheduler loop | `cons.lock`, `uart_tx_lock` and every `p->lock` |
| `InterruptsProof` | theorem about `Interrupts` | |
| `Registers` | `swtch.S`, `kernelvec.S`, `trampoline.S`, the trap frame | a value is its owner and what it is |
| `BufCache` | `bio.c` | callers modify, pin, install and release blocks |
| `BufCacheProof` | theorem about `BufCache` | |
| `Virtio` | `virtio_disk.c` and the device | one buffer per process, no contents |
| `InodeCache` | the cache and allocation of inodes in `fs.c` | directories are counts of names |
| `FileData` | blocks and contents in `fs.c`, chunks in `file.c` | a byte is its writer |
| `FsTree` | paths and names in `fs.c`, `sysfile.c` | no contents but directories |
| `FileTable` | `file.c`, descriptors in `sysfile.c`, fork and exit | no contents |
| `ByteQueue`, `Pipe` | what a pipe promises; `pipe.c` | a pipe and its descriptors |
| `PipeProof` | theorems about `Pipe` | |
| `LineDiscipline`, `Console` | what console input promises; `console.c` | three kinds of characters |
| `Uart` | `uart.c`, `consolewrite`, output of `printf` | FIFO as a count and its contents |
| `Memory` | `kalloc.c`, user page tables in `vm.c`, `exec.c`, `growproc`, fork | two entries per page table, pages of two bytes |
| `UserCopy` | `copyin`, `copyout`, `copyinstr`, argument fetching | a byte is its address |
| `Ticks` | `clockintr`, `sys_sleep` | small wrapping counter |
| `CString` | `string.c`, `ulib.c`, `printint`, `atoi` | small memory, small integers |
| `Mkfs` | `mkfs.c` | blocks of three units |
| `Malloc` | `umalloc.c` | addresses in units of a header |
| `ShellParse` | the parser of `sh.c` | a word is its position |
| `Shell` | `init.c`, the loop and `runcmd` of `sh.c` | programs `echo`, `cat` and one that does not exist |
| `Primes` | `primes.c` | |
| `MCLog`, `MCProcess` | instances of `Log` and `Process` for TLC | |
| `MCProgress`, `MCPrograms`, `MCFiles`, `MCMachine` | instances of the others | several parts, one per behaviour |

An `MC` module of the second kind instantiates several components with fixed
sizes. Its initial states choose a `part`; the behaviour is then that part's
alone, and the variables of the others are `Off`. So one run looks at every
part, in instances that the module's comments describe, and a property is an
implication `part = ... => ...` or a conjunction of such.

Definitions named `X_something` next to a definition `X` are faulty variants of
it. They are not part of the specifications; each shows that a property notices
the fault it describes.

### Log

A process is `idle`, in `begin_op`, asleep there, in a call, inside `log_write`,
or committing. Every critical section under `log.lock` is one action. The two
tests that `log_write` makes before it takes the lock (log.c:218-221) are the
separate action `LogWriteTests`. `WriteLog`, `WriteHead`, `Install` and `Erase`
each write one disk block, and `Crash` can come between any two of them; it
clears memory and leaves `head`, `dlog` and `home`. `ReadHead`, `RecoverBlock`
and `ClearLog` are `initlog`. `refcnt` is an unsigned integer that wraps at
`UintMax`. `Recycle` is `bget` reusing an unreferenced buffer.

`RoomySpec` differs from `Spec` in one way: the cache does not recycle a buffer
that this boot's recovery copied. That hides the fault the run `log_recycle`
shows, so that atomicity can be checked and proved beyond it.

### Process

Slots are numbers, slot 1 is `initproc`. A step lies between two operations on
some `p->lock`; `lock[s]` names the CPU that holds it. `fork` and `kill` of one
slot are single steps. `exit` is cut where it releases or waits for a lock:
wake init, read the parent, lock the parent, lock itself, one step or two per
slot of `reparent`, become a zombie. `wait` is cut at each slot it looks at,
since it reads `np->parent` without `np->lock`. `Sched` is the switch back to the
scheduler, which releases the lock; `Dispatch` is the scheduler choosing a
process. Init never exits and always waits again (user/init.c:38-50).

### SleepLock

One step per spinlock taken or released: `SleepAcquire` takes `p->lock`,
`SleepRelease` gives up `lk->lk`, `SleepSched` sleeps and lets the scheduler
release `p->lock`; `Wakeup` is one turn of the loop in `wakeup`. `Log` and
`Process` treat sleeping as atomic under the caller's lock. This module shows
that for the pattern all callers use.

### Interrupts and registers

`Interrupts` has CPUs, kernel threads that move between them, their `p->lock`s,
and two more spinlocks that may nest, named after the console's and the UART's;
`Takes` says which lock may be taken inside which. `Sleep` is `sleep` called with
the lock taken last. `Sched` makes the checks of `sched`: where one fails the
thread is `panicked` and its CPU stops. Every other check sets `panic`.
`noff` and `intena` are kept per CPU as in `struct cpu`; acquiring is split into
`push_off` and the swap, because an interrupt or another CPU may come between.
`usertrapret` is cut at the write of `stvec`. `Registers` runs the assembly: each
routine is the list of registers it stores and loads at which offsets, so that
a register left out or loaded from another's place shows up later, perhaps on
another CPU.

### Disk and buffers

`BufCache` keeps the LRU list as a permutation of the buffers. `bget` is one step, since
`bcache.lock` covers lookup and recycling, followed by the wait for the
sleep-lock. A process holds up to two buffers, the second one inside the first
(`Inside` says which blocks may be asked for by the holder of which). A caller that
changed a block writes it (`BWrite`) or pins it (`BPin`); a pinned block is written
and unpinned by `Install`, the loop of `install_trans`. `bget` panics when it finds
no buffer. `Coherent` compares every block with its last writer's version.
In `Virtio` the device takes a request from the avail ring and finishes requests in
any order, with a status of its own: one that is not 0 makes the handler panic. The
handler is cut into its loop and the acknowledgement.
`RingMod` stands for 2^16.

### File system

Four modules look at four aspects. `InodeCache` is cut at every `icache.lock`
and sleep-lock, under `create`, `unlink` and `link`, which counts its name, lets go
of the inode and makes the name later, or takes the count back; `reused` is the set
of inodes that were allocated before the `iput` that freed them had finished.
`FileData` has real `balloc`, `bmap` with an indirect block, `readi`, `writei` and
`itrunc`, one step per chunk of `filewrite`; copies from and to the user fail at any
byte. A block whose copy failed is changed and not logged: `fs.old` remembers what
the disk has, and `Recycle` brings it back. `FsTree` has `namex` with one step per
path element, and each call up to the next lock it may wait for. `FileTable` is
about who holds a reference to an open file, and what is behind it; `open` and
`pipe` take their entries in separate steps (`mine` are the entries a call has and
no descriptor names) and give them back in separate steps when they fail.

### Pipes and the console

One step moves one byte under the lock. Counters wrap at `UintMod`, a multiple
of the ring size as 2^32 is. `IsFifo` and `IsLineDiscipline` are refinements: the
mapping rebuilds the abstract queue from the ring and the counters. `Uart` splits
`uartstart` and `uartputc_sync` at the register accesses.

### Memory

An address space belongs to one process and each call is one step. Running out
of memory at each possible allocation comes from a free list that
other processes and pipes have drained to a different length. `FailureChangesNothing`
then says that the caller keeps its image and the free list its length.

`StringIsExact` in `UserCopy` says what `argstr` returns: the length of the string
without its nul. The comment at syscall.c:76, "Returns string length if OK (including
nul), -1 if error.", says otherwise; no caller uses the length.

### User programs

`ShellParse` runs the recursive descent on every line up to `MaxLine` tokens and
compares it with a grammar. `Shell` executes parsed lines with processes,
descriptors and pipes of bounded number; `fork`, `open` and `pipe` fail when
there are none left, and a write waits when its pipe is full. It checks that the prompt
comes back and that a line's output is complete when it does; the kernel panics when
`init` exits, and nothing is required after that. `Primes` has pipes of different
capacities, and its writers fail only on a full pipe without a reader. In `Ticks` a
process that has tested `killed` is a step away from being asleep, so a kill may
find it there. `Malloc` has the conversion of `morecore`'s request to the `int` of
`sbrk`. `Malloc` and `Mkfs` follow their programs loop by loop.

## Runs

Seven runs pass.

| run | instance | what it shows |
|---|---|---|
| `log_atomic` | 2 processes, 3 blocks, 2 contents, 2 crashes, a log that two calls fill but for one block | the log implements `AtomicDisk` (`CallsAreAtomic`); logged blocks stay cached; no panic; no sleeper without a reason; the inductive invariants `LogInv` and `DataInv` |
| `process_tree` | 2 CPUs, 3 slots, pids up to 4, kills | a kernel stack has one user, unlocked tests of `parent` stay true, no zombie is overlooked, no process has a dead parent; the inductive invariant `ProcessInv` |
| `process_live` | 2 CPUs, a chain of 3 processes | a killed process exits |
| `progress` | the parts below, fair | |
| · sleep-lock | 3 processes | one holder, no lost wakeup, `SleepInv`, every sleeper is woken |
| · log | 3 processes, room for two calls | `begin_op` does not sleep for ever |
| · pipe | 2 processes, ring of 1, one killed | closing an end ends the calls at the other |
| · disk | 3 processes, 7 descriptors | a request finishes if interrupts keep coming |
| · UART | 1 writer, echo and `printf` | a buffered character is sent |
| `programs` | the parts below, fair | |
| · shell | four sets of lines: redirections and lists; pipelines; background jobs; too few slots; pipes of 1 or 2 | the prompt comes back, after the line has had its effect; `wait` has a child |
| · clock | 2 sleepers, counter of 4 values | nobody sleeps too short or for ever |
| · primes | numbers to 9, pipes of 1 and of 8, forks fail at any point | primes in order, all processes end, `main` last |
| `files` | the parts below | |
| · buffers | 2 processes with up to 2 buffers each, 2 buffers, 3 blocks | one buffer per block, contents up to date, a panic only with every buffer in use, no two holders wait for each other; `CacheInv` |
| · inodes | 3 processes, 2 entries, 2 inodes; 2 processes, 1 entry | one entry per inode, locked copies current, `iput` does not wait, no dangling name; an unused inode is free unless it was reused early; a panic only with every entry in use |
| · contents | 1 process, 2 files; 2 processes sharing an offset | contents are what was written (a torn byte is the old or the new one), blocks conserved, shared writers lose nothing |
| · descriptors | 2 processes, 3 files, 2 descriptors each | counts exact, also behind the table; failed calls take nothing; a call's file stays open |
| · names | 2 processes: nested directories; files and links; devices with 2 inodes | a tree, exact link counts and references, no cycle of inode locks |
| · image | up to 5 files of 0 to 15 units, blocks of 3 | `mkfs`: files read back, bitmap exact, root covered |
| `machine` | the parts below | |
| · pipe | 2 processes, ring of 2, kills; two values | no use after free, end of file is final, no lost wakeup, `PipeInv`; implements `ByteQueue` |
| · console | 2 readers, ring of 2 | implements `LineDiscipline`; an end-of-file mark is one empty read |
| · UART | 1 writer, echo, `printf` | written characters are sent once and in order |
| · disk | 3 processes, 8 descriptors, good and bad statuses | descriptors conserved, the device works on live requests only, no early return; `VirtioInv` |
| · spinlocks | 2 CPUs, 2 threads, their locks and two more | one holder per lock, who has a lock is not interrupted, no panic but `sched`'s under `consolewrite`, interrupts come back; `SwitchInv` |
| · registers | 2 CPUs, 2 threads | registers survive traps, switches and migration; `tp` is the CPU |
| · memory | 2 processes, 17 pages | pages have one owner, what is below `sz` is mapped, failing calls change nothing |
| · copies, strings | 3 pages of 2 bytes, each mapped or not; 4 bytes of 3 values, 7-bit integers | copies are exact or fail; string functions and conversions against their definitions |
| · malloc | heap of 7 units, integers of 5 bits | blocks tile the heap, the list is in order, requests fit, null only when full, `sbrk` gets the size asked for unless it is huge |
| · parser | all lines of up to 5 tokens | accepted exactly when in the grammar; `argv` has room; words kept |

Five runs show that the code does not do what a comment or an assertion says;
`findings` in `PROJECT.json` quotes the lines.

* `log_full`: `begin_op` counts against `LOGSIZE`, `log_write` against
  `log.size - 1`, and the header occupies one block of `log.size`: calls of
  `MAXOPBLOCKS` blocks make `log_write` panic.
* `log_recycle`: `install_trans` unpins blocks during recovery that no
  `log_write` pinned. The count wraps, the next pin makes it zero, and a logged
  block can leave the cache.
* `process_cycle`: `exit` locks the parent it read earlier. By then the slot can
  belong to its own grandchild, and two CPUs wait for each other's lock.
* `process_orphan`: a process whose parent exits at the same time wakes the
  dead parent, and init sleeps on beside a zombie child.
* `process_kill`: `allocproc` leaves a pid in a slot when it fails, `kill`
  accepts it, and the next process in the slot starts out killed.

The models have further behaviours that a reader of the code may not expect. The
properties above say where they leave room for them; no run singles them out.

* `virtio_disk_intr` acknowledges after it has emptied the used ring, and clears
  the interrupt of a request that finished in between. Its process sleeps until
  another request raises one (`ServedByLaterInterrupts` assumes one).
* A writer killed after it filled a pipe returns without a wakeup; the reader
  sleeps on until the end is closed (`deserted` in `Pipe`).
* Between freeing an inode and dropping its reference `iput` holds no lock. If
  the number is reused and dropped in that window, nobody frees it: `InodesRight`
  says that unused inodes are free but for those in `reused`.
* `create` and `link` do not look whether their directory still has links
  (`ghost` in `FsTree`), and a process in a removed directory can follow `..`
  to an inode that was freed.
* `writei` returns `n` after a copy that failed half way (`spoiled` in `FileData`),
  and the block it left changed is not in the log: its bytes are seen until the
  buffer is recycled.
* `consolewrite` holds `cons.lock` when `uartputc` sleeps, and `sched`, which "Must
  hold only p->lock" (proc.c:493), panics. `OnlyConsoleWritePanics` says that no
  other caller makes it do so (`panicked` in `Interrupts` and `Uart`).
* `bget` panics when all buffers are in use. `NBUF`, `LOGSIZE` and `NPROC` in param.h
  (30, 30, 64) do not rule it out; `PanicMeansFull` says that nothing else does it.
* `malloc` of about 2^31 bytes or more passes `sbrk` a different number than
  it adds to its list (`OverrunOnlyWhenHuge`).
* `sbrk` of a large negative number succeeds and changes nothing: `sz + n` wraps.
* `init` exits if its `fork` fails.

### Bounds

* `MaxCrashes` = 2 gives a crash in recovery from a crash.
* `LOGSIZE` = 2 or 3 times `MAXOPBLOCKS` and `size` = `LOGSIZE`, as in param.h and
  mkfs.c, with numbers scaled down so that the log fills. In `log_atomic` a call
  reserves two blocks and writes one; two calls are admitted and leave one block of
  the log free, and a third block exists, so that a call admitted too early would
  reach the test of `log_write`. Group commits there have two blocks.
* `UintMax` = 7 stands for 2^32 - 1; no run counts up to it, so only the wrap at
  zero is met.
* Three slots give a process a parent, itself and init, with slots reused
  (`MaxPid` = 4). A lock cycle needs four; `process_cycle` begins with a chain
  of four processes to reach it quickly.
* Rings and counters: one to three bytes per ring and a `UintMod` that is a
  small multiple of it make the ring full, empty and wrapped in the same run.
* `NUM` in `Virtio` is 7 or 8 with three descriptors per request, so requests
  have to wait for descriptors, with one or two left over.
* `NPages` in `Memory` lets one process grow and a fork or exec fail at each of
  its allocations; `MaxPipe` bounds what pipes take. `SomeDeltas` reach below zero.
* `MaxChunk` and files of at most two blocks in `FileData`: a write needs several
  chunks and crosses into the indirect block.
* Paths in `FsTree` have up to two elements, `..` among them; three inodes are
  the root, a directory and one inside it.
* `MaxLag` in `Ticks` bounds how late a ready process runs: past half the
  counter `ticks - ticks0` cannot be told from a small number.
* `MaxLeft` in `Shell` bounds how many background processes are still there when
  the next line is typed.
* `MaxLine` = 5 tokens and `MAXARGS` = 4: the longest lines exceed `argv`.
* Two buffers in `BufCache` for two processes that may want two each: the cache is
  full, and with a pinned block it is full for one process.
* Symmetry is used only in runs without liveness properties: of processes in
  `files` and `machine`, of CPUs in `Process`, of processes and blocks in
  `log_atomic` and `log_full`.

Deadlock is checked in `log_atomic`, `log_full` and `log_recycle`. The other
runs may stop: in `Process` the lost wakeup of `process_orphan` can stop the
whole system, a pipe is freed, nobody types, a program or a copy is at its end,
no inode is left, the kernel has panicked.

### Fairness

* `Process`: strong fairness per CPU for giving it up (the timer interrupt
  comes back), per slot for being dispatched (the scheduler scans all slots)
  and for moving on in the kernel (a spinning CPU gets the lock). Init always
  calls `wait` again.
* `progress`: strong fairness of each process or handler of the chosen part
  (`Moves`), for the sleep-lock, pipe and UART in each of its steps, for the log
  in `EndOp` and for the disk in leaving its waits. Holders release spinlocks, and
  a spinlock goes to every process that spins. The hardware swap does not
  promise the latter under permanent contention; the kernel depends on it. A
  call makes finitely many `log_write`s before `end_op`. Weak fairness is enough
  for what only has to be able to run (`Runs`, `Works`): a call in the log, the
  disk and its interrupt, recovery, the UART's transmitter. `BufferedIsSent`
  leaves out executions in which the echo or `printf` never stops.
* `programs`: in the shell and in `primes`, weak fairness of the program as a
  whole: while some process of it can run, one does. That is less than the
  round-robin scheduler gives. Nobody has to type. The clock interrupt
  and each ready sleeper are strongly fair: they wait for `tickslock`, which
  goes to every CPU that spins for it.

## Proofs

TLC has checked each inductive invariant below on the run of its component
(`LogInv`, `DataInv`, `ProcessInv` and `SleepInv` by name; `CacheInv`, `PipeInv` and
`SwitchInv` inside `CacheRight`, `PipeRight` and `LocksRight`). The runs `machine` and
`files` check the latter three, and `IsFifo`, for their part of the union modules; the
theorems state them of the components alone. Every proof has the same
shape: the initial states satisfy the invariant, every action preserves it (one
lemma or step per action), and it implies the property.

Assumptions on constants are named: `LogConstants`, `ProcessConstants`,
`SleepLockConstants`, and `ConstantsOK` in `Pipe`, `BufCache` and `Interrupts`. They say
that sizes are positive numbers and that values standing for "none" are not
members of the sets they are added to, and what the code's own constants
satisfy: 2^32 is a multiple of `PIPESIZE`, the first process has no parent, the
locks are different locks. `BufCache` has finitely many processes.

### The log

`LogProof` proves, for any finite sets of processes and blocks, any sizes and
any number of crashes:

* `LogInvariant`: `Spec => [](TypeOK /\ LogInv)`;
* `LogNeverPanics`: neither `log_write` nor `end_op` panics;
* `SleepersHaveReasons`: a process asleep in `begin_op` has a running commit or
  a full log to wait for.

They assume `SmallCalls`: `size = LOGSIZE`, and calls write fewer than
`MAXOPBLOCKS` blocks. `log_full` shows that the second assumption is needed.
`NoPanic` is not inductive. `begin_op` knows only `outstanding` and the length of the
header, whereas panics depend on what open calls will still write. `LogInv`
therefore counts tickets: `Unspent` holds one for every block an open call may
still log. What is logged plus the tickets left stays at most `size - 2`.
`begin_op` creates `OpBlocks` tickets and its test leaves room for them, and
`log_write` turns a ticket into an entry or absorbs. Hence the unlocked tests of
`log_write` pass even if other calls append meanwhile. The rest of `LogInv` says
who commits (`WhoInv`), where the loops stand (`LoopInv`) and that a call keeps
to its quota (`CallInv`).

`LogDataProof` and `LogAtomicProof` prove, from `SmallCalls` and for `RoomySpec`
(`log_recycle` shows that `Spec` does not have these properties):

* `LogDataInvariant`: `RoomySpec => [](TypeOK /\ LogInv /\ DataInv)`;
* `LoggedBlocksStayCached`: `LoggedStaysCached` for ever;
* `QuietLogIsDurable`: with no call open and no commit running, the header on
  disk is empty and every block at home is what memory has (`QuietMeansDurable`);
* `LogIsAtomic`: `RoomySpec` implements `AtomicDisk`.

`DataInv` relates four copies of a block: in the cache, in the log, at home, and
listed in either header. `HeaderInv`: the header on disk is empty, or it is the
one in memory, and lists a block once. `CopyInv`: how far `write_log` and
`install_trans` have copied. `CleanInv`: what is not logged and not being written
is the same in memory and at home. `PinInv`: `refcnt` is the number of pins and
locks, except for the blocks recovery went through, whose count has wrapped.
`LockInv`: one process has a buffer from `bread` to `brelse`. The refinement maps
`durable` to what recovery would make of the disk (`Recovered`). The proof
shows that `write_head` changes it to the memory of the calls that have ended,
all at once, that no other step changes it, and that a crash at any moment, in
recovery too, takes memory back to it.

### Processes

`ProcessProof` proves, for any number of slots and CPUs, any processes at the start,
and with `fork` failing or not:

* `ProcessInvariant`: `Spec => []ProcessInv`;
* `StacksAreExclusive`, `ParentsAreStable`, `ChildrenAreNotLost`, `NobodyIsOrphaned`: the
  invariants `StackExclusive`, `ParentStable`, `NoLostChild` and `NoOrphan`.

None of them is inductive. `HoldInv` says which `p->lock` each point of the code
holds, so that a process that is on a CPU in another state than RUNNING is
locked and the scheduler passes it by. `StateInv` says where the thread of a
slot can be in each state. `ScanInv` is the loop invariant of `reparent` (no
slot it has passed has `p` for a parent) and of `wait` (no child it has passed is
a zombie). `OrigInv` says that the parent `exit` remembers is still the parent,
or the process has been given to init. Hence a child that becomes a zombie under
a parent other than init holds that parent's lock: the parent is not in the
middle of its scan, and if it sleeps it is woken. For init this fails, which is
`process_orphan`. `NoLockCycle` is not provable: `process_cycle` violates it.

### Sleep locks

`SleepLockProof` proves for every `NPROC`:

* `SleepInvariant`: `Spec => [](TypeOK /\ SleepInv)`;
* `SleepLocksExclude`: `holdingsleep` is true of exactly the process between
  `acquiresleep` and `releasesleep`;
* `WakeupsAreNotLost`: whoever sleeps while the lock is free is still ahead of a
  running `wakeup`.

The last is not inductive by itself. `SleepInv` adds who holds which spinlock,
and extends the claim to a process that has released `lk->lk` and is not asleep
yet: `wakeup` cannot pass it, because it holds `p->lock`.

### Spinlocks and interrupts

`InterruptsProof` proves `LocksAreRight`: `Spec => []LocksRight` for any CPUs and
threads: one holder per lock, locks and handlers mask interrupts, interrupts come back
after a system call's last release, no check but `sched`'s panics, and `sched`'s only in
a `sleep` under `cons.lock` and `uart_tx_lock`. The claims depend on each other.
`CpuInv` (`RunsWell`) relates `noff`, `intena`, the interrupt flag and `stvec` of a CPU
to the context that runs on it;
`ParkedInv` says what a thread that is switched out has saved, so that the next
CPU, whose `noff` and `intena` it finds, satisfies `RunsWell` again; `SwitchWell` is
about `p->lock`, which `sched` takes and another context releases. `SleepWell` says
what a thread holds between the two locks of `sleep`.

### The buffer cache

`BufCacheProof` proves `CacheIsRight`: `Spec => []CacheRight`, for any number of buffers,
blocks and finitely many processes. Coherence needs `CacheInv`: references are
counted exactly (`RefInv`), whoever uses a buffer keeps its block (`UseInv`), and a
buffer that is not pinned and not in its writer's hands is on disk (`CleanInv`),
so that recycling one loses nothing. That `bget` panics only with every buffer in use
or pinned follows from the exact counts and from every buffer being on the list
(`ListInv`), which `MoveToFront` keeps a permutation.

### Pipes

`PipeProof` proves, for any ring size and any multiple of it as the range of the
counters, any processes, values and lengths:

* `PipeIsRight`: `Spec => []PipeRight`;
* `PipeIsFifo`: `Spec => IsFifo`, the refinement of `ByteQueue`.

`PipeInv` ties `readopen` and `writeopen` to the descriptors (`EndsInv`), calls to
their descriptor and the lock (`CallInv`), the freeing of the page to the second
close (`FreeInv`) and end of file to the closed write end (`EofInv`). For the
refinement, the distance of the counters modulo 2^32 is the length of the queue,
and the place of a byte in the ring depends on its counter modulo the ring size
only.

### Only model-checked

* All liveness properties: TLAPS does not reason about fairness.
* `NoWaitCycle` of `BufCache`: an argument about chains of processes of any length.
* `Virtio`, `Console`, `Uart`, `InodeCache`, `FsTree`, `FileTable`, `Registers`, `Ticks`,
  `Primes`: not attempted.
* `CString`, `FileData`, `Malloc`, `Memory`, `Mkfs`, `Shell` and `ShellParse`: they compute
  with recursive operators, which TLAPS does not support, and what these return
  would need induction over data.

## Not modelled

* Boot (`entry.S`, `start.c`, `main.c`), the registers of the PLIC, and the set-up of
  UART and disk: straight-line code with one thread of control.
* The kernel's own page table: it does not change after boot.
* The dispatch table of system calls, and the format loops of `printf`.
* `find`, `xargs`, `grep` and the other small programs: sequential string
  handling. `pingpong` sends one byte each way over two pipes.
* The user tests: they exercise the system and add no state.
* `ramdisk.c` is not built.

Simplifications to keep in mind: disk writes are atomic per block; a process has
one outstanding disk request; `FsTree` does not run out of inodes and has no disk
failures or crashes (`Log` has); `Memory` has one CPU inside a call at a time,
because calls share only the free list.

## Plan

1. Proofs: `RefsExact` in `FileTable`, `DescriptorsConserved` in `Virtio`, the
   refinement of `LineDiscipline` by `Console`.
2. Composition: `FileData` on top of `Log` and `BufCache`, with crashes.
3. `grep`'s matcher as a recursive operator against a definition of matching.
