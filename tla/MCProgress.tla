---------------------------- MODULE MCProgress ------------------------------
(***************************************************************************)
(* What must eventually happen in the kernel, for TLC: the sleep-lock, the *)
(* log, a pipe, the disk driver or the UART driver under fair scheduling.  *)
(* An initial state chooses a part, and the behaviour is that part's       *)
(* alone.  The variables of the other parts are Off; those of the          *)
(* sleep-lock keep their initial values.                                   *)
(***************************************************************************)
EXTENDS SleepLock

CONSTANTS p1, p2, p3, b1, x, NoProc, NoBlock, NotCached,
          Intr, Printer, Nobody, Sync, Off

VARIABLES part, loc, left, panicked,                                \* loc is the pc of the others
  bp, wrote, lh, outstanding, committing, tail, cache, refcnt, head,
  dlog, home, boot, reinstalled, crashes,                           \* the log
  lock, data, nread, nwrite, readopen, writeopen, freed, killed, fd, ch, eof, deserted,  \* a pipe
  free, chain, info, status, avail, availIdx, used, usedId, used_idx, busy, seen, inflight, done, isr, intr,  \* the disk
  conslock, txlock, buf, uart_tx_w, uart_tx_r, c, fifo, wire, irq   \* the UART

log    == <<bp, wrote, lh, outstanding, committing, tail, cache, refcnt, head, dlog, home, boot, reinstalled, crashes>>
pipe   == <<lock, data, nread, nwrite, readopen, writeopen, freed, killed, fd, ch, eof, deserted>>
virtio == <<free, chain, info, status, avail, availIdx, used, usedId, used_idx, busy, seen, inflight, done, isr, intr>>
uart   == <<conslock, txlock, buf, uart_tx_w, uart_tx_r, c, fifo, wire, irq>>
all    == <<part, vars, loc, left, panicked, log, pipe, virtio, uart>>
-----------------------------------------------------------------------------
One == {p1}
Two == {p1, p2}
Three == {p1, p2, p3}
X == {x}

\* Room for two calls at a time and three processes; no crash.
Blocks == {b1}
L == INSTANCE Log
       WITH Proc <- Three, Block <- Blocks, Val <- X, Zero <- x, MAXOPBLOCKS <- 2, LOGSIZE <- 4, size <- 4,
            OpBlocks <- 1, UintMax <- 7, MaxCrashes <- 0, pc <- loc

\* A ring of one byte; one of the processes may be killed.
P == INSTANCE Pipe
       WITH Proc <- Two, Byte <- X, PIPESIZE <- 1, UintMod <- 2, MaxN <- 1, Victims <- One, pc <- loc

\* Three processes and room for two requests, one descriptor left over.
V == INSTANCE Virtio WITH Proc <- Three, NUM <- 7, RingMod <- 7, Statuses <- {0}, pc <- loc
ASSUME V!ConstantsOK

\* One writer, echo and printf.
U == INSTANCE Uart WITH Proc <- One, Char <- X, UART_TX_BUF_SIZE <- 3, FIFO <- 2, MaxN <- 3, pc <- loc
-----------------------------------------------------------------------------
NoLog ==
  /\ bp = Off /\ wrote = Off /\ lh = Off /\ outstanding = Off /\ committing = Off /\ tail = Off /\ cache = Off
  /\ refcnt = Off /\ head = Off /\ dlog = Off /\ home = Off /\ boot = Off /\ reinstalled = Off /\ crashes = Off
NoPipe ==
  /\ lock = Off /\ data = Off /\ nread = Off /\ nwrite = Off /\ readopen = Off /\ writeopen = Off /\ freed = Off
  /\ killed = Off /\ fd = Off /\ ch = Off /\ eof = Off /\ deserted = Off
NoVirtio ==
  /\ free = Off /\ chain = Off /\ info = Off /\ status = Off /\ avail = Off /\ availIdx = Off /\ used = Off /\ usedId = Off
  /\ used_idx = Off /\ busy = Off /\ seen = Off /\ inflight = Off /\ done = Off /\ isr = Off /\ intr = Off
NoUart ==
  /\ conslock = Off /\ txlock = Off /\ buf = Off /\ uart_tx_w = Off /\ uart_tx_r = Off
  /\ c = Off /\ fifo = Off /\ wire = Off /\ irq = Off

AnyInit ==
  /\ part \in {"sleeplock", "log", "pipe", "disk", "uart"}
  /\ Init
  /\ IF part = "log" THEN L!Init ELSE NoLog
  /\ IF part = "pipe" THEN P!Init ELSE NoPipe
  /\ IF part = "disk" THEN V!Init ELSE NoVirtio
  /\ IF part = "uart" THEN U!Init ELSE NoUart
  /\ part # "sleeplock" \/ loc = Off
  /\ part \in {"pipe", "uart"} \/ left = Off
  /\ part \in {"log", "uart"} \/ panicked = Off

\* A step of a part: what it leaves alone.
NoOther == UNCHANGED <<part, loc, left, panicked, log, pipe, virtio, uart>>
Log_  == part = "log"  /\ UNCHANGED <<part, vars, left, pipe, virtio, uart>>
Pipe_ == part = "pipe" /\ UNCHANGED <<part, vars, panicked, log, virtio, uart>>
Disk_ == part = "disk" /\ UNCHANGED <<part, vars, left, panicked, log, pipe, uart>>
Uart_ == part = "uart" /\ UNCHANGED <<part, vars, log, pipe, virtio>>

AnyNext ==
  \/ part = "sleeplock" /\ Next /\ NoOther
  \/ Log_  /\ L!Next
  \/ Pipe_ /\ P!Next
  \/ Disk_ /\ V!Next
  \/ Uart_ /\ U!Next
-----------------------------------------------------------------------------
\* The k-th process, or actor, of a part moves on although others come
\* between: a spinlock goes to everyone who spins for it, holders release
\* what they hold, a call makes finitely many log_writes before end_op.
Who(k) == <<p1, p2, p3>>[k]
Moves(k) ==
  \/ part = "sleeplock" /\ Step(k) /\ UNCHANGED <<loc, left>>
  \/ part = "log" /\ L!EndOp(Who(k)) /\ UNCHANGED <<pc, i, left>>
  \/ part = "pipe" /\ k <= 2 /\ P!Step(Who(k)) /\ UNCHANGED <<pc, i>>
  \/ /\ part = "disk" /\ UNCHANGED <<pc, i, left>>
     /\ V!Return(Who(k)) \/ (loc[Who(k)] = "retry" /\ V!Submit(Who(k)))
  \/ part = "uart" /\ U!Step(<<p1, Intr, Printer>>[k]) /\ UNCHANGED <<pc, i>>
moved == <<pc, i, loc, left>>

\* What only has to be able to run: a call in the log, and the device on the
\* request of a process; recovery, the disk's interrupt, and the UART.
Runs(k) ==
  \/ part = "log" /\ L!CallStep(Who(k)) /\ UNCHANGED <<seen, inflight>>
  \/ /\ part = "disk" /\ UNCHANGED tail
     /\ \/ info[avail[seen]] = Who(k) /\ V!DevTake
        \/ \E d \in inflight : info[d] = Who(k) /\ V!DevFinish(d, 0)
run == <<loc, tail, seen, inflight>>

Works ==
  \/ part = "log" /\ L!Recover /\ UNCHANGED <<intr, used_idx, fifo>>
  \/ part = "disk" /\ V!Handler /\ UNCHANGED <<boot, tail, fifo>>
  \/ part = "uart" /\ U!Transmit /\ UNCHANGED <<boot, tail, intr, used_idx>>
worked == <<boot, tail, intr, used_idx, fifo>>

FairProgress ==
  /\ AnyInit /\ [][AnyNext]_all
  /\ \A k \in 1..3 : SF_moved(Moves(k)) /\ WF_run(Runs(k))
  /\ WF_worked(Works)
-----------------------------------------------------------------------------
(* The processes of a part are alike, and so are the places of the UART's  *)
(* ring: what is said of one holds of each.                                *)

\* begin_op never sleeps for ever.
LogSleeperWakes ==
  (part = "log" /\ loc[p1] = "sleeping") ~> (part = "log" /\ loc[p1] # "sleeping")

\* A piperead or pipewrite whose other end is closed, before it slept or while
\* it sleeps, returns (pipeclose).
CloseWakes ==
  (part = "pipe" /\ P!OtherEndClosed(p1)) ~> (part = "pipe" /\ loc[p1] = "user")

\* A request of virtio_disk_rw whose completion the acknowledgement in
\* virtio_disk_intr swallowed is served by the next interrupt, if there is one.
ServedByLaterInterrupts ==
  []<>(part = "disk" /\ intr = "ack") =>
    ((part = "disk" /\ loc[p1] = "wait") ~> (part = "disk" /\ loc[p1] = "idle"))

\* A character in the transmit buffer is handed to the UART, unless echo or
\* printf keep it busy for ever (uartstart, uartintr).
BufferedIsSent ==
  <>[](part = "uart" /\ conslock # Intr /\ loc[Printer] = "user") =>
    ((part = "uart" /\ uart_tx_r = 0 /\ uart_tx_w # 0) ~> (part = "uart" /\ (uart_tx_r # 0 \/ panicked)))
=============================================================================
