-------------------------------- MODULE Uart --------------------------------
(***************************************************************************)
(* Console output: consolewrite under cons.lock, the transmit buffer of    *)
(* kernel/uart.c under uart_tx_lock, and the paths that bypass the buffer: *)
(* the echo of consoleintr and the kernel's printf, by uartputc_sync.  The *)
(* UART's transmit FIFO and its interrupt are the environment.             *)
(***************************************************************************)
EXTENDS Integers, Sequences

CONSTANTS Proc,      \* processes that write to the console
          Intr,      \* the CPU in uartintr
          Printer,   \* a CPU that prints with printf
          Nobody,
          Char, Sync,        \* written characters; one of uartputc_sync
          UART_TX_BUF_SIZE,  \* 32
          FIFO,              \* bytes the UART can hold (16)
          MaxN               \* longest write

VARIABLES conslock, txlock,
          buf, uart_tx_w, uart_tx_r,
          pc, left,          \* where an actor is, and n - i of a consolewrite
          c,                 \* the character uartstart took from the buffer
          fifo, wire, irq,   \* UART: FIFO, last written character sent, interrupt
          panicked

Actor == Proc \cup {Intr, Printer}
ring  == <<buf, uart_tx_w, uart_tx_r>>
locks == <<conslock, txlock>>
uart  == <<fifo, wire, irq>>
vars  == <<locks, ring, pc, left, c, uart, panicked>>

Goto(a, l) == pc' = [pc EXCEPT ![a] = l]
Next1(i) == (i + 1) % UART_TX_BUF_SIZE
Idle == fifo = <<>>        \* LSR_TX_IDLE
ToFifo(ch) == fifo' = IF Len(fifo) < FIFO THEN Append(fifo, ch) ELSE fifo
-----------------------------------------------------------------------------
(* consolewrite and uartputc.                                              *)

ConsoleWrite(p) ==
  /\ pc[p] = "user" /\ conslock = Nobody
  /\ conslock' = p /\ Goto(p, "char")
  /\ \E n \in 1..MaxN : left' = [left EXCEPT ![p] = n]
  /\ UNCHANGED <<txlock, ring, c, uart, panicked>>

\* All characters are out, or copyin failed.
WriteDone(p) ==
  /\ pc[p] = "char"
  /\ conslock' = Nobody /\ Goto(p, "user")
  /\ UNCHANGED <<txlock, ring, left, c, uart, panicked>>

PutBegin(p) ==
  /\ pc[p] = "char" /\ left[p] > 0 /\ txlock = Nobody
  /\ txlock' = p /\ Goto(p, "put")
  /\ UNCHANGED <<conslock, ring, left, c, uart, panicked>>

Full_never == FALSE
Full == Next1(uart_tx_w) = uart_tx_r

Put(p, ch) ==
  /\ pc[p] = "put" /\ ~panicked /\ ~Full
  /\ buf' = [buf EXCEPT ![uart_tx_w] = ch]
  /\ uart_tx_w' = Next1(uart_tx_w)
  /\ left' = [left EXCEPT ![p] = @ - 1]
  /\ Goto(p, "start")
  /\ UNCHANGED <<locks, uart_tx_r, c, uart, panicked>>

\* cpu->noff of p in sched: its own p->lock, and what it holds besides.
Noff(p) == 1 + (IF conslock = p THEN 1 ELSE 0)

\* sleep(&uart_tx_r, &uart_tx_lock): sched panics if noff is not 1, which
\* it never is here, because consolewrite is the only caller of uartputc.
PutSleep(p) ==
  /\ pc[p] = "put" /\ ~panicked /\ Full
  /\ Noff(p) # 1
  /\ txlock' = Nobody /\ panicked' = TRUE /\ Goto(p, "dead")
  /\ UNCHANGED <<conslock, ring, left, c, uart>>
-----------------------------------------------------------------------------
(* uartstart, with uart_tx_lock held, by uartputc and uartintr.            *)

StartReturns(a) ==
  /\ pc[a] = "start" /\ (uart_tx_w = uart_tx_r \/ ~Idle)
  /\ txlock' = Nobody /\ Goto(a, IF a = Intr THEN "user" ELSE "char")
  /\ UNCHANGED <<conslock, ring, left, c, uart, panicked>>

Take(a, next) ==
  /\ pc[a] = "start" /\ uart_tx_w # uart_tx_r /\ Idle
  /\ c' = <<buf[uart_tx_r]>>
  /\ uart_tx_r' = next
  /\ Goto(a, "send")
  /\ UNCHANGED <<locks, buf, uart_tx_w, left, uart, panicked>>

StartTakes(a) == Take(a, Next1(uart_tx_r))

StartSends(a) ==
  /\ pc[a] = "send"
  /\ ToFifo(c[1]) /\ c' = <<>>
  /\ Goto(a, "start")
  /\ UNCHANGED <<locks, ring, left, wire, irq, panicked>>
-----------------------------------------------------------------------------
(* uartintr, uartputc_sync and the UART.                                   *)

\* An interrupt, with or without input that consoleintr echoes.
IntrEnter ==
  /\ pc[Intr] = "user"
  /\ irq' = FALSE
  /\ \/ irq /\ Goto(Intr, "tx") /\ UNCHANGED conslock
     \/ conslock = Nobody /\ conslock' = Intr /\ Goto(Intr, "sync")
  /\ UNCHANGED <<txlock, ring, left, c, fifo, wire, panicked>>

IntrStart_echo_only ==
  /\ pc[Intr] = "tx"
  /\ Goto(Intr, "user")
  /\ UNCHANGED <<locks, ring, left, c, uart, panicked>>

IntrStart ==
  /\ pc[Intr] = "tx" /\ txlock = Nobody
  /\ txlock' = Intr /\ Goto(Intr, "start")
  /\ UNCHANGED <<conslock, ring, left, c, uart, panicked>>

Printf ==
  /\ pc[Printer] = "user" /\ Goto(Printer, "sync")
  /\ UNCHANGED <<locks, ring, left, c, uart, panicked>>

\* uartputc_sync: the test of LSR and the write are two steps.
SyncReady(a) ==
  /\ pc[a] = "sync" /\ Idle /\ ~panicked
  /\ Goto(a, "out")
  /\ UNCHANGED <<locks, ring, left, c, uart, panicked>>

SyncSends(a) ==
  /\ pc[a] = "out" /\ ToFifo(Sync)
  /\ IF a = Intr THEN conslock' = Nobody /\ Goto(a, "tx")
                 ELSE UNCHANGED conslock /\ Goto(a, "user")
  /\ UNCHANGED <<txlock, ring, left, c, wire, irq, panicked>>

Transmit ==
  /\ fifo # <<>>
  /\ fifo' = Tail(fifo)
  /\ wire' = IF Head(fifo) = Sync THEN wire ELSE Head(fifo)
  /\ irq' = (irq \/ Len(fifo) = 1)
  /\ UNCHANGED <<locks, ring, pc, left, c, panicked>>
-----------------------------------------------------------------------------
Init ==
  /\ conslock = Nobody /\ txlock = Nobody
  /\ buf \in [0..UART_TX_BUF_SIZE - 1 -> Char]
  /\ uart_tx_w = 0 /\ uart_tx_r = 0
  /\ pc = [a \in Actor |-> "user"] /\ left = [p \in Proc |-> 0]
  /\ c = <<>>
  /\ fifo = <<>> /\ wire \in Char /\ irq = FALSE /\ panicked = FALSE

Step(a) ==
  \/ StartReturns(a) \/ StartTakes(a) \/ StartSends(a) \/ SyncReady(a) \/ SyncSends(a)
  \/ a \in Proc /\ (WriteDone(a) \/ PutBegin(a) \/ PutSleep(a) \/ \E ch \in Char : Put(a, ch))
  \/ a = Intr /\ (IntrStart \/ (irq /\ IntrEnter))

Next ==
  \/ Transmit \/ Printf \/ IntrEnter
  \/ \E a \in Actor : Step(a)
  \/ \E p \in Proc : ConsoleWrite(p)

Spec == Init /\ [][Next]_vars
-----------------------------------------------------------------------------
TypeOK ==
  /\ conslock \in Actor \cup {Nobody} /\ txlock \in Actor \cup {Nobody}
  /\ buf \in [0..UART_TX_BUF_SIZE - 1 -> Char]
  /\ {uart_tx_w, uart_tx_r} \subseteq 0..UART_TX_BUF_SIZE - 1
  /\ pc \in [Actor -> {"user", "char", "put", "dead", "start", "send", "tx", "sync", "out"}]
  /\ left \in [Proc -> 0..MaxN]
  /\ c = <<>> \/ \E ch \in Char : c = <<ch>>
  /\ Len(fifo) <= FIFO /\ wire \in Char /\ {irq, panicked} \subseteq BOOLEAN

Buffered ==
  [k \in 1..(uart_tx_w - uart_tx_r) % UART_TX_BUF_SIZE |->
     buf[(uart_tx_r + k - 1) % UART_TX_BUF_SIZE]]

\* What consolewrite has put out and the wire has not carried yet.
Unsent == SelectSeq(fifo, LAMBDA ch : ch # Sync) \o c \o Buffered

=============================================================================
