----------------------------- MODULE Interrupts -----------------------------
(***************************************************************************)
(* Spinlocks, interrupts and context switches: kernel/spinlock.c, sched,   *)
(* yield, forkret and the scheduler loop of kernel/proc.c, and kernel/     *)
(* trap.c.  Each CPU runs one context, a process's kernel thread or its    *)
(* own scheduler; a thread that is switched out may come back on another   *)
(* CPU.  A lock is the CPU that holds it, as lk->cpu, or None.             *)
(***************************************************************************)
EXTENDS Integers, FiniteSets

CONSTANTS Cpu, Thread, None,
          ConsLock,   \* cons.lock, as any lock taken first, by handlers too
          UartLock    \* uart_tx_lock: consolewrite takes it inside cons.lock

Idle(c) == <<"scheduler", c>>
Ctx == Thread \cup {Idle(c) : c \in Cpu}
Lock == Thread \cup {ConsLock, UartLock}       \* p->lock is the thread

ConstantsOK ==
  /\ None \notin Cpu \cup Lock /\ ConsLock # UartLock
  /\ {ConsLock, UartLock} \cap Thread = {} /\ \A c \in Cpu : Idle(c) \notin Lock

VARIABLES
  lk,      \* the locks
  cpu,     \* noff, intena; intr, stvec: the registers; on: the context
  th,      \* contexts: mode, trap (in an interrupt handler), held, want (the lock
           \* acquire spins for), sleep (lk, in sleep), out (in sched), intena
  panic    \* a check outside sched has failed

vars == <<lk, cpu, th, panic>>

On(c) == th[cpu[c].on]
Modes == {"new", "forkret", "user", "kernel", "leaving", "scheduler", "panicked"}
InKernel(c) == On(c).trap \/ On(c).mode \in {"kernel", "forkret"}
-----------------------------------------------------------------------------
PushOff(k) ==
  [k EXCEPT !.intr = FALSE, !.intena = IF k.noff = 0 THEN k.intr ELSE @, !.noff = @ + 1]
PopOff(k) == [k EXCEPT !.noff = @ - 1, !.intr = k.noff = 1 /\ k.intena]

\* May the context running on c call acquire(l)?  cons.lock, and the locks
\* like it, come first, uart_tx_lock may come inside one; wakeup takes every
\* p->lock under them, in handlers too; exit and wait hold other p->locks when
\* they take their own or a child's; the scheduler takes one at a time.
Takes(c, l) ==
  LET t == cpu[c].on
      H == On(c).held
  IN
  /\ On(c).want = None /\ On(c).sleep = None
  /\ \/ InKernel(c) /\ l = ConsLock /\ H = {}
     \/ InKernel(c) /\ l = UartLock /\ H \subseteq (IF On(c).trap THEN {} ELSE {ConsLock})
     \/ InKernel(c) /\ l \in Thread /\ H \subseteq {ConsLock, UartLock}
     \/ InKernel(c) /\ ~On(c).trap /\ l \in Thread \ H /\ H \subseteq Thread /\ (l = t \/ t \in H)
     \/ t = Idle(c) /\ ~On(c).trap /\ l \in Thread /\ H = {}

\* acquire, up to the swap; k is the lock sleep was called with, if it is sleep.
Spin(c, l, k) ==
  /\ cpu' = [cpu EXCEPT ![c] = PushOff(@)]
  /\ th' = [th EXCEPT ![cpu[c].on].want = l, ![cpu[c].on].sleep = k]
  /\ panic' = (panic \/ lk[l] = c)
  /\ UNCHANGED lk

Acquire(c, l) == Takes(c, l) /\ Spin(c, l, None)

\* sleep(chan, k), called with the lock taken last: it takes p->lock, then
\* Release(k) and Sched; afterwards it releases p->lock and acquires k again.
Sleep(c, k) ==
  LET H == On(c).held IN
  /\ cpu[c].on \in Thread /\ InKernel(c) /\ ~On(c).trap /\ On(c).want = None /\ On(c).sleep = None
  /\ k \in H /\ H \subseteq {ConsLock, UartLock} /\ (UartLock \in H => k = UartLock)
  /\ Spin(c, cpu[c].on, k)

\* ... and the swap that finds the lock free.
Swap(l) == lk[l] = None

TestAndSet(c) ==
  LET l == On(c).want IN
  /\ l # None /\ Swap(l)
  /\ lk' = [lk EXCEPT ![l] = c]
  /\ th' = [th EXCEPT ![cpu[c].on].want = None, ![cpu[c].on].held = @ \cup {l}]
  /\ UNCHANGED <<cpu, panic>>

Release(c, l) ==
  LET t == cpu[c].on IN
  /\ l \in On(c).held /\ On(c).want = None /\ (On(c).sleep # None => l = On(c).sleep)
  /\ panic' = (panic \/ lk[l] # c \/ cpu[c].intr \/ cpu[c].noff < 1)
  /\ lk' = [lk EXCEPT ![l] = None]
  /\ cpu' = [cpu EXCEPT ![c] = PopOff(@)]
  /\ th' = [th EXCEPT ![t].held = @ \ {l}]

\* Called by yield, exit and wait with p->lock only, by sleep with what it was
\* called with but for its lock.
CallsSched(c) ==
  LET t == cpu[c].on IN
  /\ t \in Thread /\ On(c).mode # "panicked" /\ On(c).want = None
  /\ t \in On(c).held
  /\ IF On(c).sleep = None THEN On(c).held = {t} ELSE On(c).sleep \notin On(c).held

\* sched: the scheduler comes back from swtch with p->lock held.
Sched(c) ==
  LET t == cpu[c].on IN
  /\ CallsSched(c)
  /\ IF lk[t] # c \/ cpu[c].noff # 1 \/ cpu[c].intr
     THEN /\ th' = [th EXCEPT ![t].mode = "panicked"]
          /\ UNCHANGED cpu
     ELSE /\ th' = [th EXCEPT ![t].held = {}, ![t].sleep = None, ![t].out = TRUE,
                              ![t].intena = cpu[c].intena, ![Idle(c)].held = {t}]
          /\ cpu' = [cpu EXCEPT ![c].on = Idle(c)]
  /\ UNCHANGED <<lk, panic>>

Restored_not(c, t) == cpu[c].intena
\* intena after swtch: sched puts back its own, forkret has none.
Restored(c, t) == IF th[t].mode = "new" THEN cpu[c].intena ELSE th[t].intena

\* The scheduler, with p->lock, switches to a RUNNABLE process.
Dispatch(c, t) ==
  /\ cpu[c].on = Idle(c) /\ ~On(c).trap /\ On(c).want = None
  /\ On(c).held = {t} /\ th[t].out
  /\ th' = [th EXCEPT ![Idle(c)].held = {}, ![t].held = {t}, ![t].out = FALSE,
                      ![t].mode = IF @ = "new" THEN "forkret" ELSE @]
  /\ cpu' = [cpu EXCEPT ![c].on = t, ![c].intena = Restored(c, t)]
  /\ UNCHANGED <<lk, panic>>

\* The top of the scheduler's loop.
IntrOn(c) ==
  /\ cpu[c].on = Idle(c) /\ On(c).held = {} /\ On(c).want = None /\ ~On(c).trap
  /\ ~cpu[c].intr
  /\ cpu' = [cpu EXCEPT ![c].intr = TRUE]
  /\ UNCHANGED <<lk, th, panic>>
-----------------------------------------------------------------------------
\* A system call: usertrap turns interrupts on once stvec is kernelvec.
Syscall(c) ==
  /\ On(c).mode = "user" /\ ~On(c).trap
  /\ cpu' = [cpu EXCEPT ![c].stvec = "kernelvec", ![c].intr = TRUE]
  /\ th' = [th EXCEPT ![cpu[c].on].mode = "kernel"]
  /\ panic' = (panic \/ cpu[c].stvec # "uservec")
  /\ UNCHANGED lk

\* An interrupt: the hardware turns interrupts off; from user mode usertrap
\* sets stvec, from the kernel kerneltrap runs on the same stack.
Interrupt(c) ==
  /\ cpu[c].intr
  /\ th' = [th EXCEPT ![cpu[c].on].trap = TRUE]
  /\ cpu' = [cpu EXCEPT ![c].intr = FALSE, ![c].stvec = "kernelvec"]
  /\ panic' = (panic \/ cpu[c].stvec # IF On(c).mode = "user" THEN "uservec" ELSE "kernelvec")
  /\ UNCHANGED lk

InHandler(c) == On(c).trap /\ On(c).held = {} /\ On(c).want = None

\* kerneltrap returns: sret turns interrupts on again.
KernelTrapRet(c) ==
  /\ InHandler(c) /\ On(c).mode # "user"
  /\ cpu' = [cpu EXCEPT ![c].intr = TRUE]
  /\ th' = [th EXCEPT ![cpu[c].on].trap = FALSE]
  /\ UNCHANGED <<lk, panic>>

Leaving(k) == [k EXCEPT !.intr = FALSE, !.stvec = "uservec"]

\* usertrapret, after a system call, an interrupt or forkret: interrupts are
\* off from before stvec is set ...
UserTrapRet(c) ==
  LET t == cpu[c].on IN
  /\ t \in Thread /\ On(c).held = {} /\ On(c).want = None
  /\ \/ On(c).mode \in {"kernel", "forkret"} /\ ~On(c).trap
     \/ On(c).mode = "user" /\ On(c).trap
  /\ cpu' = [cpu EXCEPT ![c] = Leaving(@)]
  /\ th' = [th EXCEPT ![t].mode = "leaving", ![t].trap = FALSE]
  /\ UNCHANGED <<lk, panic>>

\* ... until userret's sret.
Sret(c) ==
  /\ On(c).mode = "leaving"
  /\ cpu' = [cpu EXCEPT ![c].intr = TRUE]
  /\ th' = [th EXCEPT ![cpu[c].on].mode = "user"]
  /\ UNCHANGED <<lk, panic>>

Init ==
  /\ lk = [l \in Lock |-> None]
  /\ cpu = [c \in Cpu |-> [noff |-> 0, intena |-> FALSE, intr |-> FALSE,
                           stvec |-> "kernelvec", on |-> Idle(c)]]
  /\ th = [t \in Ctx |-> [mode |-> IF t \in Thread THEN "new" ELSE "scheduler", trap |-> FALSE,
                          held |-> {}, want |-> None, sleep |-> None,
                          out |-> t \in Thread, intena |-> FALSE]]
  /\ panic = FALSE

Next ==
  \E c \in Cpu :
    \/ \E l \in Lock : Acquire(c, l) \/ Sleep(c, l) \/ Release(c, l)
    \/ TestAndSet(c) \/ Sched(c) \/ IntrOn(c)
    \/ \E t \in Thread : Dispatch(c, t)
    \/ Syscall(c) \/ Interrupt(c) \/ KernelTrapRet(c) \/ UserTrapRet(c) \/ Sret(c)

Spec == Init /\ [][Next]_vars
-----------------------------------------------------------------------------
TypeOK ==
  /\ lk \in [Lock -> Cpu \cup {None}]
  /\ \A c \in Cpu : cpu[c].noff \in Nat /\ cpu[c].on \in Thread \cup {Idle(c)}
  /\ \A t \in Ctx : th[t].mode \in Modes

\* A lock has one holder, which runs on the CPU that lk->cpu names: p->lock
\* included, which is taken by one context and released by another.
OneHolder ==
  \A l \in Lock :
    /\ Cardinality({t \in Ctx : l \in th[t].held}) = (IF lk[l] = None THEN 0 ELSE 1)
    /\ \A c \in Cpu : lk[l] = c <=> l \in On(c).held

\* Nothing that runs with a lock can be interrupted, so a handler never
\* spins on a lock of the code it interrupted; none of the checks in
\* acquire, release, pop_off and the trap handlers fires.
LocksMaskInterrupts ==
  /\ ~panic
  /\ \A c \in Cpu :
       /\ cpu[c].noff = Cardinality(On(c).held) + (IF On(c).want = None THEN 0 ELSE 1)
       /\ cpu[c].noff > 0 => ~cpu[c].intr

\* A handler keeps interrupts off until it returns, even if it yields and
\* comes back on another CPU: its saved sepc and sstatus are not overwritten.
HandlerStaysOff == \A c \in Cpu : On(c).trap => ~cpu[c].intr

\* A system call that holds no lock has interrupts on, wherever it was
\* switched to while it slept: intena belongs to the thread, not the CPU.
InterruptsComeBack ==
  \A c \in Cpu : On(c).mode = "kernel" /\ ~On(c).trap /\ On(c).held = {} /\ On(c).want = None
                   => cpu[c].intr

\* sched "must hold only p->lock", and so it does, but for one caller: when
\* the buffer of the UART is full, uartputc sleeps under the cons.lock of
\* consolewrite, and sched panics.  No other check of sched ever fails.
OnlyConsoleWritePanics ==
  \A t \in Ctx : th[t].mode = "panicked" => th[t].sleep = UartLock /\ th[t].held = {t, ConsLock}

\* What spinlocks and sched promise.
LocksRight ==
  /\ TypeOK /\ OneHolder /\ LocksMaskInterrupts /\ HandlerStaysOff /\ InterruptsComeBack
  /\ OnlyConsoleWritePanics
-----------------------------------------------------------------------------
(***************************************************************************)
(* The inductive invariant: what the registers of a CPU say of the context *)
(* it runs, what a switched-out thread must have saved for the next CPU,   *)
(* and that lk->cpu names the CPU whose context holds the lock.            *)
(***************************************************************************)
\* A CPU with fields k runs a context x.  With a lock, or in a handler, or on
\* the way out, interrupts are off; intena is what the outermost acquire
\* found: off in a handler, on in a system call.
RunsWell(k, x) ==
  /\ k.noff = Cardinality(x.held) + (IF x.want = None THEN 0 ELSE 1)
  /\ k.noff > 0 \/ x.trap \/ x.mode = "leaving" => ~k.intr
  /\ k.noff > 0 => x.trap \/ x.mode \in {"kernel", "forkret", "scheduler", "panicked"}
  /\ k.noff > 0 /\ x.trap => ~k.intena
  /\ x.mode = "kernel" /\ ~x.trap => IF k.noff = 0 THEN k.intr ELSE k.intena
  /\ x.mode # "new" /\ (x.trap => x.mode \notin {"leaving", "panicked"})
  /\ k.stvec = IF x.mode = "leaving" \/ (x.mode = "user" /\ ~x.trap) THEN "uservec" ELSE "kernelvec"

\* acquire spins for a lock the context does not have.
HeldWell(x) == IsFiniteSet(x.held) /\ (x.want # None => x.want \in Lock \ x.held)

\* What sleep holds until sched: p->lock, and what its caller held.
SleepWell(t, x) ==
  /\ x.sleep # None =>
       /\ t \in Thread /\ ~x.trap /\ x.mode \in {"kernel", "forkret", "panicked"}
       /\ x.sleep \in {ConsLock, UartLock} /\ x.held \subseteq {t, ConsLock, UartLock}
       /\ x.sleep = ConsLock => UartLock \notin x.held
       /\ IF t \in x.held THEN x.want = None ELSE x.want = t
  /\ x.mode = "panicked" => x.sleep = UartLock /\ x.held = {t, ConsLock}

\* A thread in sched holds no lock and has saved its intena.
Parked(x) ==
  /\ x.held = {} /\ x.want = None /\ x.sleep = None
  /\ x.mode \in {"new", "kernel", "forkret"} \/ (x.mode = "user" /\ x.trap)
  /\ x.trap => ~x.intena /\ x.mode # "new"
  /\ x.mode = "kernel" /\ ~x.trap => x.intena

\* A context that runs is not in sched.
SwitchWell(t, x) ==
  /\ t \in Thread => ~x.out
  /\ x.mode = "scheduler" <=> t \notin Thread

CpuInv ==
  /\ ~panic
  /\ \A c \in Cpu :
       /\ RunsWell(cpu[c], On(c)) /\ HeldWell(On(c))
       /\ SleepWell(cpu[c].on, On(c)) /\ SwitchWell(cpu[c].on, On(c))
       /\ \A l \in Lock : lk[l] = c <=> l \in On(c).held
       /\ \A d \in Cpu : c # d => cpu[c].on # cpu[d].on

ParkedInv ==
  /\ \A t \in Thread : (\A c \in Cpu : cpu[c].on # t) => Parked(th[t])
  /\ \A c \in Cpu : LET x == th[Idle(c)] IN
       /\ x.mode = "scheduler"
       /\ cpu[c].on # Idle(c) => x.held = {} /\ x.want = None /\ x.sleep = None /\ ~x.trap

SwitchInv == CpuInv /\ ParkedInv
=============================================================================
