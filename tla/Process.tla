------------------------------ MODULE Process -------------------------------
(***************************************************************************)
(* The process table of kernel/proc.c: fork, exit, wait, kill and the      *)
(* scheduler, at the granularity of the p->lock spinlocks.                 *)
(*                                                                         *)
(* A CPU runs its scheduler (cpu[c] = 0) or the kernel thread of a slot.   *)
(* A critical section under a single lock is one action; exit and wait,    *)
(* which nest locks and read p->parent without one, take a step per        *)
(* acquire and per iteration.  A CPU that wants a held lock spins: its     *)
(* action is disabled.                                                     *)
(***************************************************************************)
EXTENDS Naturals, Sequences

CONSTANTS Cpu,        \* the harts
          NPROC,      \* slots of proc[]
          Parents,    \* the processes at the start: Parents[s] is the parent of s
          MaxPid,     \* bound: allocpid hands out pids up to this one
          KillPids,   \* arguments of kill()
          KallocFails \* whether the page for the trapframe may be missing

ASSUME ProcessConstants ==
  /\ NPROC \in Nat \ {0}
  /\ Parents \in Seq(Nat) /\ Len(Parents) \in 1..NPROC /\ Parents[1] = 0
  /\ \A s \in 2..Len(Parents) : Parents[s] \in 1..s - 1
  /\ MaxPid \in Nat /\ MaxPid >= Len(Parents)
  /\ KillPids \subseteq Nat
  /\ KallocFails \in BOOLEAN
  /\ 0 \notin Cpu

Slot == 1..NPROC

\* userinit takes the first slot.
initproc == 1

VARIABLES
  proc,      \* proc[s]: state, parent, chan, killed and pid of slot s
  lock,      \* lock[s]: the CPU that holds proc[s].lock, or 0
  cpu,       \* cpu[c]: the slot whose kernel stack CPU c is on, or 0
  pc,        \* pc[s]: where the thread of s is in the kernel
  np,        \* np[s]: loop variable of wait and reparent
  havekids,  \* local variable of wait
  orig,      \* original_parent of exit, or 0
  nextpid

local == <<pc, np, havekids, orig>>
vars  == <<proc, lock, cpu, local, nextpid>>

Unused == [state |-> "UNUSED", parent |-> 0, chan |-> 0, killed |-> FALSE, pid |-> 0]
-----------------------------------------------------------------------------
(* Locks, the scheduler and the timer.                                     *)

\* CPU c executes the thread of p, which has not called sched().
Runs(c, p) == p # 0 /\ cpu[c] = p /\ proc[p].state = "RUNNING"

Free(s) == lock[s] = 0

Acquire(c, s) == Free(s) /\ lock' = [lock EXCEPT ![s] = c]

\* wakeup1(p): p sleeps in wait() on its own address.
Wakeup1_lost(r, p) == r

Wakeup1(r, p) ==
  IF r.chan = p /\ r.state = "SLEEPING" THEN [r EXCEPT !.state = "RUNNABLE"] ELSE r

Dispatch_unlocked(c, p) ==
  /\ cpu[c] = 0
  /\ proc[p].state = "RUNNABLE"
  /\ cpu' = [cpu EXCEPT ![c] = p]
  /\ proc' = [proc EXCEPT ![p].state = "RUNNING", ![p].chan = 0]
  /\ lock' = [lock EXCEPT ![p] = IF pc[p] = "wait_sleep" THEN c ELSE @]
  /\ pc' = [pc EXCEPT ![p] = IF @ = "wait_sleep" THEN "wait_scan" ELSE @]
  /\ UNCHANGED <<np, havekids, orig, nextpid>>

\* scheduler() finds p RUNNABLE under p->lock and switches to it.  forkret
\* and yield then release the lock.  sleep clears p->chan and, called from
\* wait with p->lock itself, keeps it.
Dispatch(c, p) ==
  /\ cpu[c] = 0
  /\ Free(p)
  /\ proc[p].state = "RUNNABLE"
  /\ cpu' = [cpu EXCEPT ![c] = p]
  /\ proc' = [proc EXCEPT ![p].state = "RUNNING", ![p].chan = 0]
  /\ lock' = [lock EXCEPT ![p] = IF pc[p] = "wait_sleep" THEN c ELSE 0]
  /\ pc' = [pc EXCEPT ![p] = IF @ = "wait_sleep" THEN "wait_scan" ELSE @]
  /\ UNCHANGED <<np, havekids, orig, nextpid>>

\* sched() leaves the stack of p; the scheduler then releases p->lock.
Sched(c, p) ==
  /\ p # 0 /\ cpu[c] = p /\ proc[p].state # "RUNNING"
  /\ cpu' = [cpu EXCEPT ![c] = 0]
  /\ lock' = [lock EXCEPT ![p] = 0]
  /\ UNCHANGED <<proc, local, nextpid>>

\* A timer interrupt: the CPU holds no lock, or interrupts would be off.
Yield(c, p) ==
  /\ Runs(c, p)
  /\ \A s \in Slot : lock[s] # c
  /\ Acquire(c, p)
  /\ proc' = [proc EXCEPT ![p].state = "RUNNABLE"]
  /\ UNCHANGED <<cpu, local, nextpid>>
-----------------------------------------------------------------------------
(* fork and kill.                                                          *)

\* usertrap lets a process into a system call if it was not killed before.
Syscall(c, p) == Runs(c, p) /\ pc[p] = "user" /\ ~proc[p].killed

\* allocproc and fork fill slot s.  p->killed is not among what they set.
Child(p, s) ==
  [proc[s] EXCEPT !.state = "RUNNABLE", !.parent = p, !.pid = nextpid]

freeproc_keeps_parent(r) == [Unused EXCEPT !.parent = r.parent]

freeproc(r) == Unused

\* The child's slot is locked from allocproc to the end of fork.  Without a
\* trapframe allocproc just returns, and the slot keeps the pid; when the
\* memory cannot be copied, freeproc clears it.
Fork(c, p, s) ==
  /\ Syscall(c, p)
  /\ Free(s) /\ proc[s].state = "UNUSED"
  /\ nextpid <= MaxPid
  /\ nextpid' = nextpid + 1
  /\ \/ proc' = [proc EXCEPT ![s] = Child(p, s)]
     \/ proc' = [proc EXCEPT ![s] = freeproc(proc[s])]
     \/ KallocFails /\ proc' = [proc EXCEPT ![s].pid = nextpid]
  /\ UNCHANGED <<lock, cpu, local>>

Kill_leaves_asleep(c, p, s, n) ==
  /\ Syscall(c, p)
  /\ Free(s) /\ proc[s].pid = n
  /\ proc' = [proc EXCEPT ![s].killed = TRUE]
  /\ UNCHANGED <<lock, cpu, local, nextpid>>

\* kill(n) goes by the pid alone, whatever the state of the slot.
Kill(c, p, s, n) ==
  /\ Syscall(c, p)
  /\ Free(s) /\ proc[s].pid = n
  /\ proc' = [proc EXCEPT ![s].killed = TRUE,
                          ![s].state = IF @ = "SLEEPING" THEN "RUNNABLE" ELSE @]
  /\ UNCHANGED <<lock, cpu, local, nextpid>>
-----------------------------------------------------------------------------
(* exit.                                                                   *)

\* The exit system call, or usertrap finding p->killed set.  init would
\* panic here.  Closing the files belongs to the file table.
Exit(c, p) ==
  /\ Runs(c, p) /\ pc[p] = "user" /\ p # initproc
  /\ pc' = [pc EXCEPT ![p] = "exit"]
  /\ UNCHANGED <<proc, lock, cpu, np, havekids, orig, nextpid>>

ExitWakeInit(c, p) ==
  /\ Runs(c, p) /\ pc[p] = "exit"
  /\ Free(initproc)
  /\ proc' = [proc EXCEPT ![initproc] = Wakeup1(@, initproc)]
  /\ pc' = [pc EXCEPT ![p] = "exit_parent"]
  /\ UNCHANGED <<lock, cpu, np, havekids, orig, nextpid>>

ExitReadParent(c, p) ==
  /\ Runs(c, p) /\ pc[p] = "exit_parent"
  /\ Free(p)
  /\ orig' = [orig EXCEPT ![p] = proc[p].parent]
  /\ pc' = [pc EXCEPT ![p] = "lock_parent"]
  /\ UNCHANGED <<proc, lock, cpu, np, havekids, nextpid>>

ExitLockParent(c, p) ==
  /\ Runs(c, p) /\ pc[p] = "lock_parent"
  /\ Acquire(c, orig[p])
  /\ pc' = [pc EXCEPT ![p] = "lock_self"]
  /\ UNCHANGED <<proc, cpu, np, havekids, orig, nextpid>>

ExitLockSelf(c, p) ==
  /\ Runs(c, p) /\ pc[p] = "lock_self"
  /\ Acquire(c, p)
  /\ pc' = [pc EXCEPT ![p] = "reparent"]
  /\ np' = [np EXCEPT ![p] = 1]
  /\ UNCHANGED <<proc, cpu, havekids, orig, nextpid>>

ReparentCheck_stops_early(c, p) ==
  /\ Runs(c, p) /\ pc[p] = "reparent" /\ np[p] <= NPROC
  /\ IF proc[np[p]].parent = p /\ np[p] < NPROC
       THEN pc' = [pc EXCEPT ![p] = "reparent_take"] /\ UNCHANGED np
       ELSE np' = [np EXCEPT ![p] = @ + 1] /\ UNCHANGED pc
  /\ UNCHANGED <<proc, lock, cpu, havekids, orig, nextpid>>

\* One test pp->parent == p, made without pp->lock.
ReparentCheck(c, p) ==
  /\ Runs(c, p) /\ pc[p] = "reparent" /\ np[p] <= NPROC
  /\ IF proc[np[p]].parent = p
       THEN pc' = [pc EXCEPT ![p] = "reparent_take"] /\ UNCHANGED np
       ELSE np' = [np EXCEPT ![p] = @ + 1] /\ UNCHANGED pc
  /\ UNCHANGED <<proc, lock, cpu, havekids, orig, nextpid>>

ReparentTake(c, p) ==
  /\ Runs(c, p) /\ pc[p] = "reparent_take"
  /\ Free(np[p])
  /\ proc' = [proc EXCEPT ![np[p]].parent = initproc]
  /\ np' = [np EXCEPT ![p] = @ + 1]
  /\ pc' = [pc EXCEPT ![p] = "reparent"]
  /\ UNCHANGED <<lock, cpu, havekids, orig, nextpid>>

\* wakeup1(original_parent), then ZOMBIE; p->lock stays held for sched().
ExitZombie(c, p) ==
  /\ Runs(c, p) /\ pc[p] = "reparent" /\ np[p] > NPROC
  /\ proc' = [proc EXCEPT ![orig[p]] = Wakeup1(@, orig[p]),
                          ![p].state = "ZOMBIE"]
  /\ lock' = [lock EXCEPT ![orig[p]] = 0]
  /\ pc' = [pc EXCEPT ![p] = "user"]
  /\ np' = [np EXCEPT ![p] = 0]
  /\ orig' = [orig EXCEPT ![p] = 0]
  /\ UNCHANGED <<cpu, havekids, nextpid>>
-----------------------------------------------------------------------------
(* wait.                                                                   *)

Wait(c, p) ==
  /\ Syscall(c, p)
  /\ pc' = [pc EXCEPT ![p] = "wait"]
  /\ UNCHANGED <<proc, lock, cpu, np, havekids, orig, nextpid>>

WaitLock(c, p) ==
  /\ Runs(c, p) /\ pc[p] = "wait"
  /\ Acquire(c, p)
  /\ pc' = [pc EXCEPT ![p] = "wait_scan"]
  /\ UNCHANGED <<proc, cpu, np, havekids, orig, nextpid>>

\* One test np->parent == p, made without np->lock.
WaitCheck(c, p) ==
  /\ Runs(c, p) /\ pc[p] = "wait_scan" /\ np[p] < NPROC
  /\ np' = [np EXCEPT ![p] = @ + 1]
  /\ pc' = [pc EXCEPT ![p] = IF proc[np[p] + 1].parent = p THEN "wait_take" ELSE @]
  /\ UNCHANGED <<proc, lock, cpu, havekids, orig, nextpid>>

\* The end of wait: p->lock is released.
WaitReturn(p) ==
  /\ lock' = [lock EXCEPT ![p] = 0]
  /\ pc' = [pc EXCEPT ![p] = "user"]
  /\ np' = [np EXCEPT ![p] = 0]
  /\ havekids' = [havekids EXCEPT ![p] = FALSE]
  /\ UNCHANGED <<cpu, orig, nextpid>>

\* A zombie is freed, unless copyout fails; init passes a null address.
WaitReap(c, p) ==
  /\ Runs(c, p) /\ pc[p] = "wait_take"
  /\ Free(np[p])
  /\ proc[np[p]].state = "ZOMBIE"
  /\ \/ proc' = [proc EXCEPT ![np[p]] = freeproc(@)]
     \/ p # initproc /\ UNCHANGED proc
  /\ WaitReturn(p)

WaitSkip(c, p) ==
  /\ Runs(c, p) /\ pc[p] = "wait_take"
  /\ Free(np[p])
  /\ proc[np[p]].state # "ZOMBIE"
  /\ havekids' = [havekids EXCEPT ![p] = TRUE]
  /\ pc' = [pc EXCEPT ![p] = "wait_scan"]
  /\ UNCHANGED <<proc, lock, cpu, np, orig, nextpid>>

WaitFails(c, p) ==
  /\ Runs(c, p) /\ pc[p] = "wait_scan" /\ np[p] = NPROC
  /\ ~havekids[p] \/ proc[p].killed
  /\ UNCHANGED proc
  /\ WaitReturn(p)

\* sleep(p, &p->lock): the lock is kept for sched().
WaitSleep(c, p) ==
  /\ Runs(c, p) /\ pc[p] = "wait_scan" /\ np[p] = NPROC
  /\ havekids[p] /\ ~proc[p].killed
  /\ proc' = [proc EXCEPT ![p].chan = p, ![p].state = "SLEEPING"]
  /\ pc' = [pc EXCEPT ![p] = "wait_sleep"]
  /\ np' = [np EXCEPT ![p] = 0]
  /\ havekids' = [havekids EXCEPT ![p] = FALSE]
  /\ UNCHANGED <<lock, cpu, orig, nextpid>>
-----------------------------------------------------------------------------
\* userinit has made init, and the first forks have succeeded: with
\* Parents = <<0>> the system starts with init alone.
Init ==
  /\ proc = [s \in Slot |->
               IF s <= Len(Parents)
                 THEN [Unused EXCEPT !.state = "RUNNABLE", !.parent = Parents[s], !.pid = s]
                 ELSE Unused]
  /\ lock = [s \in Slot |-> 0]
  /\ cpu = [c \in Cpu |-> 0]
  /\ pc = [s \in Slot |-> "user"]
  /\ np = [s \in Slot |-> 0]
  /\ havekids = [s \in Slot |-> FALSE]
  /\ orig = [s \in Slot |-> 0]
  /\ nextpid = Len(Parents) + 1

ExitStep(c, p) ==
  \/ ExitWakeInit(c, p) \/ ExitReadParent(c, p)
  \/ ExitLockParent(c, p) \/ ExitLockSelf(c, p)
  \/ ReparentCheck(c, p) \/ ReparentTake(c, p) \/ ExitZombie(c, p)

WaitStep(c, p) ==
  \/ WaitLock(c, p) \/ WaitCheck(c, p) \/ WaitReap(c, p) \/ WaitSkip(c, p)
  \/ WaitFails(c, p) \/ WaitSleep(c, p)

Next ==
  \E c \in Cpu, p \in Slot :
    \/ Dispatch(c, p) \/ Sched(c, p) \/ Yield(c, p)
    \/ \E s \in Slot : Fork(c, p, s)
    \/ \E s \in Slot, n \in KillPids : Kill(c, p, s, n)
    \/ Exit(c, p) \/ ExitStep(c, p)
    \/ Wait(c, p) \/ WaitStep(c, p)

Spec == Init /\ [][Next]_vars

KernelStep(c, p) ==
  \/ ExitStep(c, p) \/ WaitStep(c, p)
  \/ proc[p].killed /\ Exit(c, p)

\* The timer interrupts every CPU again and again and its scheduler goes
\* round the table, so a RUNNABLE process gets a CPU again and again; a time
\* slice is long enough for a step of the kernel; a spinning CPU gets the
\* lock; a killed process makes a system call or takes an interrupt.
\* init, in its loop, calls wait whenever it has come back from it.
Fairness ==
  /\ \A c \in Cpu : SF_vars(\E p \in Slot : Yield(c, p) \/ Sched(c, p))
  /\ \A p \in Slot : /\ SF_vars(\E c \in Cpu : Dispatch(c, p))
                     /\ SF_vars(\E c \in Cpu : KernelStep(c, p))
  /\ SF_vars(\E c \in Cpu : Wait(c, initproc))

FairSpec == Spec /\ Fairness
-----------------------------------------------------------------------------
(* Properties.                                                             *)

ProcRec == [state : {"UNUSED", "SLEEPING", "RUNNABLE", "RUNNING", "ZOMBIE"},
            parent : Slot \cup {0}, chan : Slot \cup {0},
            killed : BOOLEAN, pid : 0..MaxPid]

Place == {"user", "exit", "exit_parent", "lock_parent", "lock_self", "reparent",
          "reparent_take", "wait", "wait_scan", "wait_take", "wait_sleep"}

TypeOK ==
  /\ proc \in [Slot -> ProcRec]
  /\ lock \in [Slot -> Cpu \cup {0}]
  /\ cpu \in [Cpu -> Slot \cup {0}]
  /\ pc \in [Slot -> Place]
  /\ np \in [Slot -> 0..NPROC + 1]
  /\ havekids \in [Slot -> BOOLEAN]
  /\ orig \in [Slot -> Slot \cup {0}]
  /\ \A s \in Slot : pc[s] \in {"lock_parent", "lock_self"} => orig[s] \in Slot
  /\ nextpid \in 2..MaxPid + 1

\* A kernel stack is used by one CPU at a time, and by none once its slot is
\* free: yield, sleep and exit change p->state while still on the stack, and
\* only p->lock, held across swtch, keeps other CPUs away.
StackExclusive ==
  \A c \in Cpu : cpu[c] # 0 =>
    /\ proc[cpu[c]].state # "UNUSED"
    /\ \A d \in Cpu \ {c} : cpu[d] # cpu[c]

\* reparent and wait test pp->parent without a lock and then acquire it: the
\* parent they saw is still the parent when they come to change or free pp.
ParentStable ==
  \A p \in Slot :
    pc[p] \in {"reparent_take", "wait_take"} => proc[np[p]].parent = p

\* A parent does not sleep in wait() while a child of its own is a zombie:
\* exit makes the zombie and wakes the parent under the parent's lock.
NoLostChild ==
  \A s \in Slot, p \in Slot \ {initproc} :
    proc[p].state = "SLEEPING" /\ proc[s].parent = p => proc[s].state # "ZOMBIE"

\* Every process but init has a parent that can still wait for it: the one
\* pass of reparent over the table, made without the locks of the slots it
\* only looks at, gives away each child before exit makes the zombie.
NoOrphan ==
  \A s \in Slot \ {initproc} :
    proc[s].state # "UNUSED" =>
      /\ proc[s].parent # 0
      /\ proc[proc[s].parent].state \notin {"UNUSED", "ZOMBIE"}

\* A slot nobody uses is not marked killed: fork does not clear the mark, so
\* the next process would be killed at birth.
FreeSlotNotKilled ==
  \A s \in Slot : proc[s].state = "UNUSED" => ~proc[s].killed

\* The lock that CPU c spins on while it may hold others, or 0.
Wants(c) ==
  LET p == cpu[c] IN
  IF p = 0 \/ proc[p].state # "RUNNING" THEN 0
  ELSE CASE pc[p] = "lock_parent" -> orig[p]
         [] pc[p] = "lock_self" -> p
         [] pc[p] \in {"reparent_take", "wait_take"} -> np[p]
         [] OTHER -> 0

\* The locks of proc[] are taken parent first: no two CPUs in exit or wait
\* spin on a lock that the other holds, and none on a lock of its own.
NoLockCycle ==
  \A c, d \in Cpu :
    Wants(c) # 0 /\ Wants(d) # 0 => ~(lock[Wants(c)] = d /\ lock[Wants(d)] = c)

\* A killed process exits, wherever the kill finds it.
KilledDies ==
  \A s \in Slot :
    proc[s].killed /\ proc[s].state \notin {"UNUSED", "ZOMBIE"}
      ~> proc[s].state \in {"UNUSED", "ZOMBIE"}

\* init's wait() returns when it has been given a process that has exited.
OrphanReaped ==
  \A s \in Slot :
    proc[s].state = "ZOMBIE" /\ proc[s].parent = initproc ~> proc[s].state # "ZOMBIE"
-----------------------------------------------------------------------------
(***************************************************************************)
(* The inductive invariant: which locks a place in the kernel holds, what  *)
(* the loops of reparent and wait have seen, and what exit remembers.      *)
(***************************************************************************)
NoLocks    == {"user", "exit", "exit_parent", "lock_parent", "wait"}
InReparent == {"reparent", "reparent_take"}
InScan     == {"wait_scan", "wait_take"}
Exiting    == {"exit", "exit_parent", "lock_parent", "lock_self"} \cup InReparent

\* Where the thread of a slot may be in each p->state; init never exits.
StateInv ==
  /\ proc[initproc].state \notin {"UNUSED", "ZOMBIE"} /\ pc[initproc] \notin Exiting
  /\ \A s \in Slot :
       /\ proc[s].state = "UNUSED" => proc[s].parent = 0
       /\ proc[s].state \in {"UNUSED", "ZOMBIE"} => pc[s] = "user"
       /\ proc[s].state = "SLEEPING" => pc[s] = "wait_sleep" /\ proc[s].chan = s
       /\ proc[s].state = "RUNNABLE" => pc[s] \in NoLocks \cup {"wait_sleep"}
       /\ proc[s].state = "RUNNING" => pc[s] # "wait_sleep" /\ \E c \in Cpu : cpu[c] = s

\* A thread on its way through sched holds p->lock; so does one in the loop of
\* wait; one in reparent holds the parent's too.
HoldInv ==
  \A c \in Cpu : cpu[c] # 0 =>
    LET p == cpu[c] IN
    /\ proc[p].state # "RUNNING" \/ pc[p] \in InScan \cup InReparent => lock[p] = c
    /\ pc[p] \in InReparent \cup {"lock_self"} => lock[orig[p]] = c

\* The slots that reparent has passed are not p's children; the children that
\* wait has passed are not zombies.
ScanInv ==
  \A p \in Slot :
    /\ pc[p] \notin InScan \cup InReparent => np[p] = 0
    /\ pc[p] \in InReparent => np[p] # 0 /\ \A s \in Slot : s < np[p] => proc[s].parent # p
    /\ pc[p] \in InScan /\ p # initproc =>
         \A s \in Slot : proc[s].parent = p /\ (s < np[p] \/ (s = np[p] /\ pc[p] = "wait_scan"))
                          => proc[s].state # "ZOMBIE"
    /\ pc[p] \in InScan => np[p] <= NPROC
    /\ pc[p] \in {"reparent_take", "wait_take"} => np[p] \in Slot

\* original_parent is the parent, unless p has been given to init since.
OrigInv ==
  \A p \in Slot :
    /\ pc[p] \in InReparent \cup {"lock_parent", "lock_self"} =>
         orig[p] \in Slot /\ (orig[p] = proc[p].parent \/ proc[p].parent = initproc)
    /\ pc[p] \in InReparent => orig[p] # p

ProcessInv ==
  /\ TypeOK /\ StateInv /\ HoldInv /\ ScanInv /\ OrigInv
  /\ StackExclusive /\ ParentStable /\ NoLostChild /\ NoOrphan
=============================================================================
