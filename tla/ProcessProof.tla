---------------------------- MODULE ProcessProof ----------------------------
(***************************************************************************)
(* The process table is safe for any number of slots, CPUs and processes.  *)
(***************************************************************************)
EXTENDS Process, TLAPS

PState == {"UNUSED", "SLEEPING", "RUNNABLE", "RUNNING", "ZOMBIE"}

\* Assigning to a field keeps a struct proc one.
LEMMA RecordTypes ==
  ASSUME NEW r \in ProcRec
  PROVE  /\ \A x \in PState : [r EXCEPT !.state = x] \in ProcRec
         /\ \A x \in Slot \cup {0} : [r EXCEPT !.parent = x] \in ProcRec
         /\ \A x \in Slot \cup {0} : [r EXCEPT !.chan = x] \in ProcRec
         /\ \A x \in 0..MaxPid : [r EXCEPT !.pid = x] \in ProcRec
         /\ [r EXCEPT !.killed = TRUE] \in ProcRec
<1>1. \A x \in PState : [r EXCEPT !.state = x] \in ProcRec
  BY DEF ProcRec, PState
<1>2. \A x \in Slot \cup {0} : [r EXCEPT !.parent = x] \in ProcRec
  BY DEF ProcRec
<1>3. \A x \in Slot \cup {0} : [r EXCEPT !.chan = x] \in ProcRec
  BY DEF ProcRec
<1>4. \A x \in 0..MaxPid : [r EXCEPT !.pid = x] \in ProcRec
  BY DEF ProcRec
<1>5. [r EXCEPT !.killed = TRUE] \in ProcRec
  BY Zenon DEF ProcRec
<1> QED
  BY <1>1, <1>2, <1>3, <1>4, <1>5

\* What the arithmetic needs of the constants.
LEMMA Numbers ==
  /\ NPROC \in Nat /\ initproc \in Slot /\ 0 \notin Slot /\ 0 \notin Cpu
  /\ \A s \in Slot : s \in Nat /\ s <= NPROC
BY ProcessConstants DEF Slot, initproc

\* freeproc leaves a struct proc.
LEMMA FreeprocType == \A r : freeproc(r) \in ProcRec
<1>1. Unused.killed \in BOOLEAN
  BY Zenon DEF Unused
<1> QED
  BY <1>1, ProcessConstants DEF freeproc, Unused, ProcRec

\* wakeup1 wakes a process asleep on the channel and changes nothing else.
LEMMA WakeupRecord ==
  ASSUME NEW r \in ProcRec, NEW q
  PROVE  LET w == Wakeup1(r, q) IN
         /\ w \in ProcRec /\ w.parent = r.parent /\ w.chan = r.chan
         /\ w.state = r.state \/ (r.state = "SLEEPING" /\ w.state = "RUNNABLE")
         /\ r.state = "SLEEPING" /\ r.chan = q => w.state = "RUNNABLE"
<1>1. Wakeup1(r, q) \in ProcRec
  BY Zenon, RecordTypes DEF Wakeup1, PState
<1> QED
  BY <1>1 DEF Wakeup1, ProcRec

\* The types as the cases below use them.
LEMMA Types ==
  ProcessInv => /\ proc \in [Slot -> ProcRec] /\ lock \in [Slot -> Cpu \cup {0}]
                /\ cpu \in [Cpu -> Slot \cup {0}] /\ pc \in [Slot -> Place]
                /\ np \in [Slot -> 0..NPROC + 1] /\ orig \in [Slot -> Slot \cup {0}]
BY DEF ProcessInv, TypeOK

\* The scheduler finds p unlocked, so p is on no CPU.
LEMMA DispatchKeeps == \A c \in Cpu, p \in Slot : ProcessInv /\ Dispatch(c, p) => ProcessInv'
<1> SUFFICES ASSUME NEW c \in Cpu, NEW p \in Slot, ProcessInv, Dispatch(c, p)
             PROVE  ProcessInv'
  OBVIOUS
<1> USE Numbers
<1>1. /\ \A x \in Slot \ {p} : proc'[x] = proc[x]
      /\ proc'[p].state = "RUNNING" /\ proc'[p].parent = proc[p].parent
      /\ proc' \in [Slot -> ProcRec]
  <2> DEFINE r == [[proc[p] EXCEPT !.state = "RUNNING"] EXCEPT !.chan = 0]
  <2>1. proc' = [proc EXCEPT ![p] = r]
    BY Zenon, Types DEF Dispatch
  <2>2. r \in ProcRec
    BY Zenon, Types, RecordTypes DEF PState
  <2>3. r.state = "RUNNING" /\ r.parent = proc[p].parent
    BY Types DEF ProcRec
  <2> HIDE DEF r
  <2> QED
    BY <2>1, <2>2, <2>3, Types
<1>2. cpu[c] = 0 /\ lock[p] = 0 /\ proc[p].state = "RUNNABLE"
  BY DEF Dispatch, Free
<1>3. \A d \in Cpu : cpu[d] # p
  BY <1>2, Types DEF ProcessInv, HoldInv
<1>4. TypeOK'
  BY <1>1, <1>2, <1>3, Types DEF Dispatch, ProcessInv, TypeOK, Place
<1>5. StateInv'
  BY <1>1, <1>2, <1>3, Types DEF Dispatch, ProcessInv, StateInv, NoLocks, Exiting,
      InReparent
<1>6. HoldInv'
  BY SMTT(40), <1>1, <1>2, <1>3, Types DEF Dispatch, ProcessInv, HoldInv, StateInv, NoLocks, InScan,
      InReparent
<1>7. ScanInv'
  BY <1>1, <1>2, <1>3, Types DEF Dispatch, ProcessInv, ScanInv, InScan, InReparent
<1>8. OrigInv'
  BY <1>1, <1>2, <1>3, Types DEF Dispatch, ProcessInv, OrigInv, InReparent
<1>9. StackExclusive'
  BY <1>1, <1>2, <1>3, Types DEF Dispatch, ProcessInv, StackExclusive
<1>10. ParentStable'
  BY <1>1, <1>2, <1>3, Types DEF Dispatch, ProcessInv, ParentStable, ScanInv
<1>11. NoLostChild'
  BY <1>1, <1>2, <1>3, Types DEF Dispatch, ProcessInv, NoLostChild
<1>12. NoOrphan'
  BY <1>1, <1>2, <1>3, Types DEF Dispatch, ProcessInv, NoOrphan, ProcRec
<1> QED
  BY <1>4, <1>5, <1>6, <1>7, <1>8, <1>9, <1>10, <1>11, <1>12 DEF ProcessInv

\* p gives up its stack together with p->lock.
LEMMA SchedKeeps == \A c \in Cpu, p \in Slot : ProcessInv /\ Sched(c, p) => ProcessInv'
<1> SUFFICES ASSUME NEW c \in Cpu, NEW p \in Slot, ProcessInv, Sched(c, p)
             PROVE  ProcessInv'
  OBVIOUS
<1> USE Numbers
<1>1. \A d \in Cpu \ {c} : cpu[d] # p
  BY DEF Sched, ProcessInv, StackExclusive
<1>2. lock[p] = c
  BY DEF Sched, ProcessInv, HoldInv
<1>3. TypeOK'
  BY <1>1, <1>2, Types DEF Sched, local, ProcessInv, TypeOK, Place
<1>4. StateInv'
  BY <1>1, <1>2, Types DEF Sched, local, ProcessInv, StateInv
<1>5. HoldInv'
  BY <1>1, <1>2, Types DEF Sched, local, ProcessInv, HoldInv
<1>6. ScanInv'
  BY <1>1, <1>2, Types DEF Sched, local, ProcessInv, ScanInv
<1>7. OrigInv'
  BY <1>1, <1>2, Types DEF Sched, local, ProcessInv, OrigInv
<1>8. StackExclusive'
  BY <1>1, <1>2, Types DEF Sched, local, ProcessInv, StackExclusive
<1>9. ParentStable'
  BY <1>1, <1>2, Types DEF Sched, local, ProcessInv, ParentStable
<1>10. NoLostChild'
  BY <1>1, <1>2, Types DEF Sched, local, ProcessInv, NoLostChild
<1>11. NoOrphan'
  BY <1>1, <1>2, Types DEF Sched, local, ProcessInv, NoOrphan
<1> QED
  BY <1>3, <1>4, <1>5, <1>6, <1>7, <1>8, <1>9, <1>10, <1>11 DEF ProcessInv

\* A CPU without a lock is outside the loops of exit and wait.
LEMMA YieldKeeps == \A c \in Cpu, p \in Slot : ProcessInv /\ Yield(c, p) => ProcessInv'
<1> SUFFICES ASSUME NEW c \in Cpu, NEW p \in Slot, ProcessInv, Yield(c, p)
             PROVE  ProcessInv'
  OBVIOUS
<1> USE Numbers
<1>1. /\ \A x \in Slot \ {p} : proc'[x] = proc[x]
      /\ proc'[p].state = "RUNNABLE" /\ proc'[p].parent = proc[p].parent
      /\ proc' \in [Slot -> ProcRec]
  <2> DEFINE r == [proc[p] EXCEPT !.state = "RUNNABLE"]
  <2>1. proc' = [proc EXCEPT ![p] = r]
    BY Types DEF Yield
  <2>2. r \in ProcRec
    BY Zenon, Types, RecordTypes DEF PState
  <2>3. r.state = "RUNNABLE" /\ r.parent = proc[p].parent
    BY Types DEF ProcRec
  <2> HIDE DEF r
  <2> QED
    BY <2>1, <2>2, <2>3, Types
<1>2. cpu[c] = p /\ lock[p] = 0 /\ proc[p].state = "RUNNING" /\ pc[p] \in NoLocks
  BY Types DEF Yield, Runs, Acquire, Free, ProcessInv, HoldInv, StateInv, OrigInv,
        Place, NoLocks, InScan, InReparent
<1>3. TypeOK'
  BY <1>1, <1>2, Types DEF Yield, Acquire, local, ProcessInv, TypeOK, Place
<1>4. StateInv'
  BY <1>1, <1>2, Types DEF Yield, local, ProcessInv, StateInv
<1>5. HoldInv'
  BY <1>1, <1>2, Types DEF Yield, Acquire, local, ProcessInv, HoldInv, StackExclusive,
      InScan, InReparent
<1>6. ScanInv'
  BY <1>1, <1>2, Types DEF Yield, local, ProcessInv, ScanInv
<1>7. OrigInv'
  BY <1>1, <1>2, Types DEF Yield, local, ProcessInv, OrigInv
<1>8. StackExclusive'
  BY <1>1, <1>2, Types DEF Yield, local, ProcessInv, StackExclusive
<1>9. ParentStable'
  BY <1>1, <1>2, Types DEF Yield, local, ProcessInv, ParentStable
<1>10. NoLostChild'
  BY <1>1, <1>2, Types DEF Yield, local, ProcessInv, NoLostChild
<1>11. NoOrphan'
  BY <1>1, <1>2, Types DEF Yield, local, ProcessInv, NoOrphan
<1> QED
  BY <1>3, <1>4, <1>5, <1>6, <1>7, <1>8, <1>9, <1>10, <1>11 DEF ProcessInv

\* init does not get here.
LEMMA ExitKeeps == \A c \in Cpu, p \in Slot : ProcessInv /\ Exit(c, p) => ProcessInv'
<1> SUFFICES ASSUME NEW c \in Cpu, NEW p \in Slot, ProcessInv, Exit(c, p)
             PROVE  ProcessInv'
  OBVIOUS
<1> USE Numbers
<1>1. p # 0 /\ cpu[c] = p /\ proc[p].state = "RUNNING" /\ pc[p] = "user"
  BY DEF Exit, Runs
<1>2. StackExclusive' /\ NoLostChild' /\ NoOrphan'
  BY DEF Exit, ProcessInv, StackExclusive, NoLostChild, NoOrphan
<1>3. TypeOK'
  BY <1>1, Types DEF Exit, ProcessInv, TypeOK, Place
<1>4. StateInv'
  BY <1>1, Types DEF Exit, ProcessInv, StateInv
<1>5. HoldInv'
  BY <1>1, Types DEF Exit, ProcessInv, HoldInv, InScan, InReparent
<1>6. ScanInv'
  BY <1>1, Types DEF Exit, ProcessInv, ScanInv, InScan, InReparent
<1>7. OrigInv'
  BY <1>1, Types DEF Exit, ProcessInv, OrigInv, InReparent
<1>8. ParentStable'
  BY <1>1, Types DEF Exit, ProcessInv, ParentStable
<1> QED
  BY <1>2, <1>3, <1>4, <1>5, <1>6, <1>7, <1>8 DEF ProcessInv

\* A process that exits has a parent, or it would be init.
LEMMA ExitReadParentKeeps ==
  \A c \in Cpu, p \in Slot : ProcessInv /\ ExitReadParent(c, p) => ProcessInv'
<1> SUFFICES ASSUME NEW c \in Cpu, NEW p \in Slot, ProcessInv, ExitReadParent(c, p)
             PROVE  ProcessInv'
  OBVIOUS
<1> USE Numbers
<1>1. p # 0 /\ cpu[c] = p /\ proc[p].state = "RUNNING" /\ pc[p] = "exit_parent"
  BY DEF ExitReadParent, Runs
<1>2. p # initproc /\ proc[p].parent \in Slot
  BY <1>1, Types DEF ProcessInv, StateInv, NoOrphan, ProcRec, Exiting
<1>3. StackExclusive' /\ NoLostChild' /\ NoOrphan'
  BY DEF ExitReadParent, ProcessInv, StackExclusive, NoLostChild, NoOrphan
<1>4. TypeOK'
  BY <1>1, <1>2, Types DEF ExitReadParent, ProcessInv, TypeOK, Place
<1>5. StateInv'
  BY <1>1, <1>2, Types DEF ExitReadParent, ProcessInv, StateInv
<1>6. HoldInv'
  BY <1>1, <1>2, Types DEF ExitReadParent, ProcessInv, HoldInv, InScan, InReparent
<1>7. ScanInv'
  BY <1>1, <1>2, Types DEF ExitReadParent, ProcessInv, ScanInv, InScan, InReparent
<1>8. OrigInv'
  BY <1>1, <1>2, Types DEF ExitReadParent, ProcessInv, OrigInv, InReparent
<1>9. ParentStable'
  BY <1>1, <1>2, Types DEF ExitReadParent, ProcessInv, ParentStable
<1> QED
  BY <1>3, <1>4, <1>5, <1>6, <1>7, <1>8, <1>9 DEF ProcessInv

\* The parent's lock is held from here.
LEMMA ExitLockParentKeeps ==
  \A c \in Cpu, p \in Slot : ProcessInv /\ ExitLockParent(c, p) => ProcessInv'
<1> SUFFICES ASSUME NEW c \in Cpu, NEW p \in Slot, ProcessInv, ExitLockParent(c, p)
             PROVE  ProcessInv'
  OBVIOUS
<1> USE Numbers
<1>1. p # 0 /\ cpu[c] = p /\ proc[p].state = "RUNNING" /\ pc[p] = "lock_parent"
  BY DEF ExitLockParent, Runs
<1>2. orig[p] \in Slot /\ lock[orig[p]] = 0
  BY <1>1, Types DEF ExitLockParent, Acquire, Free, ProcessInv, OrigInv
<1>3. StackExclusive' /\ NoLostChild' /\ NoOrphan'
  BY DEF ExitLockParent, ProcessInv, StackExclusive, NoLostChild, NoOrphan
<1>4. TypeOK'
  BY <1>1, <1>2, Types DEF ExitLockParent, Acquire, ProcessInv, TypeOK, Place
<1>5. StateInv'
  BY <1>1, <1>2, Types DEF ExitLockParent, ProcessInv, StateInv, NoLocks, Exiting,
      InReparent
<1>6. HoldInv'
  BY <1>1, <1>2, Types DEF ExitLockParent, Acquire, ProcessInv, HoldInv, StackExclusive,
      InScan, InReparent
<1>7. ScanInv'
  BY <1>1, <1>2, Types DEF ExitLockParent, ProcessInv, ScanInv, InScan, InReparent
<1>8. OrigInv'
  BY <1>1, <1>2, Types DEF ExitLockParent, ProcessInv, OrigInv, InReparent
<1>9. ParentStable'
  BY <1>1, <1>2, Types DEF ExitLockParent, ProcessInv, ParentStable
<1> QED
  BY <1>3, <1>4, <1>5, <1>6, <1>7, <1>8, <1>9 DEF ProcessInv

\* The two locks are different: the second was free.
LEMMA ExitLockSelfKeeps ==
  \A c \in Cpu, p \in Slot : ProcessInv /\ ExitLockSelf(c, p) => ProcessInv'
<1> SUFFICES ASSUME NEW c \in Cpu, NEW p \in Slot, ProcessInv, ExitLockSelf(c, p)
             PROVE  ProcessInv'
  OBVIOUS
<1> USE Numbers
<1>1. p # 0 /\ cpu[c] = p /\ proc[p].state = "RUNNING" /\ pc[p] = "lock_self"
  BY DEF ExitLockSelf, Runs
<1>2. lock[p] = 0 /\ orig[p] \in Slot /\ orig[p] # p
  BY <1>1, Types DEF ExitLockSelf, Acquire, Free, ProcessInv, HoldInv, OrigInv
<1>3. StackExclusive' /\ NoLostChild' /\ NoOrphan'
  BY DEF ExitLockSelf, ProcessInv, StackExclusive, NoLostChild, NoOrphan
<1>4. TypeOK'
  BY <1>1, <1>2, Types DEF ExitLockSelf, Acquire, ProcessInv, TypeOK, Place
<1>5. StateInv'
  BY <1>1, <1>2, Types DEF ExitLockSelf, ProcessInv, StateInv, NoLocks, Exiting, InReparent
<1>6. HoldInv'
  BY <1>1, <1>2, Types DEF ExitLockSelf, Acquire, ProcessInv, HoldInv
<1>7. ScanInv'
  BY <1>1, <1>2, Types DEF ExitLockSelf, ProcessInv, ScanInv, InScan, InReparent
<1>8. OrigInv'
  BY <1>1, <1>2, Types DEF ExitLockSelf, ProcessInv, OrigInv
<1>9. ParentStable'
  BY <1>1, <1>2, Types DEF ExitLockSelf, ProcessInv, ParentStable
<1> QED
  BY <1>3, <1>4, <1>5, <1>6, <1>7, <1>8, <1>9 DEF ProcessInv

\* A slot is passed when it is not a child.
LEMMA ReparentCheckKeeps ==
  \A c \in Cpu, p \in Slot : ProcessInv /\ ReparentCheck(c, p) => ProcessInv'
<1> SUFFICES ASSUME NEW c \in Cpu, NEW p \in Slot, ProcessInv, ReparentCheck(c, p)
             PROVE  ProcessInv'
  OBVIOUS
<1> USE Numbers
<1>1. p # 0 /\ cpu[c] = p /\ proc[p].state = "RUNNING" /\ pc[p] = "reparent"
  BY DEF ReparentCheck, Runs
<1>2. np[p] \in Slot
  BY <1>1, Types DEF ReparentCheck, ProcessInv, ScanInv, InReparent, Slot
<1>3. StackExclusive' /\ NoLostChild' /\ NoOrphan'
  BY DEF ReparentCheck, ProcessInv, StackExclusive, NoLostChild, NoOrphan
<1>4. TypeOK'
  BY <1>1, <1>2, Types DEF ReparentCheck, ProcessInv, TypeOK, Place
<1>5. StateInv'
  BY <1>1, <1>2, Types DEF ReparentCheck, ProcessInv, StateInv, NoLocks, Exiting, InReparent
<1>6. HoldInv'
  BY <1>1, <1>2, Types DEF ReparentCheck, ProcessInv, HoldInv, InScan, InReparent
<1>7. ScanInv'
  <2>1. \A x \in Slot \ {p} : np'[x] = np[x] /\ pc'[x] = pc[x]
    BY Types DEF ReparentCheck
  <2>2. proc' = proc /\ np'[p] \in Nat /\ pc'[p] \in InReparent
    BY <1>1, Types DEF ReparentCheck, InReparent
  <2>3. \/ proc[np[p]].parent = p /\ np'[p] = np[p] /\ pc'[p] = "reparent_take"
        \/ proc[np[p]].parent # p /\ np'[p] = np[p] + 1 /\ pc'[p] = "reparent"
    BY <1>1, Types DEF ReparentCheck
  <2>4. ASSUME NEW s \in Slot, s < np'[p] PROVE proc[s].parent # p
    <3>1. s < np[p] \/ (s = np[p] /\ proc[np[p]].parent # p)
      BY <1>2, <2>3, <2>4
    <3> QED
      BY <3>1, <1>1 DEF ProcessInv, ScanInv, InReparent
  <2> QED
    BY <1>1, <1>2, <2>1, <2>2, <2>3, <2>4, Types DEF ProcessInv, ScanInv, InScan, InReparent
<1>8. OrigInv'
  BY <1>1, <1>2, Types DEF ReparentCheck, ProcessInv, OrigInv, InReparent
<1>9. ParentStable'
  BY <1>1, <1>2, Types DEF ReparentCheck, ProcessInv, ParentStable
<1> QED
  BY <1>3, <1>4, <1>5, <1>6, <1>7, <1>8, <1>9 DEF ProcessInv

\* Nothing is locked yet.
LEMMA WaitKeeps == \A c \in Cpu, p \in Slot : ProcessInv /\ Wait(c, p) => ProcessInv'
<1> SUFFICES ASSUME NEW c \in Cpu, NEW p \in Slot, ProcessInv, Wait(c, p)
             PROVE  ProcessInv'
  OBVIOUS
<1> USE Numbers
<1>1. p # 0 /\ cpu[c] = p /\ proc[p].state = "RUNNING" /\ pc[p] = "user"
  BY DEF Wait, Runs, Syscall
<1>2. StackExclusive' /\ NoLostChild' /\ NoOrphan'
  BY DEF Wait, ProcessInv, StackExclusive, NoLostChild, NoOrphan
<1>3. TypeOK'
  BY <1>1, Types DEF Wait, ProcessInv, TypeOK, Place
<1>4. StateInv'
  BY <1>1, Types DEF Wait, ProcessInv, StateInv, NoLocks, Exiting, InReparent
<1>5. HoldInv'
  BY <1>1, Types DEF Wait, ProcessInv, HoldInv, InScan, InReparent
<1>6. ScanInv'
  BY <1>1, Types DEF Wait, ProcessInv, ScanInv, InScan, InReparent
<1>7. OrigInv'
  BY <1>1, Types DEF Wait, ProcessInv, OrigInv, InReparent
<1>8. ParentStable'
  BY <1>1, Types DEF Wait, ProcessInv, ParentStable
<1> QED
  BY <1>2, <1>3, <1>4, <1>5, <1>6, <1>7, <1>8 DEF ProcessInv

\* The scan starts at the first slot with p->lock held.
LEMMA WaitLockKeeps == \A c \in Cpu, p \in Slot : ProcessInv /\ WaitLock(c, p) => ProcessInv'
<1> SUFFICES ASSUME NEW c \in Cpu, NEW p \in Slot, ProcessInv, WaitLock(c, p)
             PROVE  ProcessInv'
  OBVIOUS
<1> USE Numbers
<1>1. p # 0 /\ cpu[c] = p /\ proc[p].state = "RUNNING" /\ pc[p] = "wait"
  BY DEF WaitLock, Runs
<1>2. lock[p] = 0 /\ np[p] = 0
  BY <1>1, Types DEF WaitLock, Acquire, Free, ProcessInv, ScanInv, InScan, InReparent
<1>3. StackExclusive' /\ NoLostChild' /\ NoOrphan'
  BY DEF WaitLock, ProcessInv, StackExclusive, NoLostChild, NoOrphan
<1>4. TypeOK'
  BY <1>1, <1>2, Types DEF WaitLock, Acquire, ProcessInv, TypeOK, Place
<1>5. StateInv'
  BY <1>1, <1>2, Types DEF WaitLock, ProcessInv, StateInv, NoLocks, Exiting, InReparent
<1>6. HoldInv'
  BY <1>1, <1>2, Types DEF WaitLock, Acquire, ProcessInv, HoldInv, StackExclusive, InScan,
      InReparent
<1>7. ScanInv'
  BY <1>1, <1>2, Types DEF WaitLock, ProcessInv, ScanInv, InScan, InReparent
<1>8. OrigInv'
  BY <1>1, <1>2, Types DEF WaitLock, ProcessInv, OrigInv, InReparent
<1>9. ParentStable'
  BY <1>1, <1>2, Types DEF WaitLock, ProcessInv, ParentStable
<1> QED
  BY <1>3, <1>4, <1>5, <1>6, <1>7, <1>8, <1>9 DEF ProcessInv

\* A slot is passed when it is not a child.
LEMMA WaitCheckKeeps == \A c \in Cpu, p \in Slot : ProcessInv /\ WaitCheck(c, p) => ProcessInv'
<1> SUFFICES ASSUME NEW c \in Cpu, NEW p \in Slot, ProcessInv, WaitCheck(c, p)
             PROVE  ProcessInv'
  OBVIOUS
<1> USE Numbers
<1>1. p # 0 /\ cpu[c] = p /\ proc[p].state = "RUNNING" /\ pc[p] = "wait_scan"
  BY DEF WaitCheck, Runs
<1>2. np[p] + 1 \in Slot
  BY <1>1, Types DEF WaitCheck, Slot
<1>3. StackExclusive' /\ NoLostChild' /\ NoOrphan'
  BY DEF WaitCheck, ProcessInv, StackExclusive, NoLostChild, NoOrphan
<1>4. TypeOK'
  BY <1>1, <1>2, Types DEF WaitCheck, ProcessInv, TypeOK, Place
<1>5. StateInv'
  BY <1>1, <1>2, Types DEF WaitCheck, ProcessInv, StateInv, NoLocks, Exiting, InReparent
<1>6. HoldInv'
  BY <1>1, <1>2, Types DEF WaitCheck, ProcessInv, HoldInv, InScan, InReparent
<1>7. ScanInv'
  <2>1. \A x \in Slot \ {p} : np'[x] = np[x] /\ pc'[x] = pc[x]
    BY Types DEF WaitCheck
  <2>2. proc' = proc /\ np'[p] = np[p] + 1 /\ pc'[p] \in InScan
    BY <1>1, Types DEF WaitCheck, InScan
  <2>3. pc'[p] = "wait_scan" => proc[np[p] + 1].parent # p
    BY <1>1, Types DEF WaitCheck
  <2>4. ASSUME NEW s \in Slot, p # initproc, proc[s].parent = p,
               s < np'[p] \/ (s = np'[p] /\ pc'[p] = "wait_scan")
        PROVE  proc[s].state # "ZOMBIE"
    <3>1. s < np[p] \/ s = np[p]
      BY <1>2, <2>2, <2>3, <2>4, Types
    <3> QED
      BY <3>1, <2>4, <1>1 DEF ProcessInv, ScanInv, InScan
  <2> QED
    BY <1>1, <1>2, <2>1, <2>2, <2>4, Types DEF ProcessInv, ScanInv, InScan, InReparent
<1>8. OrigInv'
  BY <1>1, <1>2, Types DEF WaitCheck, ProcessInv, OrigInv, InReparent
<1>9. ParentStable'
  BY <1>1, <1>2, Types DEF WaitCheck, ProcessInv, ParentStable
<1> QED
  BY <1>3, <1>4, <1>5, <1>6, <1>7, <1>8, <1>9 DEF ProcessInv

\* A child that is not a zombie is passed; it cannot become one before p sleeps.
LEMMA WaitSkipKeeps == \A c \in Cpu, p \in Slot : ProcessInv /\ WaitSkip(c, p) => ProcessInv'
<1> SUFFICES ASSUME NEW c \in Cpu, NEW p \in Slot, ProcessInv, WaitSkip(c, p)
             PROVE  ProcessInv'
  OBVIOUS
<1> USE Numbers
<1>1. p # 0 /\ cpu[c] = p /\ proc[p].state = "RUNNING" /\ pc[p] = "wait_take"
  BY DEF WaitSkip, Runs
<1>2. np[p] \in Slot
  BY <1>1, Types DEF ProcessInv, ScanInv
<1>3. StackExclusive' /\ NoLostChild' /\ NoOrphan'
  BY DEF WaitSkip, ProcessInv, StackExclusive, NoLostChild, NoOrphan
<1>4. TypeOK'
  BY <1>1, <1>2, Types DEF WaitSkip, ProcessInv, TypeOK, Place
<1>5. StateInv'
  BY <1>1, <1>2, Types DEF WaitSkip, ProcessInv, StateInv, NoLocks, Exiting, InReparent
<1>6. HoldInv'
  BY <1>1, <1>2, Types DEF WaitSkip, ProcessInv, HoldInv, InScan, InReparent
<1>7. ScanInv'
  BY <1>1, <1>2, Types DEF WaitSkip, ProcessInv, ScanInv, InScan, InReparent
<1>8. OrigInv'
  BY <1>1, <1>2, Types DEF WaitSkip, ProcessInv, OrigInv, InReparent
<1>9. ParentStable'
  BY <1>1, <1>2, Types DEF WaitSkip, ProcessInv, ParentStable
<1> QED
  BY <1>3, <1>4, <1>5, <1>6, <1>7, <1>8, <1>9 DEF ProcessInv

\* p->lock is released.
LEMMA WaitFailsKeeps == \A c \in Cpu, p \in Slot : ProcessInv /\ WaitFails(c, p) => ProcessInv'
<1> SUFFICES ASSUME NEW c \in Cpu, NEW p \in Slot, ProcessInv, WaitFails(c, p)
             PROVE  ProcessInv'
  OBVIOUS
<1> USE Numbers
<1>1. p # 0 /\ cpu[c] = p /\ proc[p].state = "RUNNING" /\ pc[p] = "wait_scan"
  BY DEF WaitFails, Runs
<1>2. lock[p] = c
  BY <1>1, Types DEF ProcessInv, HoldInv, InScan
<1>3. StackExclusive' /\ NoLostChild' /\ NoOrphan'
  BY DEF WaitFails, WaitReturn, ProcessInv, StackExclusive, NoLostChild, NoOrphan
<1>4. TypeOK'
  BY <1>1, <1>2, Types DEF WaitFails, WaitReturn, ProcessInv, TypeOK, Place
<1>5. StateInv'
  BY <1>1, <1>2, Types DEF WaitFails, WaitReturn, ProcessInv, StateInv, NoLocks, Exiting,
      InReparent
<1>6. HoldInv'
  BY <1>1, <1>2, Types DEF WaitFails, WaitReturn, ProcessInv, HoldInv, InScan, InReparent
<1>7. ScanInv'
  BY <1>1, <1>2, Types DEF WaitFails, WaitReturn, ProcessInv, ScanInv, InScan, InReparent
<1>8. OrigInv'
  BY <1>1, <1>2, Types DEF WaitFails, WaitReturn, ProcessInv, OrigInv, InReparent
<1>9. ParentStable'
  BY <1>1, <1>2, Types DEF WaitFails, WaitReturn, ProcessInv, ParentStable
<1> QED
  BY <1>3, <1>4, <1>5, <1>6, <1>7, <1>8, <1>9 DEF ProcessInv

\* All slots were passed: no child is a zombie.
LEMMA WaitSleepKeeps == \A c \in Cpu, p \in Slot : ProcessInv /\ WaitSleep(c, p) => ProcessInv'
<1> SUFFICES ASSUME NEW c \in Cpu, NEW p \in Slot, ProcessInv, WaitSleep(c, p)
             PROVE  ProcessInv'
  OBVIOUS
<1> USE Numbers
<1>1. p # 0 /\ cpu[c] = p /\ proc[p].state = "RUNNING" /\ pc[p] = "wait_scan"
  BY DEF WaitSleep, Runs
<1>2. /\ \A x \in Slot \ {p} : proc'[x] = proc[x]
      /\ proc'[p].state = "SLEEPING" /\ proc'[p].chan = p /\ proc'[p].parent = proc[p].parent
      /\ proc' \in [Slot -> ProcRec]
  <2> DEFINE r == [[proc[p] EXCEPT !.chan = p] EXCEPT !.state = "SLEEPING"]
  <2>1. proc' = [proc EXCEPT ![p] = r]
    BY Zenon, Types DEF WaitSleep
  <2>2. r \in ProcRec
    BY Zenon, Types, RecordTypes DEF PState
  <2>3. r.state = "SLEEPING" /\ r.chan = p /\ r.parent = proc[p].parent
    BY Types DEF ProcRec
  <2> HIDE DEF r
  <2> QED
    BY <2>1, <2>2, <2>3, Types
<1>3. lock[p] = c /\ np[p] = NPROC
  BY <1>1, Types DEF WaitSleep, ProcessInv, HoldInv, InScan
<1>4. TypeOK'
  BY <1>1, <1>2, <1>3, Types DEF WaitSleep, ProcessInv, TypeOK, Place
<1>5. StateInv'
  BY <1>1, <1>2, <1>3, Types DEF WaitSleep, ProcessInv, StateInv, NoLocks, Exiting,
      InReparent
<1>6. HoldInv'
  BY <1>1, <1>2, <1>3, Types DEF WaitSleep, ProcessInv, HoldInv, InScan, InReparent
<1>7. ScanInv'
  BY <1>1, <1>2, <1>3, Types DEF WaitSleep, ProcessInv, ScanInv, InScan, InReparent
<1>8. OrigInv'
  BY <1>1, <1>2, <1>3, Types DEF WaitSleep, ProcessInv, OrigInv, InReparent
<1>9. StackExclusive'
  BY <1>1, <1>2, <1>3, Types DEF WaitSleep, ProcessInv, StackExclusive
<1>10. ParentStable'
  BY <1>1, <1>2, <1>3, Types DEF WaitSleep, ProcessInv, ParentStable, ScanInv
<1>11. NoLostChild'
  BY <1>1, <1>2, <1>3, Types DEF WaitSleep, ProcessInv, NoLostChild, ScanInv, InScan
<1>12. NoOrphan'
  BY <1>1, <1>2, <1>3, Types DEF WaitSleep, ProcessInv, NoOrphan, ProcRec
<1> QED
  BY <1>4, <1>5, <1>6, <1>7, <1>8, <1>9, <1>10, <1>11, <1>12 DEF ProcessInv

\* init is woken under its lock.
LEMMA ExitWakeInitKeeps ==
  \A c \in Cpu, p \in Slot : ProcessInv /\ ExitWakeInit(c, p) => ProcessInv'
<1> SUFFICES ASSUME NEW c \in Cpu, NEW p \in Slot, ProcessInv, ExitWakeInit(c, p)
             PROVE  ProcessInv'
  OBVIOUS
<1> USE Numbers
<1>1. p # 0 /\ cpu[c] = p /\ proc[p].state = "RUNNING" /\ pc[p] = "exit"
  BY DEF ExitWakeInit, Runs
<1>2. /\ \A x \in Slot : /\ proc'[x].parent = proc[x].parent
                            /\ proc'[x].chan = proc[x].chan
                            /\ \/ proc'[x].state = proc[x].state
                               \/ proc[x].state = "SLEEPING" /\ proc'[x].state = "RUNNABLE"
      /\ \A x \in Slot \ {initproc} : proc'[x] = proc[x]
      /\ proc' \in [Slot -> ProcRec]
  <2>1. proc' = [proc EXCEPT ![initproc] = Wakeup1(proc[initproc], initproc)]
    BY DEF ExitWakeInit
  <2> DEFINE w == Wakeup1(proc[initproc], initproc)
  <2>2. /\ w \in ProcRec /\ w.parent = proc[initproc].parent /\ w.chan = proc[initproc].chan
        /\ \/ w.state = proc[initproc].state
           \/ proc[initproc].state = "SLEEPING" /\ w.state = "RUNNABLE"
    BY Types, WakeupRecord
  <2>3. proc' = [proc EXCEPT ![initproc] = w]
    BY <2>1
  <2> HIDE DEF w
  <2> QED
    BY Types, <2>2, <2>3
<1>3. lock[initproc] = 0
  BY DEF ExitWakeInit, Free
<1>4. TypeOK'
  BY <1>1, <1>2, <1>3, Types DEF ExitWakeInit, ProcessInv, TypeOK, Place
<1>5. StateInv'
  BY <1>1, <1>2, <1>3, Types DEF ExitWakeInit, ProcessInv, StateInv, NoLocks, Exiting,
      InReparent
<1>6. HoldInv'
  BY <1>1, <1>2, <1>3, Types DEF ExitWakeInit, ProcessInv, HoldInv, InScan, InReparent
<1>7. ScanInv'
  BY <1>1, <1>2, <1>3, Types DEF ExitWakeInit, ProcessInv, ScanInv, InScan, InReparent
<1>8. OrigInv'
  BY <1>1, <1>2, <1>3, Types DEF ExitWakeInit, ProcessInv, OrigInv, InReparent
<1>9. StackExclusive'
  BY <1>1, <1>2, <1>3, Types DEF ExitWakeInit, ProcessInv, StackExclusive
<1>10. ParentStable'
  BY <1>1, <1>2, <1>3, Types DEF ExitWakeInit, ProcessInv, ParentStable
<1>11. NoLostChild'
  BY <1>1, <1>2, <1>3, Types DEF ExitWakeInit, ProcessInv, NoLostChild
<1>12. NoOrphan'
  BY <1>1, <1>2, <1>3, Types DEF ExitWakeInit, ProcessInv, NoOrphan
<1> QED
  BY <1>4, <1>5, <1>6, <1>7, <1>8, <1>9, <1>10, <1>11, <1>12 DEF ProcessInv

\* A free slot is nobody's child and on no CPU, whether fork succeeds or not.
LEMMA ForkKeeps == \A c \in Cpu, p \in Slot, s \in Slot : ProcessInv /\ Fork(c, p, s) => ProcessInv'
<1> SUFFICES ASSUME NEW c \in Cpu, NEW p \in Slot, NEW s \in Slot, ProcessInv, Fork(c, p, s)
             PROVE  ProcessInv'
  OBVIOUS
<1> USE Numbers
<1>1. p # 0 /\ cpu[c] = p /\ proc[p].state = "RUNNING" /\ pc[p] = "user" /\ lock[s] = 0
  BY DEF Fork, Runs, Syscall, Free
<1>2. /\ proc[s].state = "UNUSED" /\ proc[s].parent = 0
      /\ s # p /\ s # initproc /\ pc[s] = "user"
      /\ nextpid \in 0..MaxPid
  <2>1. proc[s].state = "UNUSED"
    BY DEF Fork
  <2>2. proc[s].parent = 0 /\ s # p /\ s # initproc /\ pc[s] = "user"
    BY <1>1, <2>1 DEF ProcessInv, StateInv
  <2>3. nextpid \in 0..MaxPid
    BY ProcessConstants DEF Fork, ProcessInv, TypeOK
  <2> QED
    BY <2>1, <2>2, <2>3
<1>3. /\ \A x \in Slot \ {s} : proc'[x] = proc[x]
      /\ \/ proc'[s].state = "RUNNABLE" /\ proc'[s].parent = p
         \/ proc'[s].state = "UNUSED" /\ proc'[s].parent = 0
      /\ proc' \in [Slot -> ProcRec]
  <2>1. ASSUME NEW r \in ProcRec, proc' = [proc EXCEPT ![s] = r],
               \/ r.state = "RUNNABLE" /\ r.parent = p
               \/ r.state = "UNUSED" /\ r.parent = 0
        PROVE  <1>3!:
    BY <2>1, Types
  <2>2. CASE proc' = [proc EXCEPT ![s] = Child(p, s)]
    <3>1. Child(p, s) = [[[proc[s] EXCEPT !.state = "RUNNABLE"] EXCEPT !.parent = p]
                           EXCEPT !.pid = nextpid]
      BY Types DEF Child, ProcRec
    <3>2. Child(p, s) \in ProcRec
      <4>1. [proc[s] EXCEPT !.state = "RUNNABLE"] \in ProcRec
        BY Zenon, Types, RecordTypes DEF PState
      <4>2. [[proc[s] EXCEPT !.state = "RUNNABLE"] EXCEPT !.parent = p] \in ProcRec
        BY Zenon, <4>1, RecordTypes
      <4> QED
        BY ZenonT(40), <3>1, <4>2, <1>2, RecordTypes
    <3>3. Child(p, s).state = "RUNNABLE" /\ Child(p, s).parent = p
      BY Types DEF Child, ProcRec
    <3> QED
      BY Zenon, <2>1, <2>2, <3>2, <3>3
  <2>3. CASE proc' = [proc EXCEPT ![s] = freeproc(proc[s])]
    BY Zenon, <2>1, <2>3, FreeprocType DEF freeproc, Unused
  <2>4. CASE proc' = [proc EXCEPT ![s].pid = nextpid]
    <3> DEFINE r == [proc[s] EXCEPT !.pid = nextpid]
    <3>1. r \in ProcRec
      BY Zenon, <1>2, Types, RecordTypes
    <3>2. r.state = "UNUSED" /\ r.parent = 0
      BY <1>2, Types DEF ProcRec
    <3>3. proc' = [proc EXCEPT ![s] = r]
      BY <2>4
    <3> HIDE DEF r
    <3> QED
      BY Zenon, <2>1, <3>1, <3>2, <3>3
  <2> QED
    BY <2>2, <2>3, <2>4 DEF Fork
<1>4. TypeOK'
  <2>1. nextpid' \in 2..MaxPid + 1
    <3>1. nextpid \in 2..MaxPid + 1 /\ nextpid <= MaxPid /\ nextpid' = nextpid + 1
      BY DEF Fork, ProcessInv, TypeOK
    <3>2. MaxPid \in Nat
      BY ProcessConstants
    <3> QED
      BY <3>1, <3>2
  <2>2. UNCHANGED <<lock, cpu, pc, np, havekids, orig>>
    BY DEF Fork, local
  <2> QED
    BY <2>1, <2>2, <1>3 DEF ProcessInv, TypeOK
<1>5. StateInv'
  BY <1>1, <1>2, <1>3, Types DEF Fork, local, ProcessInv, StateInv, NoLocks, Exiting,
      InReparent
<1>6. HoldInv'
  BY <1>1, <1>2, <1>3, Types DEF Fork, local, ProcessInv, HoldInv
<1>7. ScanInv'
  BY <1>1, <1>2, <1>3, Types DEF Fork, local, ProcessInv, ScanInv, InScan, InReparent
<1>8. OrigInv'
  BY <1>1, <1>2, <1>3, Types DEF Fork, local, ProcessInv, OrigInv
<1>9. StackExclusive'
  BY <1>1, <1>2, <1>3, Types DEF Fork, local, ProcessInv, StackExclusive
<1>10. ParentStable'
  BY <1>1, <1>2, <1>3, Types DEF Fork, local, ProcessInv, ParentStable, ScanInv
<1>11. NoLostChild'
  BY <1>1, <1>2, <1>3, Types DEF Fork, local, ProcessInv, NoLostChild
<1>12. NoOrphan'
  BY <1>1, <1>2, <1>3, Types DEF Fork, local, ProcessInv, NoOrphan, ProcRec
<1> QED
  BY <1>4, <1>5, <1>6, <1>7, <1>8, <1>9, <1>10, <1>11, <1>12 DEF ProcessInv

\* kill changes nothing of a process but the mark and that it sleeps.
LEMMA KillKeeps ==
  \A c \in Cpu, p \in Slot, s \in Slot, n \in KillPids : ProcessInv /\ Kill(c, p, s, n) => ProcessInv'
<1> SUFFICES ASSUME NEW c \in Cpu, NEW p \in Slot, NEW s \in Slot, NEW n \in KillPids,
                    ProcessInv, Kill(c, p, s, n)
             PROVE  ProcessInv'
  OBVIOUS
<1> USE Numbers
<1>1. p # 0 /\ cpu[c] = p /\ proc[p].state = "RUNNING" /\ pc[p] = "user" /\ lock[s] = 0
  BY DEF Kill, Runs, Syscall, Free
<1>2. /\ \A x \in Slot \ {s} : proc'[x] = proc[x]
      /\ \/ proc'[s].state = proc[s].state
         \/ proc[s].state = "SLEEPING" /\ proc'[s].state = "RUNNABLE"
      /\ proc'[s].parent = proc[s].parent /\ proc'[s].chan = proc[s].chan
      /\ proc' \in [Slot -> ProcRec]
  <2> DEFINE st == IF proc[s].state = "SLEEPING" THEN "RUNNABLE" ELSE proc[s].state
             r  == [[proc[s] EXCEPT !.killed = TRUE] EXCEPT !.state = st]
  <2>1. st \in PState /\ (st = proc[s].state \/ (proc[s].state = "SLEEPING" /\ st = "RUNNABLE"))
    BY Types DEF PState, ProcRec
  <2>2. proc' = [proc EXCEPT ![s] = r]
    BY Zenon, Types DEF Kill, ProcRec
  <2> HIDE DEF st
  <2>3. r \in ProcRec
    BY Zenon, <2>1, Types, RecordTypes
  <2>4. r.state = st /\ r.parent = proc[s].parent /\ r.chan = proc[s].chan
    BY <2>1, Types DEF ProcRec
  <2> HIDE DEF r
  <2> QED
    BY <2>1, <2>2, <2>3, <2>4, Types
<1>3. TypeOK'
  BY <1>1, <1>2, Types DEF Kill, local, ProcessInv, TypeOK, Place
<1>4. StateInv'
  BY <1>1, <1>2, Types DEF Kill, local, ProcessInv, StateInv
<1>5. HoldInv'
  BY <1>1, <1>2, Types DEF Kill, local, ProcessInv, HoldInv
<1>6. ScanInv'
  BY <1>1, <1>2, Types DEF Kill, local, ProcessInv, ScanInv
<1>7. OrigInv'
  BY <1>1, <1>2, Types DEF Kill, local, ProcessInv, OrigInv
<1>8. StackExclusive'
  BY <1>1, <1>2, Types DEF Kill, local, ProcessInv, StackExclusive
<1>9. ParentStable'
  BY <1>1, <1>2, Types DEF Kill, local, ProcessInv, ParentStable, ScanInv
<1>10. NoLostChild'
  BY <1>1, <1>2, Types DEF Kill, local, ProcessInv, NoLostChild
<1>11. NoOrphan'
  BY <1>1, <1>2, Types DEF Kill, local, ProcessInv, NoOrphan, ProcRec
<1> QED
  BY <1>3, <1>4, <1>5, <1>6, <1>7, <1>8, <1>9, <1>10, <1>11 DEF ProcessInv

\* A child goes to init, which is not exiting.
LEMMA ReparentTakeKeeps ==
  \A c \in Cpu, p \in Slot : ProcessInv /\ ReparentTake(c, p) => ProcessInv'
<1> SUFFICES ASSUME NEW c \in Cpu, NEW p \in Slot, ProcessInv, ReparentTake(c, p)
             PROVE  ProcessInv'
  OBVIOUS
<1> USE Numbers
<1>1. p # 0 /\ cpu[c] = p /\ proc[p].state = "RUNNING" /\ pc[p] = "reparent_take"
  BY DEF ReparentTake, Runs
<1>2. /\ np[p] \in Slot /\ proc[np[p]].parent = p
      /\ p # initproc /\ proc[np[p]].state # "UNUSED"
  BY <1>1, Types DEF ProcessInv, ScanInv, ParentStable, StateInv, Exiting, InReparent
<1>3. /\ \A x \in Slot \ {np[p]} : proc'[x] = proc[x]
      /\ proc'[np[p]].state = proc[np[p]].state /\ proc'[np[p]].chan = proc[np[p]].chan
      /\ proc'[np[p]].parent = initproc
      /\ proc' \in [Slot -> ProcRec]
  <2> DEFINE r == [proc[np[p]] EXCEPT !.parent = initproc]
  <2>1. proc' = [proc EXCEPT ![np[p]] = r]
    BY <1>2, Types DEF ReparentTake
  <2>2. r \in ProcRec
    BY Zenon, <1>2, Types, RecordTypes DEF PState
  <2>3. r.state = proc[np[p]].state /\ r.chan = proc[np[p]].chan /\ r.parent = initproc
    BY <1>2, Types DEF ProcRec
  <2> HIDE DEF r
  <2> QED
    BY <2>1, <2>2, <2>3, <1>2, Types
<1>4. TypeOK'
  BY <1>1, <1>2, <1>3, Types DEF ReparentTake, ProcessInv, TypeOK, Place
<1>5. StateInv'
  BY <1>1, <1>2, <1>3, Types DEF ReparentTake, ProcessInv, StateInv
<1>6. HoldInv'
  BY <1>1, <1>2, <1>3, Types DEF ReparentTake, ProcessInv, HoldInv, InScan, InReparent
<1>7. ScanInv'
  <2>1. \A x \in Slot \ {p} : np'[x] = np[x] /\ pc'[x] = pc[x]
    BY Types DEF ReparentTake
  <2>2. np'[p] = np[p] + 1 /\ pc'[p] = "reparent"
    BY <1>1, Types DEF ReparentTake
  <2>3. \A x \in Slot : /\ proc'[x].state = proc[x].state
                       /\ proc'[x].parent = IF x = np[p] THEN initproc ELSE proc[x].parent
    BY <1>3
  <2>4. ASSUME NEW x \in Slot, x < np[p] + 1 PROVE proc'[x].parent # p
    <3>1. x < np[p] \/ x = np[p]
      BY <1>2, <2>4
    <3> QED
      BY <1>1, <1>2, <2>3, <3>1 DEF ProcessInv, ScanInv, InReparent
  <2>5. initproc # p /\ pc[initproc] \notin InReparent
    BY <1>2 DEF ProcessInv, StateInv, Exiting
  <2> QED
    BY SMTT(40), <1>1, <1>2, <2>1, <2>2, <2>3, <2>4, <2>5, Types DEF ProcessInv, ScanInv,
        InScan, InReparent
<1>8. OrigInv'
  BY <1>1, <1>2, <1>3, Types DEF ReparentTake, ProcessInv, OrigInv, InReparent
<1>9. StackExclusive'
  BY <1>1, <1>2, <1>3, Types DEF ReparentTake, ProcessInv, StackExclusive
<1>10. ParentStable'
  BY <1>1, <1>2, <1>3, Types DEF ReparentTake, ProcessInv, ParentStable
<1>11. NoLostChild'
  BY <1>1, <1>2, <1>3, Types DEF ReparentTake, ProcessInv, NoLostChild
<1>12. NoOrphan'
  BY <1>1, <1>2, <1>3, Types DEF ReparentTake, ProcessInv, NoOrphan, StateInv
<1> QED
  BY <1>4, <1>5, <1>6, <1>7, <1>8, <1>9, <1>10, <1>11, <1>12 DEF ProcessInv

\* The zombie is off its stack, since its lock is free, and has no children.
LEMMA WaitReapKeeps == \A c \in Cpu, p \in Slot : ProcessInv /\ WaitReap(c, p) => ProcessInv'
<1> SUFFICES ASSUME NEW c \in Cpu, NEW p \in Slot, ProcessInv, WaitReap(c, p)
             PROVE  ProcessInv'
  OBVIOUS
<1> USE Numbers
<1>1. p # 0 /\ cpu[c] = p /\ proc[p].state = "RUNNING" /\ pc[p] = "wait_take"
  BY DEF WaitReap, Runs
<1>2. /\ np[p] \in Slot /\ proc[np[p]].parent = p /\ lock[p] = c
      /\ proc[np[p]].state = "ZOMBIE" /\ lock[np[p]] = 0 /\ np[p] # initproc /\ pc[np[p]] = "user"
  BY <1>1, Types DEF WaitReap, Free, ProcessInv, ScanInv, ParentStable, StateInv, HoldInv, InScan
<1>3. /\ \A x \in Slot \ {np[p]} : proc'[x] = proc[x]
      /\ \/ proc'[np[p]] = proc[np[p]]
         \/ proc'[np[p]].state = "UNUSED" /\ proc'[np[p]].parent = 0
      /\ proc' \in [Slot -> ProcRec]
  <2>1. CASE proc' = proc
    BY <2>1, Types
  <2>2. CASE proc' = [proc EXCEPT ![np[p]] = freeproc(proc[np[p]])]
    BY <2>2, <1>2, Types, FreeprocType DEF freeproc, Unused
  <2> QED
    BY <2>1, <2>2 DEF WaitReap
<1>4. \A d \in Cpu : cpu[d] # np[p]
  BY <1>2, Types DEF ProcessInv, HoldInv
<1>5. TypeOK'
  <2>1. lock' \in [Slot -> Cpu \cup {0}] /\ pc' \in [Slot -> Place]
        /\ np' \in [Slot -> 0..NPROC + 1]
    BY Types DEF WaitReap, WaitReturn, Place
  <2>2. havekids' \in [Slot -> BOOLEAN]
    BY Zenon DEF WaitReap, WaitReturn, ProcessInv, TypeOK
  <2>3. \A s \in Slot : pc'[s] \in {"lock_parent", "lock_self"} => orig'[s] \in Slot
    BY Types DEF WaitReap, WaitReturn, ProcessInv, TypeOK
  <2> QED
    BY <1>3, <2>1, <2>2, <2>3 DEF WaitReap, WaitReturn, ProcessInv, TypeOK
<1>6. StateInv'
  BY <1>1, <1>2, <1>3, <1>4, Types DEF WaitReap, WaitReturn, ProcessInv, StateInv, NoLocks,
      Exiting, InReparent
<1>7. HoldInv'
  BY <1>1, <1>2, <1>3, <1>4, Types DEF WaitReap, WaitReturn, ProcessInv, HoldInv, InScan,
      InReparent
<1>8. ScanInv'
  BY SMTT(40), <1>1, <1>2, <1>3, <1>4, Types DEF WaitReap, WaitReturn, ProcessInv, ScanInv, InScan,
      InReparent
<1>9. OrigInv'
  BY <1>1, <1>2, <1>3, <1>4, Types DEF WaitReap, WaitReturn, ProcessInv, OrigInv, InReparent
<1>10. StackExclusive'
  BY <1>1, <1>2, <1>3, <1>4, Types DEF WaitReap, WaitReturn, ProcessInv, StackExclusive
<1>11. ParentStable'
  BY <1>1, <1>2, <1>3, <1>4, Types DEF WaitReap, WaitReturn, ProcessInv, ParentStable,
      ScanInv
<1>12. NoLostChild'
  BY <1>1, <1>2, <1>3, <1>4, Types DEF WaitReap, WaitReturn, ProcessInv, NoLostChild
<1>13. NoOrphan'
  BY <1>1, <1>2, <1>3, <1>4, Types DEF WaitReap, WaitReturn, ProcessInv, NoOrphan, ProcRec
<1> QED
  BY <1>5, <1>6, <1>7, <1>8, <1>9, <1>10, <1>11, <1>12, <1>13 DEF ProcessInv

\* p has no children left, and its parent, if it is not init, is not in the
\* middle of its scan and is woken.
LEMMA ExitZombieKeeps == \A c \in Cpu, p \in Slot : ProcessInv /\ ExitZombie(c, p) => ProcessInv'
<1> SUFFICES ASSUME NEW c \in Cpu, NEW p \in Slot, ProcessInv, ExitZombie(c, p)
             PROVE  ProcessInv'
  OBVIOUS
<1> USE Numbers
<1>1. p # 0 /\ cpu[c] = p /\ proc[p].state = "RUNNING" /\ pc[p] = "reparent"
  BY DEF ExitZombie, Runs
<1>2. /\ orig[p] \in Slot /\ orig[p] # p /\ p # initproc
      /\ lock[p] = c /\ lock[orig[p]] = c
      /\ orig[p] = proc[p].parent \/ proc[p].parent = initproc
  BY <1>1, Types DEF ProcessInv, OrigInv, HoldInv, StateInv, Exiting, InReparent
<1>3. \A x \in Slot : proc[x].parent # p
  BY <1>1, Types DEF ExitZombie, ProcessInv, ScanInv, InReparent
<1>4. /\ \A x \in Slot : proc'[x].parent = proc[x].parent
      /\ \A x \in Slot \ {p} : /\ proc'[x].chan = proc[x].chan
                               /\ \/ proc'[x].state = proc[x].state
                                  \/ proc[x].state = "SLEEPING" /\ proc'[x].state = "RUNNABLE"
      /\ \A x \in Slot \ {p, orig[p]} : proc'[x] = proc[x]
      /\ proc[orig[p]].state = "SLEEPING" => proc'[orig[p]].state = "RUNNABLE"
      /\ proc'[p].state = "ZOMBIE"
      /\ proc' \in [Slot -> ProcRec]
  <2> DEFINE q == orig[p]
             w == Wakeup1(proc[q], q)
             r == [proc[p] EXCEPT !.state = "ZOMBIE"]
  <2>1. proc' = [proc EXCEPT ![q] = w, ![p] = r]
    BY Zenon, <1>2, Types DEF ExitZombie
  <2>2. proc[q].state = "SLEEPING" => proc[q].chan = q
    BY <1>2 DEF ProcessInv, StateInv
  <2>3. proc[q] \in ProcRec /\ q \in Slot /\ q # p
    BY <1>2, Types
  <2> HIDE DEF q
  <2>4. /\ w \in ProcRec /\ w.parent = proc[q].parent /\ w.chan = proc[q].chan
        /\ w.state = proc[q].state \/ (proc[q].state = "SLEEPING" /\ w.state = "RUNNABLE")
        /\ proc[q].state = "SLEEPING" => w.state = "RUNNABLE"
    BY <2>2, <2>3, WakeupRecord
  <2>5. r \in ProcRec
    BY Zenon, Types, RecordTypes DEF PState
  <2>6. r.state = "ZOMBIE" /\ r.parent = proc[p].parent
    BY Types DEF ProcRec
  <2>7. q = orig[p]
    BY DEF q
  <2> HIDE DEF w, r
  <2>8. proc'[q] = w /\ proc'[p] = r /\ \A x \in Slot \ {p, q} : proc'[x] = proc[x]
    BY <2>1, <2>3, Types
  <2>9. proc' \in [Slot -> ProcRec]
    BY <2>1, <2>3, <2>4, <2>5, Types
  <2> QED
    BY <2>4, <2>6, <2>7, <2>8, <2>9
<1>5. \A q \in Slot : pc[q] \in InScan /\ q # initproc => proc[p].parent # q
  <2> SUFFICES ASSUME NEW q \in Slot, pc[q] \in InScan, orig[p] = q PROVE FALSE
    BY <1>2
  <2>1. proc[q].state = "RUNNING"
    BY Types DEF ProcessInv, StateInv, NoLocks, InScan, ProcRec
  <2>2. PICK d \in Cpu : cpu[d] = q
    BY <2>1 DEF ProcessInv, StateInv
  <2>3. lock[q] = d
    BY <2>2 DEF ProcessInv, HoldInv
  <2> QED
    BY <1>1, <1>2, <2>2, <2>3 DEF InScan
<1>6. TypeOK'
  BY SMTT(40), <1>1, <1>2, <1>3, <1>4, Types DEF ExitZombie, ProcessInv, TypeOK, Place
<1>7. StateInv'
  BY SMTT(40), <1>1, <1>2, <1>3, <1>4, Types DEF ExitZombie, ProcessInv, StateInv
<1>8. HoldInv'
  BY SMTT(40), <1>1, <1>2, <1>3, <1>4, Types DEF ExitZombie, ProcessInv, HoldInv, InScan, InReparent
<1>9. ScanInv'
  BY SMTT(40), <1>1, <1>2, <1>3, <1>4, Types, <1>5 DEF ExitZombie, ProcessInv, ScanInv, InScan,
      InReparent
<1>10. OrigInv'
  BY SMTT(40), <1>1, <1>2, <1>3, <1>4, Types DEF ExitZombie, ProcessInv, OrigInv, InReparent
<1>11. StackExclusive'
  BY <1>1, <1>2, <1>3, <1>4, Types DEF ExitZombie, ProcessInv, StackExclusive
<1>12. ParentStable'
  BY SMTT(40), <1>1, <1>2, <1>3, <1>4, Types DEF ExitZombie, ProcessInv, ParentStable, ScanInv
<1>13. NoLostChild'
  BY <1>1, <1>2, <1>3, <1>4, Types DEF ExitZombie, ProcessInv, NoLostChild
<1>14. NoOrphan'
  <2> SUFFICES ASSUME NEW s \in Slot \ {initproc}, proc'[s].state # "UNUSED"
               PROVE  /\ proc'[s].parent # 0
                      /\ proc'[proc'[s].parent].state \notin {"UNUSED", "ZOMBIE"}
    BY DEF NoOrphan
  <2>1. proc[s].state # "UNUSED"
    BY <1>1, <1>4
  <2>2. PICK q \in Slot : q = proc[s].parent /\ proc[q].state \notin {"UNUSED", "ZOMBIE"}
    BY <2>1, Types DEF ProcessInv, NoOrphan, ProcRec
  <2>3. q # p /\ proc'[s].parent = q
    BY <2>2, <1>3, <1>4
  <2> QED
    BY <2>2, <2>3, <1>4
<1> QED
  BY <1>6, <1>7, <1>8, <1>9, <1>10, <1>11, <1>12, <1>13, <1>14 DEF ProcessInv

\* Nothing happens.
LEMMA StutterKeeps == ProcessInv /\ UNCHANGED vars => ProcessInv'
<1> SUFFICES ASSUME ProcessInv, UNCHANGED vars PROVE ProcessInv'
  OBVIOUS
<1>1. TypeOK' /\ NoOrphan' /\ NoLostChild'
  BY DEF ProcessInv, vars, local, TypeOK, NoOrphan, NoLostChild
<1>2. StateInv' /\ HoldInv' /\ OrigInv'
  BY DEF ProcessInv, vars, local, StateInv, HoldInv, OrigInv
<1>3. ScanInv' /\ StackExclusive' /\ ParentStable'
  BY DEF ProcessInv, vars, local, ScanInv, StackExclusive, ParentStable
<1> QED
  BY <1>1, <1>2, <1>3 DEF ProcessInv

\* Every step keeps the invariant.
LEMMA StepKeeps == ProcessInv /\ [Next]_vars => ProcessInv'
BY DispatchKeeps, SchedKeeps, YieldKeeps, ForkKeeps, KillKeeps, ExitKeeps, ExitWakeInitKeeps,
   ExitReadParentKeeps, ExitLockParentKeeps, ExitLockSelfKeeps, ReparentCheckKeeps,
   ReparentTakeKeeps, ExitZombieKeeps, WaitKeeps, WaitLockKeeps, WaitCheckKeeps, WaitReapKeeps,
   WaitSkipKeeps, WaitFailsKeeps, WaitSleepKeeps, StutterKeeps DEF Next, ExitStep, WaitStep

\* userinit and the first forks.
LEMMA InitInv == Init => ProcessInv
<1> SUFFICES ASSUME Init PROVE ProcessInv
  OBVIOUS
<1> DEFINE n == Len(Parents)
<1>0. proc = [s \in Slot |->
                IF s <= n
                  THEN [Unused EXCEPT !.state = "RUNNABLE", !.parent = Parents[s], !.pid = s]
                  ELSE Unused]
  BY Zenon DEF Init
<1>i. /\ lock = [s \in Slot |-> 0] /\ cpu = [c \in Cpu |-> 0]
      /\ pc = [s \in Slot |-> "user"] /\ np = [s \in Slot |-> 0]
      /\ orig = [s \in Slot |-> 0] /\ nextpid = n + 1
  BY Zenon DEF Init
<1>1. n \in 1..NPROC /\ n \in Nat /\ MaxPid \in Nat /\ n <= MaxPid
  BY ProcessConstants
<1>2. \A s \in Slot : s <= n =>
        /\ Parents[s] \in Slot \cup {0} /\ Parents[s] < s
        /\ s # initproc => Parents[s] \in Slot
  <2>1. Parents[1] = 0 /\ \A s \in 2..n : Parents[s] \in 1..s - 1
    BY ProcessConstants
  <2> HIDE DEF n
  <2> SUFFICES ASSUME NEW s \in Slot, s <= n
               PROVE  /\ Parents[s] \in Slot \cup {0} /\ Parents[s] < s
                      /\ s # initproc => Parents[s] \in Slot
    OBVIOUS
  <2>2. CASE s = 1
    BY <2>1, <2>2 DEF initproc
  <2>3. CASE s # 1
    <3>1. s \in 2..n /\ s \in Nat /\ s <= NPROC
      BY <2>3, <1>1, Numbers DEF Slot
    <3>2. Parents[s] \in 1..s - 1
      BY <2>1, <3>1
    <3> QED
      BY <3>1, <3>2, Numbers DEF Slot
  <2> QED
    BY <2>2, <2>3
<1> HIDE DEF n
<1> USE Numbers
<1>3. /\ proc \in [Slot -> ProcRec]
      /\ \A s \in Slot : IF s <= n
                        THEN proc[s].state = "RUNNABLE" /\ proc[s].parent = Parents[s]
                        ELSE proc[s].state = "UNUSED" /\ proc[s].parent = 0
  <2> DEFINE r(s) == [[[Unused EXCEPT !.state = "RUNNABLE"] EXCEPT !.parent = Parents[s]]
                        EXCEPT !.pid = s]
  <2>1. Unused \in ProcRec
    BY FreeprocType DEF freeproc
  <2>2. ASSUME NEW s \in Slot, s <= n
        PROVE  /\ r(s) \in ProcRec /\ proc[s] = r(s)
               /\ r(s).state = "RUNNABLE" /\ r(s).parent = Parents[s]
    <3>1. [Unused EXCEPT !.state = "RUNNABLE"] \in ProcRec
      BY Zenon, <2>1, RecordTypes DEF PState
    <3>2. [[Unused EXCEPT !.state = "RUNNABLE"] EXCEPT !.parent = Parents[s]] \in ProcRec
      BY Zenon, <3>1, <2>2, <1>2, RecordTypes
    <3>3. s \in 0..MaxPid
      BY <2>2, <1>1
    <3>4. r(s) \in ProcRec
      BY Zenon, <3>2, <3>3, RecordTypes
    <3>5. r(s).state = "RUNNABLE" /\ r(s).parent = Parents[s]
      BY DEF Unused
    <3>6. proc[s] = r(s)
      BY Zenon, <2>2, <1>0
    <3> QED
      BY <3>4, <3>5, <3>6
  <2>3. ASSUME NEW s \in Slot, ~(s <= n)
        PROVE  proc[s] = Unused /\ proc[s].state = "UNUSED" /\ proc[s].parent = 0
    BY <2>3, <1>0 DEF Unused
  <2>4. \A s \in Slot : proc[s] \in ProcRec
    BY ZenonT(40), <2>1, <2>2, <2>3
  <2>5. proc \in [Slot -> ProcRec]
    BY Zenon, <2>4, <1>0
  <2> QED
    BY ZenonT(40), <2>2, <2>3, <2>5
<1>4. TypeOK
  <2>1. havekids \in [Slot -> BOOLEAN]
    BY Zenon DEF Init
  <2>2. nextpid \in 2..MaxPid + 1
    BY <1>i, <1>1
  <2>3. /\ lock \in [Slot -> Cpu \cup {0}] /\ cpu \in [Cpu -> Slot \cup {0}]
        /\ orig \in [Slot -> Slot \cup {0}]
    BY <1>i
  <2>4. pc \in [Slot -> Place] /\ \A s \in Slot : pc[s] = "user"
    BY <1>i DEF Place
  <2>5. np \in [Slot -> 0..NPROC + 1]
    BY <1>i
  <2> QED
    BY <1>3, <2>1, <2>2, <2>3, <2>4, <2>5 DEF TypeOK
<1>5. proc[initproc].state = "RUNNABLE"
  <2>1. initproc <= n
    BY <1>1 DEF initproc
  <2> QED
    BY <1>3, <2>1
<1>6. StateInv /\ HoldInv /\ StackExclusive
  BY <1>i, <1>3, <1>5 DEF StateInv, HoldInv, StackExclusive, NoLocks, Exiting, InReparent
<1>7. ScanInv /\ OrigInv /\ ParentStable
  BY <1>i DEF ScanInv, OrigInv, ParentStable, InScan, InReparent
<1>8. NoLostChild
  BY <1>3 DEF NoLostChild
<1>9. NoOrphan
  <2> SUFFICES ASSUME NEW s \in Slot \ {initproc}, proc[s].state # "UNUSED"
               PROVE  proc[s].parent # 0 /\ proc[proc[s].parent].state \notin {"UNUSED", "ZOMBIE"}
    BY DEF NoOrphan
  <2>1. s <= n /\ proc[s].parent = Parents[s]
    BY <1>3
  <2>2. Parents[s] \in Slot /\ Parents[s] < s
    BY <1>2, <2>1
  <2>3. Parents[s] <= n
    BY <1>1, <2>1, <2>2
  <2> QED
    BY <1>3, <2>1, <2>2, <2>3
<1> QED
  BY <1>4, <1>6, <1>7, <1>8, <1>9 DEF ProcessInv

\* The locks that exit, wait, sleep and the scheduler hold, and what reparent
\* and wait have seen of the table, for any number of slots and CPUs.
THEOREM ProcessInvariant == Spec => []ProcessInv
BY InitInv, StepKeeps, PTL DEF Spec

\* No two CPUs are ever on one kernel stack, and none on that of a free slot:
\* the scheduler takes p->lock, which yield, sleep and exit hold until swtch.
THEOREM StacksAreExclusive == Spec => []StackExclusive
<1>1. ProcessInv => StackExclusive
  BY DEF ProcessInv
<1> QED
  BY ProcessInvariant, <1>1, PTL

\* reparent and wait may test pp->parent before they lock pp: nobody else can
\* change it in between.
THEOREM ParentsAreStable == Spec => []ParentStable
<1>1. ProcessInv => ParentStable
  BY DEF ProcessInv
<1> QED
  BY ProcessInvariant, <1>1, PTL

\* The wakeup of an exiting child is not lost to a parent on its way to sleep
\* in wait().
THEOREM ChildrenAreNotLost == Spec => []NoLostChild
<1>1. ProcessInv => NoLostChild
  BY DEF ProcessInv
<1> QED
  BY ProcessInvariant, <1>1, PTL

\* exit hands every child over before it becomes a zombie, so the parent of a
\* process is always alive.
THEOREM NobodyIsOrphaned == Spec => []NoOrphan
<1>1. ProcessInv => NoOrphan
  BY DEF ProcessInv
<1> QED
  BY ProcessInvariant, <1>1, PTL
=============================================================================
