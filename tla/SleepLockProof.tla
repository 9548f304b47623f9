--------------------------- MODULE SleepLockProof ---------------------------
(***************************************************************************)
(* Sleep-locks exclude each other and sleep/wakeup loses no wakeup, for    *)
(* any size of the process table.                                          *)
(***************************************************************************)
EXTENDS SleepLock, TLAPS

LEMMA InitInv == Init => TypeOK /\ SleepInv
<1> SUFFICES ASSUME Init PROVE TypeOK /\ SleepInv
  OBVIOUS
<1> USE SleepLockConstants DEF Init, Proc
<1>1. TypeOK
  <2>1. locked \in BOOLEAN
    BY Zenon
  <2>2. chan \in [Proc -> BOOLEAN]
    BY Zenon
  <2> QED
    BY <2>1, <2>2 DEF TypeOK
<1>2. SleepInv
  BY DEF SleepInv, HolderIsExact
<1> QED
  BY <1>1, <1>2

\* Boolean-valued variables keep their type.
LEMMA TypeStep == TypeOK /\ SleepInv /\ [Next]_vars => TypeOK'
<1> SUFFICES ASSUME TypeOK, SleepInv, [Next]_vars PROVE TypeOK'
  OBVIOUS
<1> USE SleepLockConstants DEF Goto
<1>1. CASE UNCHANGED vars
  BY <1>1 DEF TypeOK, vars
<1>2. ASSUME NEW p \in Proc, Want(p) \/ Step(p) \/ Kill(p)
      PROVE  TypeOK'
  <2> USE <1>2
  <2>1. locked' \in BOOLEAN
    <3>1. locked' = locked \/ locked' = TRUE \/ locked' = FALSE
      BY DEF Want, Step, Kill, Acquire, Take, MustSleep, SleepAcquire,
         SleepRelease, SleepSched, Resume, Release, Wakeup, Done
    <3> QED
      BY <3>1, Zenon DEF TypeOK
  <2>2. chan' \in [Proc -> BOOLEAN]
    <3>1. \/ chan' = chan
          \/ chan' = [chan EXCEPT ![p] = TRUE]
          \/ chan' = [chan EXCEPT ![p] = FALSE]
      BY DEF Want, Step, Kill, Acquire, Take, MustSleep, SleepAcquire,
         SleepRelease, SleepSched, Resume, Release, Wakeup, Done
    <3> QED
      BY <3>1, Zenon DEF TypeOK
  <2>3. pc' \in [Proc -> {"idle", "acquire", "test", "sleep", "sleep_release",
                          "sched", "asleep", "critical", "wakeup"}]
    BY DEF Want, Step, Kill, Acquire, Take, MustSleep, SleepAcquire,
       SleepRelease, SleepSched, Resume, Release, Wakeup, Done, TypeOK
  <2>4. state' \in [Proc -> {"RUNNING", "SLEEPING", "RUNNABLE"}]
    BY DEF Want, Step, Kill, Acquire, Take, MustSleep, SleepAcquire,
       SleepRelease, SleepSched, Resume, Release, Wakeup, Done, TypeOK
  <2>5. plock' \in [Proc -> Proc \cup {0}]
    BY DEF Want, Step, Kill, Acquire, Take, MustSleep, SleepAcquire,
       SleepRelease, SleepSched, Resume, Release, Wakeup, Done, TypeOK
  <2>6. lk' \in Proc \cup {0} /\ owner' \in Proc \cup {0}
    BY DEF Want, Step, Kill, Acquire, Take, MustSleep, SleepAcquire,
       SleepRelease, SleepSched, Resume, Release, Wakeup, Done, TypeOK
  <2>7. i' \in [Proc -> 0..NPROC + 1]
    BY DEF Want, Step, Kill, Acquire, Take, MustSleep, SleepAcquire,
       SleepRelease, SleepSched, Resume, Release, Wakeup, Done, TypeOK
  <2> QED
    BY <2>1, <2>2, <2>3, <2>4, <2>5, <2>6, <2>7 DEF TypeOK
<1> QED
  BY <1>1, <1>2 DEF Next

\* One case per action.
LEMMA InvStep == TypeOK /\ SleepInv /\ [Next]_vars => SleepInv'
<1> SUFFICES ASSUME TypeOK, SleepInv, [Next]_vars PROVE SleepInv'
  OBVIOUS
<1> USE SleepLockConstants DEF TypeOK, SleepInv, HolderIsExact, Goto, Proc
<1>0. CASE UNCHANGED vars
  BY <1>0 DEF vars
<1>1. ASSUME NEW p \in Proc, Want(p) PROVE SleepInv'
  BY <1>1 DEF Want
<1>2. ASSUME NEW p \in Proc, Acquire(p) PROVE SleepInv'
  BY <1>2 DEF Acquire
<1>3. ASSUME NEW p \in Proc, Take(p) PROVE SleepInv'
  BY <1>3 DEF Take
<1>4. ASSUME NEW p \in Proc, MustSleep(p) PROVE SleepInv'
  BY <1>4 DEF MustSleep
<1>5. ASSUME NEW p \in Proc, SleepAcquire(p) PROVE SleepInv'
  BY <1>5 DEF SleepAcquire
<1>6. ASSUME NEW p \in Proc, SleepRelease(p) PROVE SleepInv'
  BY <1>6 DEF SleepRelease
<1>7. ASSUME NEW p \in Proc, SleepSched(p) PROVE SleepInv'
  BY <1>7 DEF SleepSched
<1>8. ASSUME NEW p \in Proc, Resume(p) PROVE SleepInv'
  BY <1>8 DEF Resume
<1>9. ASSUME NEW p \in Proc, Kill(p) PROVE SleepInv'
  BY <1>9 DEF Kill
<1>10. ASSUME NEW p \in Proc, Release(p) PROVE SleepInv'
  BY <1>10 DEF Release
<1>11. ASSUME NEW p \in Proc, Wakeup(p) PROVE SleepInv'
  BY <1>11 DEF Wakeup
<1>12. ASSUME NEW p \in Proc, Done(p) PROVE SleepInv'
  BY <1>12 DEF Done
<1> QED
  BY <1>0, <1>1, <1>2, <1>3, <1>4, <1>5, <1>6, <1>7, <1>8, <1>9, <1>10, <1>11, <1>12 DEF Next, Step

\* For every NPROC: the invariant that sleep() and wakeup() keep together.
THEOREM SleepInvariant == Spec => [](TypeOK /\ SleepInv)
<1>1. TypeOK /\ SleepInv /\ [Next]_vars => (TypeOK /\ SleepInv)'
  BY TypeStep, InvStep
<1> QED
  BY InitInv, <1>1, PTL DEF Spec

\* At most one process is between acquiresleep() and releasesleep(), and
\* holdingsleep() knows which.
THEOREM SleepLocksExclude == Spec => []HolderIsExact
<1>1. TypeOK /\ SleepInv => HolderIsExact
  BY DEF SleepInv
<1> QED
  BY SleepInvariant, <1>1, PTL

\* sleep() releases lk->lk only under p->lock, so the wakeup() of a
\* releasesleep() that comes in between still finds the sleeper.
THEOREM WakeupsAreNotLost == Spec => []NoLostWakeup
<1>1. TypeOK /\ SleepInv => NoLostWakeup
  BY DEF SleepInv, NoLostWakeup
<1> QED
  BY SleepInvariant, <1>1, PTL
=============================================================================
