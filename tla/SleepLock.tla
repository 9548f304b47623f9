----------------------------- MODULE SleepLock ------------------------------
(***************************************************************************)
(* The sleep-locks of kernel/sleeplock.c on top of sleep() and wakeup() of *)
(* kernel/proc.c, with a step for every spinlock acquired or released.     *)
(*                                                                         *)
(* sleep() gives up lk->lk only once it holds p->lock, and wakeup() looks  *)
(* at a process under its p->lock.  The other modules take sleep and       *)
(* wakeup as atomic under the caller's lock; this one shows why they may.  *)
(***************************************************************************)
EXTENDS Naturals

CONSTANT NPROC   \* slots of the process table, all of them users of the lock

ASSUME SleepLockConstants == NPROC \in Nat \ {0}

Proc == 1..NPROC

VARIABLES
  pc,      \* pc[p]: where process p is
  state,   \* state[p]: p->state
  chan,    \* chan[p]: p->chan is the sleep-lock
  plock,   \* plock[p]: who holds p->lock, or 0; the scheduler counts as p
  lk,      \* who holds the spinlock lk->lk, or 0
  locked,  \* lk->locked
  owner,   \* lk->pid, or 0
  i        \* i[p]: the loop of wakeup() called by p

vars == <<pc, state, chan, plock, lk, locked, owner, i>>

Goto(p, l) == pc' = [pc EXCEPT ![p] = l]
-----------------------------------------------------------------------------
(* acquiresleep.                                                           *)

Want(p) ==
  /\ pc[p] = "idle"
  /\ Goto(p, "acquire")
  /\ UNCHANGED <<state, chan, plock, lk, locked, owner, i>>

\* acquire(&lk->lk), at the start and again at the end of sleep().
Acquire(p) ==
  /\ pc[p] = "acquire" /\ lk = 0
  /\ lk' = p
  /\ Goto(p, "test")
  /\ UNCHANGED <<state, chan, plock, locked, owner, i>>

Take_locked(p) ==
  /\ pc[p] = "test"
  /\ locked' = TRUE
  /\ owner' = p
  /\ lk' = 0
  /\ Goto(p, "critical")
  /\ UNCHANGED <<state, chan, plock, i>>

Take(p) ==
  /\ pc[p] = "test" /\ ~locked
  /\ locked' = TRUE
  /\ owner' = p
  /\ lk' = 0
  /\ Goto(p, "critical")
  /\ UNCHANGED <<state, chan, plock, i>>

MustSleep(p) ==
  /\ pc[p] = "test" /\ locked
  /\ Goto(p, "sleep")
  /\ UNCHANGED <<state, chan, plock, lk, locked, owner, i>>
-----------------------------------------------------------------------------
(* sleep(lk, &lk->lk).                                                     *)

SleepAcquire_late(p) ==
  /\ pc[p] = "sleep"
  /\ Goto(p, "sleep_release")
  /\ UNCHANGED <<state, chan, plock, lk, locked, owner, i>>

SleepAcquire(p) ==
  /\ pc[p] = "sleep" /\ plock[p] = 0
  /\ plock' = [plock EXCEPT ![p] = p]
  /\ Goto(p, "sleep_release")
  /\ UNCHANGED <<state, chan, lk, locked, owner, i>>

SleepRelease(p) ==
  /\ pc[p] = "sleep_release"
  /\ lk' = 0
  /\ Goto(p, "sched")
  /\ UNCHANGED <<state, chan, plock, locked, owner, i>>

\* p->state = SLEEPING; sched(); the scheduler releases p->lock.
SleepSched(p) ==
  /\ pc[p] = "sched"
  /\ chan' = [chan EXCEPT ![p] = TRUE]
  /\ state' = [state EXCEPT ![p] = "SLEEPING"]
  /\ plock' = [plock EXCEPT ![p] = 0]
  /\ Goto(p, "asleep")
  /\ UNCHANGED <<lk, locked, owner, i>>

\* The scheduler runs p again, which tidies up and goes for lk->lk.
Resume(p) ==
  /\ pc[p] = "asleep" /\ state[p] = "RUNNABLE" /\ plock[p] = 0
  /\ state' = [state EXCEPT ![p] = "RUNNING"]
  /\ chan' = [chan EXCEPT ![p] = FALSE]
  /\ Goto(p, "acquire")
  /\ UNCHANGED <<plock, lk, locked, owner, i>>

\* kill() wakes a sleeper that nobody called.
Kill(p) ==
  /\ plock[p] = 0 /\ state[p] = "SLEEPING"
  /\ state' = [state EXCEPT ![p] = "RUNNABLE"]
  /\ UNCHANGED <<pc, chan, plock, lk, locked, owner, i>>
-----------------------------------------------------------------------------
(* releasesleep, with the loop of wakeup(lk).                              *)

Release(p) ==
  /\ pc[p] = "critical" /\ lk = 0
  /\ lk' = p
  /\ locked' = FALSE
  /\ owner' = 0
  /\ i' = [i EXCEPT ![p] = 1]
  /\ Goto(p, "wakeup")
  /\ UNCHANGED <<state, chan, plock>>

Wakeup_skips_first(p) ==
  /\ pc[p] = "wakeup" /\ i[p] <= NPROC /\ plock[i[p]] = 0
  /\ state' = IF i[p] > 1 /\ state[i[p]] = "SLEEPING" /\ chan[i[p]]
                THEN [state EXCEPT ![i[p]] = "RUNNABLE"]
                ELSE state
  /\ i' = [i EXCEPT ![p] = @ + 1]
  /\ UNCHANGED <<pc, chan, plock, lk, locked, owner>>

\* One iteration: acquire the p->lock, wake a sleeper, release.
Wakeup(p) ==
  /\ pc[p] = "wakeup" /\ i[p] <= NPROC /\ plock[i[p]] = 0
  /\ state' = IF state[i[p]] = "SLEEPING" /\ chan[i[p]]
                THEN [state EXCEPT ![i[p]] = "RUNNABLE"]
                ELSE state
  /\ i' = [i EXCEPT ![p] = @ + 1]
  /\ UNCHANGED <<pc, chan, plock, lk, locked, owner>>

Done(p) ==
  /\ pc[p] = "wakeup" /\ i[p] > NPROC
  /\ lk' = 0
  /\ i' = [i EXCEPT ![p] = 0]
  /\ Goto(p, "idle")
  /\ UNCHANGED <<state, chan, plock, locked, owner>>
-----------------------------------------------------------------------------
Init ==
  /\ pc = [p \in Proc |-> "idle"]
  /\ state = [p \in Proc |-> "RUNNING"]
  /\ chan = [p \in Proc |-> FALSE]
  /\ plock = [p \in Proc |-> 0]
  /\ lk = 0
  /\ locked = FALSE
  /\ owner = 0
  /\ i = [p \in Proc |-> 0]

\* What a process that wants or has the lock does by itself.
Step(p) ==
  \/ Acquire(p) \/ Take(p) \/ MustSleep(p)
  \/ SleepAcquire(p) \/ SleepRelease(p) \/ SleepSched(p) \/ Resume(p)
  \/ Release(p) \/ Wakeup(p) \/ Done(p)

Next == \E p \in Proc : Want(p) \/ Step(p) \/ Kill(p)

Spec == Init /\ [][Next]_vars

\* Holders release the lock, and the spinlock goes to everyone who spins.
Fairness == \A p \in Proc : SF_vars(Step(p))

FairSpec == Spec /\ Fairness
-----------------------------------------------------------------------------
(* Properties.                                                             *)

TypeOK ==
  /\ pc \in [Proc -> {"idle", "acquire", "test", "sleep", "sleep_release",
                      "sched", "asleep", "critical", "wakeup"}]
  /\ state \in [Proc -> {"RUNNING", "SLEEPING", "RUNNABLE"}]
  /\ chan \in [Proc -> BOOLEAN]
  /\ plock \in [Proc -> Proc \cup {0}]
  /\ lk \in Proc \cup {0}
  /\ locked \in BOOLEAN
  /\ owner \in Proc \cup {0}
  /\ i \in [Proc -> 0..NPROC + 1]

\* holdingsleep() answers yes to the one process between acquiresleep and
\* releasesleep and to no other: brelse, bwrite and iunlock panic on it.
HolderIsExact ==
  \A p \in Proc : pc[p] = "critical" <=> locked /\ owner = p

\* No wakeup is lost: whoever sleeps while the lock is free is about to be
\* reached by the wakeup() of the process that freed it.
NoLostWakeup ==
  \A p \in Proc :
    state[p] = "SLEEPING" /\ ~locked =>
      \E q \in Proc : pc[q] = "wakeup" /\ i[q] \in 1..p

\* The inductive invariant behind both.  Who holds which spinlock follows
\* from where it is; a process that wants to sleep has seen the lock taken,
\* and since then a wakeup() either runs or still has to come past it.
SleepInv ==
  /\ \A p \in Proc :
       /\ pc[p] \in {"test", "sleep", "sleep_release", "wakeup"} <=> lk = p
       /\ plock[p] = IF pc[p] \in {"sleep_release", "sched"} THEN p ELSE 0
       /\ state[p] = "SLEEPING" => pc[p] = "asleep" /\ chan[p]
       /\ pc[p] \in {"sleep", "sleep_release"} => locked
       /\ pc[p] = "wakeup" => ~locked /\ i[p] \in 1..NPROC + 1
       /\ (pc[p] = "sched" \/ state[p] = "SLEEPING") /\ ~locked =>
            \E q \in Proc : pc[q] = "wakeup" /\ i[q] \in 1..p
  /\ HolderIsExact
  /\ locked => owner \in Proc

\* A sleeper is woken, even if others keep taking the lock in between.
SleeperWakes ==
  \A p \in Proc : state[p] = "SLEEPING" ~> state[p] # "SLEEPING"
=============================================================================
