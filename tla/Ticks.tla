------------------------------- MODULE Ticks --------------------------------
(***************************************************************************)
(* sys_sleep and clockintr: processes that sleep for a number of ticks of  *)
(* a counter that wraps.  Everything between acquire and release of        *)
(* tickslock is a step, but for the way into sleep: kill takes only        *)
(* p->lock, so it fits between the test of killed and sleep's acquire of   *)
(* that lock, with tickslock still held.                                   *)
(***************************************************************************)
EXTENDS Integers

CONSTANTS Proc,
          TwoW,    \* 2^32, scaled down: an int is -(TwoW \div 2) .. TwoW \div 2 - 1
          N,       \* the arguments of sleep
          MaxLag   \* bound: ticks a process that is ready may wait for a CPU

VARIABLES
  ticks,
  st,       \* per process: "user", "ready" (in the loop), "tosleep" (with tickslock), "asleep"
  ticks0, n, killed,
  since,    \* ticks since the call, up to TwoW
  lag,      \* ticks since the process became ready
  ret       \* what the last call to return gave; -1 again when another is made
vars == <<ticks, st, ticks0, n, killed, since, lag, ret>>

Unsigned(i) == i % TwoW
Elapsed(p) == (ticks - ticks0[p]) % TwoW

\* argint takes n as an int; the comparison makes it unsigned again.
Before_signed(p) == ticks < ticks0[p] + n[p]
Before(p) == Elapsed(p) < Unsigned(n[p])

TicksLockFree == \A p \in Proc : st[p] # "tosleep"

Sleep(p, k) ==
  /\ st[p] = "user" /\ ~killed[p] /\ TicksLockFree
  /\ st' = [st EXCEPT ![p] = "ready"] /\ ticks0' = [ticks0 EXCEPT ![p] = ticks] /\ n' = [n EXCEPT ![p] = k]
  /\ since' = [since EXCEPT ![p] = 0] /\ lag' = [lag EXCEPT ![p] = 0]
  /\ ret' = -1 /\ UNCHANGED <<ticks, killed>>

Return(p, r) ==
  /\ st' = [st EXCEPT ![p] = "user"] /\ ret' = r
  /\ ticks0' = [ticks0 EXCEPT ![p] = 0] /\ n' = [n EXCEPT ![p] = 0]
  /\ since' = [since EXCEPT ![p] = 0] /\ lag' = [lag EXCEPT ![p] = 0]
  /\ UNCHANGED <<ticks, killed>>

\* One passage of the loop; the test of killed is only made before sleeping.
Loop(p) ==
  /\ st[p] = "ready" /\ TicksLockFree
  /\ \/ ~Before(p) /\ Return(p, 0)
     \/ Before(p) /\ killed[p] /\ Return(p, -1)
     \/ /\ Before(p) /\ ~killed[p] /\ st' = [st EXCEPT ![p] = "tosleep"]
        /\ UNCHANGED <<ticks, ticks0, n, killed, since, lag, ret>>

\* sleep takes p->lock, gives tickslock up and is SLEEPING before it gives
\* p->lock up; it does not look at killed again.
FallAsleep(p) ==
  /\ st[p] = "tosleep" /\ st' = [st EXCEPT ![p] = "asleep"]
  /\ UNCHANGED <<ticks, ticks0, n, killed, since, lag, ret>>

Wake(S) == [p \in Proc |-> IF p \in S /\ st[p] = "asleep" THEN "ready" ELSE st[p]]

Later == (ticks + 1) % TwoW

ClockIntr ==
  /\ TicksLockFree
  /\ \A p \in Proc : st[p] = "ready" => lag[p] < MaxLag
  /\ ticks' = Later
  /\ st' = Wake(Proc)
  /\ since' = [p \in Proc |-> IF st[p] # "user" /\ since[p] < TwoW THEN since[p] + 1 ELSE since[p]]
  /\ lag' = [p \in Proc |-> IF st[p] = "ready" THEN lag[p] + 1 ELSE 0]
  /\ UNCHANGED <<ticks0, n, killed, ret>>

Kill(p) ==
  /\ st[p] # "user" /\ killed' = [killed EXCEPT ![p] = TRUE] /\ st' = Wake({p})
  /\ UNCHANGED <<ticks, ticks0, n, since, lag, ret>>

\* usertrap: a killed process exits, and its slot starts another.
Exit(p) ==
  /\ st[p] = "user" /\ killed[p] /\ killed' = [killed EXCEPT ![p] = FALSE]
  /\ UNCHANGED <<ticks, st, ticks0, n, since, lag, ret>>

Init ==
  /\ ticks = 0 /\ st = [p \in Proc |-> "user"] /\ ticks0 = [p \in Proc |-> 0] /\ n = [p \in Proc |-> 0]
  /\ killed = [p \in Proc |-> FALSE] /\ since = [p \in Proc |-> 0] /\ lag = [p \in Proc |-> 0]
  /\ ret = -1
Next == ClockIntr \/ \E p \in Proc : Loop(p) \/ FallAsleep(p) \/ Kill(p) \/ Exit(p) \/ \E k \in N : Sleep(p, k)
Spec == Init /\ [][Next]_vars
-----------------------------------------------------------------------------
TypeOK ==
  /\ ticks \in 0..TwoW - 1 /\ st \in [Proc -> {"user", "ready", "tosleep", "asleep"}] /\ ticks0 \in [Proc -> 0..TwoW - 1]
  /\ killed \in [Proc -> BOOLEAN] /\ since \in [Proc -> 0..TwoW] /\ lag \in [Proc -> 0..MaxLag]

\* In any step: sleep(n) returns 0 only when n ticks have passed, also when the counter
\* wraps in between; a negative n counts as its unsigned value.
SleepsLongEnough ==
  \A p \in Proc : st[p] = "ready" /\ st'[p] = "user" /\ ret' = 0 => since[p] >= Unsigned(n[p])

\* A sleep that ends, however late the process is scheduled as long as the
\* lateness stays under the wrap: of n >= 0 ticks, or of a killed process,
\* although one that kill found on its way into sleep sleeps to the next tick.
MustReturn(p) == st[p] # "user" /\ (n[p] >= 0 \/ killed[p])
=============================================================================
