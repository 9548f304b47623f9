---------------------------- MODULE MCPrograms ------------------------------
(***************************************************************************)
(* The shell, primes and the clock for TLC, one at a time: an initial      *)
(* state chooses a part, and the behaviour is that part's alone.  The      *)
(* variables of the other parts are Off.                                   *)
(***************************************************************************)
EXTENDS Integers

CONSTANT Off

VARIABLES part, buf,
  proc, ofile, disk, console, want,                       \* the shell
  ticks, st, ticks0, n, killed, since, lag, ret,          \* the clock
  pc, num, printed, forks, failed, cap                    \* primes

sh     == <<buf, proc, ofile, disk, console, want>>
clock  == <<ticks, st, ticks0, n, killed, since, lag, ret>>
primes == <<buf, pc, num, printed, forks, failed, cap>>
all    == <<part, sh, clock, primes>>
-----------------------------------------------------------------------------
echo(t) == [type |-> "exec", prog |-> "echo", tag |-> t]
cat == [type |-> "exec", prog |-> "cat", tag |-> 0]
none == [type |-> "exec", prog |-> "none", tag |-> 0]
list(l, r) == [type |-> "list", left |-> l, right |-> r]
pipe(l, r) == [type |-> "pipe", left |-> l, right |-> r]
back(c) == [type |-> "back", cmd |-> c]
redir(c, f, t) == [type |-> "redir", cmd |-> c, fd |-> f, trunc |-> t]
cd(d) == [type |-> "cd", dir |-> d]

\* Redirections, lists and cd, one line at a time.
Plain == {redir(list(echo(1), echo(2)), 1, TRUE), redir(echo(3), 1, FALSE),
          list(redir(cat, 0, FALSE), echo(1)), list(none, echo(2)), cd(1), cd(2)}
F == INSTANCE Shell WITH NPROC <- 6, NPIPE <- 3, PIPESIZE <- 2, Line <- Plain, MaxLeft <- 0

\* Pipelines, one at a time.
Pipelines == {pipe(echo(1), pipe(cat, cat)), list(pipe(echo(1), cat), echo(2)),
              pipe(list(echo(1), echo(2)), cat), pipe(list(echo(1), echo(2)), none)}
P == INSTANCE Shell WITH NPROC <- 8, NPIPE <- 2, PIPESIZE <- 1, Line <- Pipelines, MaxLeft <- 0

\* Pipelines beside a background job.
Jobs == {pipe(list(echo(1), echo(2)), cat), pipe(echo(1), none), back(echo(9))}
B == INSTANCE Shell WITH NPROC <- 8, NPIPE <- 1, PIPESIZE <- 2, Line <- Jobs, MaxLeft <- 1

\* Few slots, so that forks fail, those of sh and of init too.
Crowd == {redir(redir(cat, 1, TRUE), 0, FALSE), pipe(echo(1), pipe(cat, cat)), back(list(none, none))}
C == INSTANCE Shell WITH NPROC <- 5, NPIPE <- 1, PIPESIZE <- 1, Line <- Crowd, MaxLeft <- 2

\* A counter of two bits, and sleeps of 3 (as -1), 0 and 1 ticks.
Sleepers == 1..2
Args == {-1, 0, 1}
T == INSTANCE Ticks WITH Proc <- Sleepers, TwoW <- 4, N <- Args, MaxLag <- 1

\* The primes up to 9; any number of forks may succeed.
AnyNumber == 0..10
\* Pipes that fill, and pipes that all numbers fit in.
Sizes == {1, 8}
S == INSTANCE Primes WITH Limit <- 9, Caps <- Sizes, Forks <- AnyNumber
-----------------------------------------------------------------------------
Shells == {"plain", "pipelines", "jobs", "crowd"}
NoShell == proc = Off /\ ofile = Off /\ disk = Off /\ console = Off /\ want = Off
NoClock ==
  /\ ticks = Off /\ st = Off /\ ticks0 = Off /\ n = Off
  /\ killed = Off /\ since = Off /\ lag = Off /\ ret = Off
NoPrimes == pc = Off /\ num = Off /\ printed = Off /\ forks = Off /\ failed = Off /\ cap = Off

Init ==
  /\ part \in Shells \cup {"clock", "primes"}
  /\ CASE part = "plain" -> F!Init [] part = "pipelines" -> P!Init [] part = "jobs" -> B!Init
       [] part = "crowd" -> C!Init [] OTHER -> NoShell
  /\ IF part = "clock" THEN T!Init /\ buf = Off ELSE NoClock
  /\ IF part = "primes" THEN S!Init ELSE NoPrimes

Next ==
  \/ /\ \/ part = "plain" /\ F!Next
        \/ part = "pipelines" /\ P!Next
        \/ part = "jobs" /\ B!Next
        \/ part = "crowd" /\ C!Next
     /\ UNCHANGED <<part, clock, pc, num, printed, forks, failed, cap>>
  \/ part = "clock" /\ T!Next /\ UNCHANGED <<part, sh, primes>>
  \/ part = "primes" /\ S!Next /\ UNCHANGED <<part, clock, proc, ofile, disk, console, want>>

Spec == Init /\ [][Next]_all

\* While some process of a program can run one does (which one is left open,
\* and nobody has to type); a sleeper that is ready gets a CPU, the clock goes
\* on, and tickslock goes to everyone who spins for it.
FairSpec ==
  /\ Spec
  /\ WF_sh(\/ part = "plain" /\ F!SomeStep
           \/ part = "pipelines" /\ P!SomeStep
           \/ part = "jobs" /\ B!SomeStep
           \/ part = "crowd" /\ C!SomeStep)
  /\ WF_primes(part = "primes" /\ S!Next)
  /\ SF_clock(part = "clock" /\ T!ClockIntr)
  /\ \A p \in Sleepers : SF_clock(part = "clock" /\ (T!Loop(p) \/ T!FallAsleep(p)))
-----------------------------------------------------------------------------
\* sh.c and init.c: when sh prompts again, the line it was given has had its
\* whole effect and no other; every wait(0) is called with a child to wait
\* for, also when forks fail; and whatever is typed, an end of file too, sh
\* prompts again: each reader of a pipe sees its end, each child is waited
\* for, and init replaces a shell that ended.  The one exception is an init
\* that finds no slot for a new shell: it exits, and the kernel panics.
ShellRight ==
  /\ [](part = "plain" => F!TypeOK /\ F!LineDone /\ F!WaitsForSomeone)
  /\ [](part = "pipelines" => P!TypeOK /\ P!LineDone /\ P!WaitsForSomeone)
  /\ [](part = "jobs" => B!TypeOK /\ B!LineDone /\ B!WaitsForSomeone)
  /\ [](part = "crowd" => C!TypeOK /\ C!WaitsForSomeone)
  /\ [](part \in {"plain", "pipelines", "jobs"} => ~F!Panicked)
  /\ []<>CASE part = "plain" -> F!AtPrompt [] part = "pipelines" -> P!AtPrompt
            [] part = "jobs" -> B!AtPrompt [] part = "crowd" -> C!AtPrompt \/ C!Panicked [] OTHER -> TRUE

\* sys_sleep returns 0 only after its ticks, also when the counter wraps; a
\* sleep of n >= 0 ticks ends, and so does one of a killed process, wherever
\* kill found it.
SleepRight ==
  /\ [](part = "clock" => T!TypeOK)
  /\ [][part = "clock" => T!SleepsLongEnough]_all
  /\ \A p \in Sleepers : (part = "clock" /\ T!MustReturn(p)) ~> (part = "clock" /\ st[p] = "user")

\* primes.c: whatever the stages' speeds and whichever fork fails, it prints
\* the beginning of the list of primes, all of it when no fork failed, before
\* main exits; every process of it exits.
PrimesRight ==
  /\ [](part = "primes" => S!TypeOK /\ S!PrimesInOrder /\ S!ExitsLast)
  /\ <>(part = "primes" => S!AllExited)
=============================================================================
