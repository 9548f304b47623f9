------------------------------- MODULE Primes -------------------------------
(***************************************************************************)
(* user/primes.c: a chain of processes joined by pipes.  Stage 0 is main,  *)
(* stage 1 child1, which passes on the primes, and every stage after that  *)
(* childothers, which prints the first number it reads and passes on the   *)
(* rest.  Pipe s leads into stage s.  A fork and the closes each side does *)
(* right after it are one step.                                            *)
(***************************************************************************)
EXTENDS Integers, Sequences, SequencesExt

CONSTANTS Limit,   \* main sends 2..Limit; 35 in the code
          Caps,    \* numbers a pipe may hold: 128 in the code, more than main sends
          Forks    \* forks (or pipes) that succeed before they fail

VARIABLES
  pc,       \* per stage: "none", "fork", "first", "loop", "write", "wait", "exited"
  buf,      \* per stage: its pipe
  num,      \* per stage: the number in hand; in main the next to send
  printed, forks, failed,
  cap       \* numbers a pipe holds
vars == <<pc, buf, num, printed, forks, failed, cap>>

Stage == 0..Limit + 1

IsPrime(n) == \A i \in 2..n - 1 : n % i # 0

\* Whether somebody still has an end of pipe s open.  What child1 reads from
\* stays open in its descendants.
Reader(s) ==
  \/ pc[s] \in {"fork", "first", "loop", "write"}
  \/ s = 1 /\ \E t \in Stage : t > 1 /\ pc[t] \notin {"none", "exited"}
Writer(s) == pc[s - 1] \in {"fork", "loop", "write"}

Go(s, where) == pc' = [pc EXCEPT ![s] = where]

\* pipe and fork: main, child1 and childothers all leave when they fail.
Fork(s) ==
  /\ pc[s] = "fork"
  /\ \/ /\ forks > 0 /\ forks' = forks - 1 /\ UNCHANGED failed
        /\ pc' = [pc EXCEPT ![s] = "loop", ![s + 1] = IF s = 0 THEN "fork" ELSE "first"]
     \/ forks = 0 /\ Go(s, "exited") /\ failed' = TRUE /\ UNCHANGED forks
  /\ UNCHANGED <<buf, num, printed, cap>>

\* pipewrite takes a number while the pipe has room, whether or not anybody
\* reads; on a full pipe it waits for a reader, or fails if there is none.
Put(s, n) == Len(buf[s]) < cap /\ buf' = [buf EXCEPT ![s] = Append(@, n)]
Refused(s) == Len(buf[s]) = cap /\ ~Reader(s) /\ UNCHANGED buf

More == num[0] <= Limit
\* main's loop: leave when a write fails, close and wait at the end.
MainWrites ==
  /\ pc[0] = "loop"
  /\ \/ More /\ Put(1, num[0]) /\ num' = [num EXCEPT ![0] = @ + 1] /\ UNCHANGED pc
     \/ More /\ Refused(1) /\ Go(0, "exited") /\ UNCHANGED num
     \/ ~More /\ Go(0, "wait") /\ UNCHANGED <<buf, num>>
  /\ UNCHANGED <<printed, forks, failed, cap>>

\* What stage s does with n: child1 drops what is no prime.
AfterRead(s, n) == IF s = 1 /\ ~IsPrime(n) THEN "loop" ELSE "write"

Take(s, where) ==
  /\ buf[s] # <<>> /\ Go(s, where)
  /\ buf' = [buf EXCEPT ![s] = Tail(@)]
Ended(s) == buf[s] = <<>> /\ ~Writer(s) /\ UNCHANGED buf

First(s) ==
  /\ pc[s] = "first"
  /\ \/ Take(s, "fork") /\ printed' = Append(printed, Head(buf[s]))
     \/ Ended(s) /\ Go(s, "exited") /\ UNCHANGED printed
  /\ UNCHANGED <<num, forks, failed, cap>>

Read(s) ==
  /\ s > 0 /\ pc[s] = "loop"
  /\ \/ /\ buf[s] # <<>> /\ Take(s, AfterRead(s, Head(buf[s])))
        /\ num' = [num EXCEPT ![s] = IF AfterRead(s, Head(buf[s])) = "write" THEN Head(buf[s]) ELSE 0]
     \/ Ended(s) /\ Go(s, "wait") /\ UNCHANGED num
  /\ UNCHANGED <<printed, forks, failed, cap>>

\* child1 does not look at what write returns; childothers closes and waits.
Write(s) ==
  /\ pc[s] = "write" /\ num' = [num EXCEPT ![s] = 0]
  /\ \/ Put(s + 1, num[s]) /\ Go(s, "loop")
     \/ Refused(s + 1) /\ Go(s, IF s = 1 THEN "loop" ELSE "wait")
  /\ UNCHANGED <<printed, forks, failed, cap>>

Wait_not(s) == pc[s] = "wait" /\ Go(s, "exited") /\ UNCHANGED <<buf, num, printed, forks, failed, cap>>
Wait(s) == pc[s] = "wait" /\ pc[s + 1] = "exited" /\ Go(s, "exited") /\ UNCHANGED <<buf, num, printed, forks, failed, cap>>

Init ==
  /\ pc = [s \in Stage |-> IF s = 0 THEN "fork" ELSE "none"] /\ buf = [s \in Stage |-> <<>>]
  /\ num = [s \in Stage |-> IF s = 0 THEN 2 ELSE 0] /\ printed = <<>>
  /\ forks \in Forks /\ failed = FALSE /\ cap \in Caps
Next == MainWrites \/ \E s \in Stage : Fork(s) \/ First(s) \/ Read(s) \/ Write(s) \/ Wait(s)
Spec == Init /\ [][Next]_vars
-----------------------------------------------------------------------------
TypeOK ==
  /\ pc \in [Stage -> {"none", "fork", "first", "loop", "write", "wait", "exited"}]
  /\ \A s \in Stage : Len(buf[s]) <= cap
  /\ num \in [Stage -> 0..Limit + 1] /\ forks \in 0..Limit + 1

\* The primes by their definition, in order.
AllPrimes == SelectSeq([i \in 1..Limit - 1 |-> i + 1], LAMBDA n : ~\E a, b \in 2..n : a * b = n)

\* Whatever the stages' speeds and whichever fork fails, what has been printed
\* is the beginning of the list of primes.
PrimesInOrder == IsPrefix(printed, AllPrimes)

\* When main exits all primes up to Limit are printed, unless a fork failed.
ExitsLast == pc[0] = "exited" => failed \/ printed = AllPrimes

\* In the end every process has exited: each stage sees the end of its input although its
\* neighbours inherited descriptors, also when the chain breaks.
AllExited == \A s \in Stage : pc[s] \in {"none", "exited"}
=============================================================================
