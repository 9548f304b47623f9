------------------------------ MODULE Console -------------------------------
(***************************************************************************)
(* Console input: consoleintr edits a line in the ring cons.buf, and       *)
(* consoleread takes complete lines from it.  cons.lock is held from the   *)
(* start of a call to its end except while it sleeps.                      *)
(***************************************************************************)
EXTENDS Integers, Sequences, FiniteSets

CONSTANTS Proc, NoProc,
          Char, NL, EOF,   \* characters; newline and control-D are two of them
          INPUT_BUF,       \* bytes in the ring (128)
          UintMod,         \* values of an unsigned int (2^32), a multiple of INPUT_BUF
          MaxN             \* largest n of a read

VARIABLES buf, r, w, e,      \* the fields of cons
          lock,              \* who holds cons.lock
          pc, left, got,     \* where a reader is, n, and target - n
          killed,
          zero, marks        \* reads a mark ended with 0 bytes, and marks consumed

cons == <<buf, r, w, e>>
vars == <<cons, lock, pc, left, got, killed, zero, marks>>

Inc(i) == (i + 1) % UintMod
Dec(i) == (i - 1) % UintMod

\* wakeup(&cons.r).
Wakeup(f) == [p \in Proc |-> IF f[p] = "sleep" THEN "wake" ELSE f[p]]
-----------------------------------------------------------------------------
(* consoleintr.  Control-P prints and changes nothing.                     *)

HasRoom == (e - r) % UintMod < INPUT_BUF

Type(c) ==
  /\ lock = NoProc /\ HasRoom
  /\ buf' = [buf EXCEPT ![e % INPUT_BUF] = c]
  /\ e' = Inc(e)
  /\ IF c \in {NL, EOF} \/ Inc(e) = (r + INPUT_BUF) % UintMod
     THEN w' = Inc(e) /\ pc' = Wakeup(pc)
     ELSE UNCHANGED <<w, pc>>
  /\ UNCHANGED <<r, lock, left, got, killed, zero, marks>>

Backspace ==
  /\ lock = NoProc /\ e # w
  /\ e' = Dec(e)
  /\ UNCHANGED <<buf, r, w, lock, pc, left, got, killed, zero, marks>>

\* Control-U: the loop stops at w or behind a newline.
KillLine ==
  /\ lock = NoProc
  /\ \E k \in 0..INPUT_BUF :
       LET Stop(j) == \/ (e - j) % UintMod = w
                      \/ buf[(e - j - 1) % INPUT_BUF] = NL
       IN  Stop(k) /\ (\A j \in 0..k - 1 : ~Stop(j)) /\ e' = (e - k) % UintMod
  /\ UNCHANGED <<buf, r, w, lock, pc, left, got, killed, zero, marks>>
-----------------------------------------------------------------------------
(* consoleread.                                                            *)

Read(p) ==
  /\ pc[p] = "user" /\ lock = NoProc /\ ~killed[p]
  /\ \E n \in 1..MaxN : left' = [left EXCEPT ![p] = n]
  /\ got' = [got EXCEPT ![p] = 0]
  /\ lock' = p /\ pc' = [pc EXCEPT ![p] = "read"]
  /\ UNCHANGED <<cons, killed, zero, marks>>

\* Nothing to read: sleep, or return if killed.
ReadWait(p) ==
  /\ pc[p] = "read" /\ r = w
  /\ pc' = [pc EXCEPT ![p] = IF killed[p] THEN "user" ELSE "sleep"]
  /\ lock' = NoProc
  /\ UNCHANGED <<cons, left, got, killed, zero, marks>>

Return(p) == lock' = NoProc /\ pc' = [pc EXCEPT ![p] = "user"]

EndOfFile(p, save) ==
  /\ pc[p] = "read" /\ r # w /\ buf[r % INPUT_BUF] = EOF
  /\ r' = IF save THEN r ELSE Inc(r)
  /\ marks' = IF save THEN marks ELSE (marks + 1) % 2
  /\ zero' = IF got[p] = 0 THEN (zero + 1) % 2 ELSE zero
  /\ Return(p)
  /\ UNCHANGED <<buf, w, e, left, got, killed>>

ReadEof_consumed(p) == EndOfFile(p, FALSE)
\* Control-D ends the read; if it already has bytes the mark stays.
ReadEof(p) == EndOfFile(p, got[p] > 0)

\* One byte; the call ends with a newline or with its last byte.
ReadChar(p) ==
  /\ pc[p] = "read" /\ r # w /\ buf[r % INPUT_BUF] # EOF
  /\ r' = Inc(r)
  /\ left' = [left EXCEPT ![p] = @ - 1]
  /\ got' = [got EXCEPT ![p] = @ + 1]
  /\ IF buf[r % INPUT_BUF] = NL \/ left[p] = 1 THEN Return(p) ELSE UNCHANGED <<lock, pc>>
  /\ UNCHANGED <<buf, w, e, killed, zero, marks>>

\* The same, but copyout fails: the byte is gone and the call ends.
CopyFails(p) ==
  /\ pc[p] = "read" /\ r # w /\ buf[r % INPUT_BUF] # EOF
  /\ r' = Inc(r)
  /\ Return(p)
  /\ UNCHANGED <<buf, w, e, left, got, killed, zero, marks>>

Resume(p) ==
  /\ pc[p] = "wake" /\ lock = NoProc
  /\ lock' = p /\ pc' = [pc EXCEPT ![p] = "read"]
  /\ UNCHANGED <<cons, left, got, killed, zero, marks>>

Kill(p) ==
  /\ ~killed[p]
  /\ killed' = [killed EXCEPT ![p] = TRUE]
  /\ pc' = [pc EXCEPT ![p] = IF @ = "sleep" THEN "wake" ELSE @]
  /\ UNCHANGED <<cons, lock, left, got, zero, marks>>
-----------------------------------------------------------------------------
\* consoleinit.
Init ==
  /\ buf = [i \in 0..INPUT_BUF - 1 |-> NL]
  /\ r = 0 /\ w = 0 /\ e = 0
  /\ lock = NoProc
  /\ pc = [p \in Proc |-> "user"]
  /\ left = [p \in Proc |-> 0] /\ got = [p \in Proc |-> 0]
  /\ killed = [p \in Proc |-> FALSE]
  /\ zero = 0 /\ marks = 0

Next ==
  \/ Backspace \/ KillLine \/ \E c \in Char : Type(c)
  \/ \E p \in Proc : \/ Read(p) \/ ReadWait(p) \/ ReadEof(p) \/ ReadChar(p)
                     \/ CopyFails(p) \/ Resume(p) \/ Kill(p)

Spec == Init /\ [][Next]_vars
-----------------------------------------------------------------------------
TypeOK ==
  /\ buf \in [0..INPUT_BUF - 1 -> Char]
  /\ {r, w, e} \subseteq 0..UintMod - 1
  /\ lock \in Proc \cup {NoProc}
  /\ pc \in [Proc -> {"user", "read", "sleep", "wake"}]
  /\ left \in [Proc -> 0..MaxN] /\ got \in [Proc -> 0..MaxN]
  /\ killed \in [Proc -> BOOLEAN]
  /\ zero \in 0..1 /\ marks \in 0..1

\* No reader sleeps beside a line that is there to be read, whichever reader
\* took part of it and in whatever order reads, kills and input come.
NoLostWakeup ==
  \A p \in Proc : pc[p] = "sleep" => r = w

\* Every control-D that is consumed is one read of no bytes, also when it
\* was met in the middle of a read and kept, by whichever reader.  (Both are
\* counted modulo 2.)
EofIsZeroRead == zero = marks

Span(from, to) ==
  [k \in 1..(to - from) % UintMod |-> buf[(from + k - 1) % INPUT_BUF]]

=============================================================================
