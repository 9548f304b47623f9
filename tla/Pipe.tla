-------------------------------- MODULE Pipe --------------------------------
(***************************************************************************)
(* The pipe of kernel/pipe.c and the descriptors that keep it open.        *)
(*                                                                         *)
(* pi->lock is held from a call's start to its end except while it sleeps, *)
(* so one byte is one step under the lock.  Processes share the two ends   *)
(* by fork; the last one to close an end calls pipeclose.                  *)
(***************************************************************************)
EXTENDS Integers, Sequences

CONSTANTS Proc,      \* processes that can hold descriptors of the pipe
          NoProc,    \* nobody: the lock is free
          Byte,      \* contents of a byte
          PIPESIZE,  \* bytes in the ring (512)
          UintMod,   \* number of values of an unsigned int (2^32)
          MaxN,      \* largest n of a read or write
          Victims    \* processes that may be killed

VARIABLES
  lock,       \* who holds pi->lock
  data,       \* pi->data
  nread, nwrite, readopen, writeopen,   \* the fields of struct pipe
  freed,      \* kfree(pi) was called
  pc, left,   \* where a process is, and n - i of its call
  killed,     \* p->killed
  fd,         \* fd[p]: the ends p has open
  ch,         \* the byte piperead copied last
  eof,        \* some piperead returned 0 because nothing will come
  deserted    \* a killed writer left a full ring without a wakeup

\* The ring's indices stay in step when the counters wrap.
ConstantsOK ==
  /\ NoProc \notin Proc /\ MaxN \in Nat
  /\ PIPESIZE \in Nat \ {0} /\ UintMod \in Nat
  /\ UintMod > PIPESIZE /\ UintMod % PIPESIZE = 0

ring == <<data, nread, nwrite>>
ends == <<readopen, writeopen, freed>>
vars == <<lock, ring, ends, pc, left, killed, fd, ch, eof, deserted>>

Full_unsigned_overflow == nwrite = nread + PIPESIZE
Full  == nwrite = (nread + PIPESIZE) % UintMod
Empty == nread = nwrite

\* A sleeping process's label is its channel: &pi->nread or &pi->nwrite.
Woken(chan) == IF chan = "&nread" THEN "rwake" ELSE "wwake"

\* wakeup(chan), applied to the program counters f.
Wakeup(f, chan) == [p \in Proc |-> IF f[p] = chan THEN Woken(chan) ELSE f[p]]

\* Take pi->lock at label l; leave it for label l after waking chan.
Enter(p, l) == lock = NoProc /\ lock' = p /\ pc' = [pc EXCEPT ![p] = l]
Leave(p, l, chan) ==
  /\ lock' = NoProc
  /\ pc' = Wakeup([pc EXCEPT ![p] = l], chan)
-----------------------------------------------------------------------------
(* pipewrite.                                                              *)

Write(p) ==
  /\ pc[p] = "user" /\ "w" \in fd[p] /\ ~killed[p]
  /\ Enter(p, "write")
  /\ \E n \in 0..MaxN : left' = [left EXCEPT ![p] = n]
  /\ UNCHANGED <<ring, ends, killed, fd, ch, eof, deserted>>

PutByte(p, b, next) ==
  /\ pc[p] = "write" /\ left[p] > 0 /\ ~Full
  /\ data' = [data EXCEPT ![nwrite % PIPESIZE] = b]
  /\ nwrite' = next
  /\ left' = [left EXCEPT ![p] = @ - 1]
  /\ UNCHANGED <<lock, nread, ends, pc, killed, fd, ch, eof, deserted>>

WriteByte(p, b) == PutByte(p, b, (nwrite + 1) % UintMod)

\* The ring is full: nobody will read, or wait for a reader.
WriteFails(p) ==
  /\ pc[p] = "write" /\ left[p] > 0 /\ Full
  /\ ~readopen \/ killed[p]
  /\ Leave(p, "user", "nobody")
  /\ deserted' = (deserted \/ readopen)
  /\ UNCHANGED <<ring, ends, left, killed, fd, ch, eof>>

WriteSleep(p) ==
  /\ pc[p] = "write" /\ left[p] > 0 /\ Full
  /\ readopen /\ ~killed[p]
  /\ Leave(p, "&nwrite", "&nread")
  /\ UNCHANGED <<ring, ends, left, killed, fd, ch, eof, deserted>>

\* Everything is written, or copyin fails.
EndWrite(p, chan) ==
  /\ pc[p] = "write" /\ (left[p] = 0 \/ ~Full)
  /\ Leave(p, "user", chan)
  /\ UNCHANGED <<ring, ends, left, killed, fd, ch, eof, deserted>>

WriteDone_silent(p) == EndWrite(p, "nobody")
WriteDone(p) == EndWrite(p, "&nread")
-----------------------------------------------------------------------------
(* piperead.                                                               *)

Read(p) ==
  /\ pc[p] = "user" /\ "r" \in fd[p] /\ ~killed[p]
  /\ Enter(p, "read")
  /\ \E n \in 0..MaxN : left' = [left EXCEPT ![p] = n]
  /\ UNCHANGED <<ring, ends, killed, fd, ch, eof, deserted>>

ReadSleep(p) ==
  /\ pc[p] = "read" /\ Empty /\ writeopen
  /\ Leave(p, IF killed[p] THEN "user" ELSE "&nread", "nobody")
  /\ UNCHANGED <<ring, ends, left, killed, fd, ch, eof, deserted>>

EndOfFile(p, closed) ==
  /\ pc[p] = "read" /\ Empty /\ closed
  /\ eof' = TRUE
  /\ Leave(p, "user", "&nwrite")
  /\ UNCHANGED <<ring, ends, left, killed, fd, ch, deserted>>

ReadEof(p) == EndOfFile(p, ~writeopen)

\* One byte; if copyout fails it is gone and the call ends.
ReadByte(p, ok) ==
  /\ pc[p] \in {"read", "copy"} /\ left[p] > 0 /\ ~Empty
  /\ ch' = data[nread % PIPESIZE]
  /\ nread' = (nread + 1) % UintMod
  /\ left' = [left EXCEPT ![p] = @ - 1]
  /\ IF ok THEN pc' = [pc EXCEPT ![p] = "copy"] /\ UNCHANGED lock
           ELSE Leave(p, "user", "&nwrite")
  /\ UNCHANGED <<data, nwrite, ends, killed, fd, eof, deserted>>

ReadDone(p) ==
  /\ \/ pc[p] = "copy" /\ (left[p] = 0 \/ Empty)
     \/ pc[p] = "read" /\ left[p] = 0 /\ ~Empty
  /\ Leave(p, "user", "&nwrite")
  /\ UNCHANGED <<ring, ends, left, killed, fd, ch, eof, deserted>>
-----------------------------------------------------------------------------
(* sleep returns, fork, close, kill.                                       *)

Resume(p) ==
  /\ \/ pc[p] = "rwake" /\ Enter(p, "read")
     \/ pc[p] = "wwake" /\ Enter(p, "write")
  /\ UNCHANGED <<ring, ends, left, killed, fd, ch, eof, deserted>>

Fork(p, q) ==
  /\ pc[p] = "user" /\ fd[p] # {} /\ pc[q] = "user" /\ fd[q] = {}
  /\ fd' = [fd EXCEPT ![q] = fd[p]]
  /\ killed' = [killed EXCEPT ![q] = FALSE]
  /\ UNCHANGED <<lock, ring, ends, pc, left, ch, eof, deserted>>

Closing(e) == IF e = "r" THEN "rclose" ELSE "wclose"

\* close(), also by exit: the last reference of the file goes to pipeclose.
Close(p, e) ==
  /\ pc[p] = "user" /\ e \in fd[p]
  /\ fd' = [fd EXCEPT ![p] = @ \ {e}]
  /\ pc' = IF \E q \in Proc \ {p} : e \in fd[q]
             THEN pc ELSE [pc EXCEPT ![p] = Closing(e)]
  /\ UNCHANGED <<lock, ring, ends, left, killed, ch, eof, deserted>>

\* pipeclose of end e: wake chan, and free the page when last is the case.
CloseEnd(p, e, chan, last) ==
  /\ pc[p] = Closing(e) /\ lock = NoProc
  /\ writeopen' = (writeopen /\ e # "w")
  /\ readopen' = (readopen /\ e # "r")
  /\ pc' = Wakeup([pc EXCEPT ![p] = IF last THEN "kfree" ELSE "user"], chan)
  /\ UNCHANGED <<lock, ring, freed, left, killed, fd, ch, eof, deserted>>

PipeClose_wakes_itself(p, e) ==
  CloseEnd(p, e, IF e = "w" THEN "&nwrite" ELSE "&nread", ~readopen \/ ~writeopen)
PipeClose(p, e) ==
  CloseEnd(p, e, IF e = "w" THEN "&nread" ELSE "&nwrite", ~readopen \/ ~writeopen)

KFree(p) ==
  /\ pc[p] = "kfree"
  /\ freed' = TRUE
  /\ pc' = [pc EXCEPT ![p] = "user"]
  /\ UNCHANGED <<lock, ring, readopen, writeopen, left, killed, fd, ch, eof, deserted>>

Kill(p) ==
  /\ p \in Victims /\ ~killed[p] /\ fd[p] # {}
  /\ killed' = [killed EXCEPT ![p] = TRUE]
  /\ pc' = IF pc[p] \in {"&nread", "&nwrite"}
             THEN [pc EXCEPT ![p] = Woken(@)] ELSE pc
  /\ UNCHANGED <<lock, ring, ends, left, fd, ch, eof, deserted>>
-----------------------------------------------------------------------------
\* pipealloc, with both descriptors in one process.
Init ==
  /\ lock = NoProc
  /\ data \in [0..PIPESIZE - 1 -> Byte]
  /\ nread = 0 /\ nwrite = 0
  /\ readopen = TRUE /\ writeopen = TRUE /\ freed = FALSE
  /\ pc = [p \in Proc |-> "user"]
  /\ left = [p \in Proc |-> 0]
  /\ killed = [p \in Proc |-> FALSE]
  /\ \E p \in Proc : fd = [q \in Proc |-> IF q = p THEN {"r", "w"} ELSE {}]
  /\ ch \in Byte
  /\ eof = FALSE /\ deserted = FALSE

\* What a process does once it is in the kernel.
Step(p) ==
  \/ \E b \in Byte : WriteByte(p, b)
  \/ WriteFails(p) \/ WriteSleep(p) \/ WriteDone(p)
  \/ ReadSleep(p) \/ ReadEof(p) \/ ReadDone(p)
  \/ \E ok \in BOOLEAN : ReadByte(p, ok)
  \/ Resume(p) \/ KFree(p)
  \/ \E e \in {"r", "w"} : PipeClose(p, e)

Next ==
  \E p \in Proc :
    \/ Write(p) \/ Read(p) \/ Step(p) \/ Kill(p)
    \/ \E e \in {"r", "w"} : Close(p, e)
    \/ \E q \in Proc \ {p} : Fork(p, q)

Spec == Init /\ [][Next]_vars
-----------------------------------------------------------------------------
(* Properties.                                                             *)

TypeOK ==
  /\ lock \in Proc \cup {NoProc}
  /\ data \in [0..PIPESIZE - 1 -> Byte]
  /\ nread \in 0..UintMod - 1 /\ nwrite \in 0..UintMod - 1
  /\ {readopen, writeopen, freed, eof, deserted} \subseteq BOOLEAN
  /\ pc \in [Proc -> {"user", "write", "read", "copy", "kfree", "&nread", "&nwrite",
                      "rwake", "wwake", "rclose", "wclose"}]
  /\ left \in [Proc -> 0..MaxN]
  /\ killed \in [Proc -> BOOLEAN]
  /\ fd \in [Proc -> SUBSET {"r", "w"}]
  /\ ch \in Byte

\* Nobody is inside a call on the pipe, or can get there, once pipeclose has
\* given its page back: readopen and writeopen are the last references.
NoUseAfterFree ==
  freed => \A p \in Proc : pc[p] = "user" /\ fd[p] = {}

\* A read that reports end-of-file speaks for ever: the ring stays empty and
\* nobody holds a descriptor that could fill it.
EofIsFinal ==
  eof => Empty /\ \A p \in Proc : "w" \notin fd[p]

\* A reader sleeps beside an empty ring and a writer beside a full one, or
\* the process that changed it still holds the lock and will wake them.  The
\* one exception is the writer that is killed after filling the ring: it
\* returns (line 88) without the wakeup of line 90 or 98.
NoLostWakeup ==
  \A p \in Proc :
    /\ pc[p] = "&nread" /\ ~Empty =>
         deserted \/ \E q \in Proc : pc[q] = "write"
    /\ pc[p] = "&nwrite" /\ ~Full => \E q \in Proc : pc[q] = "copy"

\* p is in a call, asleep or not, and the other end of the pipe is closed.
\* Such a call returns: a reader finds the end of file, a writer fails on the
\* full ring, and neither is left asleep by the close.
OtherEndClosed(p) ==
  \/ pc[p] \in {"read", "copy", "&nread", "rwake"} /\ ~writeopen
  \/ pc[p] \in {"write", "&nwrite", "wwake"} /\ ~readopen

\* What is in the ring, oldest byte first.
Contents ==
  [k \in 1..(nwrite - nread) % UintMod |-> data[(nread + k - 1) % PIPESIZE]]

\* What pipe.c promises beside the order of the bytes.
PipeRight == TypeOK /\ NoUseAfterFree /\ EofIsFinal /\ NoLostWakeup

Fifo == INSTANCE ByteQueue WITH Capacity <- PIPESIZE, queue <- Contents, out <- ch

\* The ring of pipewrite and piperead is a bounded FIFO queue although its
\* counters wrap.
IsFifo == Fifo!Spec
-----------------------------------------------------------------------------
(* The inductive invariant behind PipeRight.                               *)

Open(e) == IF e = "r" THEN readopen ELSE writeopen

\* An end is open as long as a process has it or is about to close it, and
\* one process closes it.
EndsInv ==
  \A e \in {"r", "w"} :
    /\ Open(e) <=> \E p \in Proc : e \in fd[p] \/ pc[p] = Closing(e)
    /\ \A p \in Proc : pc[p] = Closing(e) =>
         \A q \in Proc : e \notin fd[q] /\ (pc[q] = Closing(e) => q = p)

\* A call keeps its descriptor, and runs with pi->lock unless it sleeps.
CallInv ==
  \A p \in Proc :
    /\ pc[p] \in {"write", "&nwrite", "wwake"} => "w" \in fd[p]
    /\ pc[p] \in {"read", "copy", "&nread", "rwake"} => "r" \in fd[p]
    /\ lock = p <=> pc[p] \in {"write", "read", "copy"}

\* The page is given back once, by whoever closed the second end.
FreeInv ==
  /\ \A p \in Proc : pc[p] = "kfree" =>
       ~readopen /\ ~writeopen /\ ~freed /\ \A q \in Proc : pc[q] = "kfree" => q = p
  /\ freed => ~readopen /\ ~writeopen /\ \A p \in Proc : pc[p] # "kfree"

EofInv == eof => Empty /\ ~writeopen

PipeInv == EndsInv /\ CallInv /\ FreeInv /\ EofInv /\ NoLostWakeup
=============================================================================
