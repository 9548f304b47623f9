------------------------------ MODULE PipeProof -----------------------------
(***************************************************************************)
(* PipeRight and IsFifo of Pipe, for every number of processes, size of    *)
(* the ring and width of its counters: a pipe's page is not used after it  *)
(* is freed, end-of-file is final, no wakeup is lost but the known one,    *)
(* and the bytes come out in order.                                        *)
(***************************************************************************)
EXTENDS Pipe, SequenceTheorems, TLAPS

Label == {"user", "write", "read", "copy", "kfree", "&nread", "&nwrite",
          "rwake", "wwake", "rclose", "wclose"}

\* The labels from which a process gives up what it had of the pipe.
Parting == {"rclose", "wclose", "kfree"}

-----------------------------------------------------------------------------
(* How steps move processes.                                               *)

\* wakeup moves sleepers of its channel, and them only.
LEMMA WakeupMoves ==
  ASSUME NEW chan \in {"&nread", "&nwrite", "nobody"}, NEW f \in [Proc -> Label]
  PROVE  /\ Wakeup(f, chan) \in [Proc -> Label]
         /\ \A q \in Proc : f[q] # chan => Wakeup(f, chan)[q] = f[q]
         /\ \A q \in Proc : f[q] = chan => Wakeup(f, chan)[q] = Woken(chan)
<1>1. "nobody" \notin Label
  BY DEF Label
<1>2. \A q \in Proc : f[q] = chan => Woken(chan) \in Label
  BY <1>1 DEF Woken, Label
<1> QED
  BY <1>2 DEF Wakeup

\* A process gives up pi->lock and wakes a channel.
LEMMA LeaveMoves ==
  ASSUME TypeOK, NEW p \in Proc, NEW l \in {"user", "&nread", "&nwrite"},
         NEW chan \in {"&nread", "&nwrite", "nobody"}, l # chan, Leave(p, l, chan)
  PROVE  /\ lock' = NoProc /\ pc' \in [Proc -> Label] /\ pc'[p] = l
         /\ \A q \in Proc \ {p} : IF pc[q] = chan THEN pc'[q] = Woken(chan) ELSE pc'[q] = pc[q]
<1> DEFINE f == [pc EXCEPT ![p] = l]
<1>1. f \in [Proc -> Label] /\ f[p] = l /\ \A q \in Proc \ {p} : f[q] = pc[q]
  BY DEF TypeOK, Label
<1>2. lock' = NoProc /\ pc' = Wakeup(f, chan)
  BY DEF Leave
<1> HIDE DEF f
<1>3. /\ Wakeup(f, chan) \in [Proc -> Label]
      /\ \A q \in Proc : f[q] # chan => Wakeup(f, chan)[q] = f[q]
      /\ \A q \in Proc : f[q] = chan => Wakeup(f, chan)[q] = Woken(chan)
  BY <1>1, WakeupMoves
<1> QED
  BY <1>1, <1>2, <1>3

\* A step that keeps every process on its side of the last close.
LEMMA KeepsEnds ==
  ASSUME EndsInv, FreeInv, UNCHANGED <<readopen, writeopen, freed, fd>>,
         \A q \in Proc : pc'[q] = pc[q] \/ (pc[q] \notin Parting /\ pc'[q] \notin Parting)
  PROVE  EndsInv' /\ FreeInv'
<1>1. \A q \in Proc : \A l \in Parting : pc'[q] = l <=> pc[q] = l
  OBVIOUS
<1>2. \A e \in {"r", "w"} : Closing(e) \in Parting
  BY DEF Closing, Parting
<1>3. \A e \in {"r", "w"} : Open(e)' = Open(e)
  BY DEF Open
<1>4. EndsInv'
  BY <1>1, <1>2, <1>3 DEF EndsInv, Closing
<1>5. FreeInv'
  BY <1>1 DEF FreeInv, Parting
<1> QED
  BY <1>4, <1>5

\* A call leaves pi->lock: it returns, or sleeps with its descriptor.
LEMMA LeaveInv ==
  ASSUME ConstantsOK, TypeOK, PipeInv, NEW p \in Proc,
         NEW l \in {"user", "&nread", "&nwrite"},
         NEW chan \in {"&nread", "&nwrite", "nobody"}, l # chan, Leave(p, l, chan),
         pc[p] \in {"write", "read", "copy"},
         l = "&nread" => pc[p] = "read", l = "&nwrite" => pc[p] = "write",
         UNCHANGED <<ends, fd>>
  PROVE  EndsInv' /\ FreeInv' /\ CallInv'
<1>1. /\ lock' = NoProc /\ pc' \in [Proc -> Label] /\ pc'[p] = l
      /\ \A q \in Proc \ {p} : IF pc[q] = chan THEN pc'[q] = Woken(chan) ELSE pc'[q] = pc[q]
  BY LeaveMoves
<1>2. UNCHANGED <<readopen, writeopen, freed, fd>>
  BY DEF ends
<1>3. Woken(chan) = IF chan = "&nread" THEN "rwake" ELSE "wwake"
  BY DEF Woken
<1>4. \A q \in Proc : pc'[q] = pc[q] \/ (pc[q] \notin Parting /\ pc'[q] \notin Parting)
  BY <1>1, <1>3 DEF Parting
<1>5. EndsInv' /\ FreeInv'
  BY <1>2, <1>4, KeepsEnds DEF PipeInv
<1>6. lock = p /\ \A q \in Proc \ {p} : pc[q] \notin {"write", "read", "copy"}
  BY DEF PipeInv, CallInv
<1>7. NoProc \notin Proc
  BY DEF ConstantsOK
<1>8. "nobody" \notin Label /\ pc \in [Proc -> Label]
  BY DEF Label, TypeOK
<1>9. ASSUME NEW q \in Proc
      PROVE  /\ pc'[q] \in {"write", "&nwrite", "wwake"} => "w" \in fd[q]
             /\ pc'[q] \in {"read", "copy", "&nread", "rwake"} => "r" \in fd[q]
             /\ pc'[q] \notin {"write", "read", "copy"}
  <2>1. CASE q = p
    BY <1>1, <2>1 DEF PipeInv, CallInv
  <2>2. CASE q # p /\ pc[q] = chan
    BY <1>1, <1>3, <1>8, <2>2 DEF PipeInv, CallInv
  <2>3. CASE q # p /\ pc[q] # chan
    BY <1>1, <1>6, <2>3 DEF PipeInv, CallInv
  <2> QED
    BY <2>1, <2>2, <2>3
<1>10. CallInv'
  BY <1>1, <1>2, <1>7, <1>9 DEF CallInv
<1> QED
  BY <1>5, <1>10

\* A call takes pi->lock, at its start or after sleep.
LEMMA EnterInv ==
  ASSUME ConstantsOK, TypeOK, PipeInv, NEW p \in Proc, NEW l \in {"write", "read"},
         Enter(p, l), pc[p] \in {"user", "rwake", "wwake"},
         (IF l = "write" THEN "w" ELSE "r") \in fd[p], UNCHANGED <<ends, fd>>
  PROVE  /\ EndsInv' /\ FreeInv' /\ CallInv'
         /\ pc'[p] = l /\ pc' \in [Proc -> Label] /\ \A q \in Proc \ {p} : pc'[q] = pc[q]
<1>1. /\ lock = NoProc /\ lock' = p /\ pc'[p] = l /\ pc' \in [Proc -> Label]
      /\ \A q \in Proc \ {p} : pc'[q] = pc[q]
  BY DEF Enter, TypeOK, Label
<1>2. UNCHANGED <<readopen, writeopen, freed, fd>>
  BY DEF ends
<1>3. \A q \in Proc : pc'[q] = pc[q] \/ (pc[q] \notin Parting /\ pc'[q] \notin Parting)
  BY <1>1 DEF Parting
<1>4. EndsInv' /\ FreeInv'
  BY <1>2, <1>3, KeepsEnds DEF PipeInv
<1>5. \A q \in Proc : pc[q] \notin {"write", "read", "copy"}
  BY <1>1 DEF PipeInv, CallInv, ConstantsOK
<1>6. CallInv'
  BY <1>1, <1>2, <1>5 DEF PipeInv, CallInv
<1> QED
  BY <1>1, <1>4, <1>6

\* A step under pi->lock that keeps it.
LEMMA InsideInv ==
  ASSUME TypeOK, PipeInv, NEW p \in Proc, UNCHANGED <<lock, ends, fd>>,
         pc' = pc \/ (pc[p] \in {"read", "copy"} /\ pc' = [pc EXCEPT ![p] = "copy"])
  PROVE  /\ EndsInv' /\ FreeInv' /\ CallInv' /\ pc' \in [Proc -> Label]
         /\ \A q \in Proc : pc'[q] = pc[q] \/ (q = p /\ pc[p] \in {"read", "copy"} /\ pc'[p] = "copy")
<1>1. /\ pc' \in [Proc -> Label]
      /\ \A q \in Proc : pc'[q] = pc[q] \/ (q = p /\ pc[p] \in {"read", "copy"} /\ pc'[p] = "copy")
  BY Zenon DEF TypeOK, Label
<1>2. UNCHANGED <<readopen, writeopen, freed, fd, lock>>
  BY DEF ends
<1>3. \A q \in Proc : pc'[q] = pc[q] \/ (pc[q] \notin Parting /\ pc'[q] \notin Parting)
  BY <1>1 DEF Parting
<1>4. EndsInv' /\ FreeInv'
  BY <1>2, <1>3, KeepsEnds DEF PipeInv
<1>5. CallInv'
  BY <1>1, <1>2 DEF PipeInv, CallInv
<1> QED
  BY <1>1, <1>4, <1>5

\* An unsigned counter stays in its range.
LEMMA Counts ==
  ASSUME ConstantsOK
  PROVE  \A n \in Int : n % UintMod \in 0..UintMod - 1
BY DEF ConstantsOK

\* Types of the variables that hold no truth values.
LEMMA RingTypes ==
  ASSUME ConstantsOK, TypeOK, NEW p \in Proc, Write(p) \/ Read(p) \/ Step(p)
  PROVE  /\ data' \in [0..PIPESIZE - 1 -> Byte]
         /\ nread' \in 0..UintMod - 1 /\ nwrite' \in 0..UintMod - 1
         /\ left' \in [Proc -> 0..MaxN] /\ ch' \in Byte
<1>0. MaxN \in Nat /\ PIPESIZE \in Nat \ {0}
  BY DEF ConstantsOK
<1>1. /\ nread \in Int /\ nwrite \in Int /\ left \in [Proc -> 0..MaxN] /\ ch \in Byte
      /\ data \in [0..PIPESIZE - 1 -> Byte]
      /\ nread \in 0..UintMod - 1 /\ nwrite \in 0..UintMod - 1
  BY DEF TypeOK, ConstantsOK
<1>2. (nread + 1) % UintMod \in 0..UintMod - 1 /\ (nwrite + 1) % UintMod \in 0..UintMod - 1
  <2>1. nread + 1 \in Int /\ nwrite + 1 \in Int
    BY <1>1
  <2>2. \A n \in Int : n % UintMod \in 0..UintMod - 1
    BY Counts
  <2>3. UintMod \in Int
    BY DEF ConstantsOK
  <2> QED
    BY <2>1, <2>2, <2>3
<1>3. data[nread % PIPESIZE] \in Byte
  <2>1. nread % PIPESIZE \in 0..PIPESIZE - 1
    BY <1>0, <1>1
  <2> QED
    BY <1>1, <2>1
<1>4. left[p] > 0 => [left EXCEPT ![p] = @ - 1] \in [Proc -> 0..MaxN]
  <2>1. left[p] \in 0..MaxN
    BY <1>1
  <2>2. left[p] > 0 => left[p] - 1 \in 0..MaxN
    BY <1>0, <2>1
  <2> QED
    BY <1>1, <2>2
<1>5. ASSUME UNCHANGED <<data, nread, nwrite, ch>>, left' = left \/ \E n \in 0..MaxN : left' = [left EXCEPT ![p] = n]
      PROVE  /\ data' \in [0..PIPESIZE - 1 -> Byte]
             /\ nread' \in 0..UintMod - 1 /\ nwrite' \in 0..UintMod - 1
             /\ left' \in [Proc -> 0..MaxN] /\ ch' \in Byte
  BY <1>1, <1>5
<1>6. ASSUME NEW b \in Byte, WriteByte(p, b)
      PROVE  /\ data' \in [0..PIPESIZE - 1 -> Byte]
             /\ nread' \in 0..UintMod - 1 /\ nwrite' \in 0..UintMod - 1
             /\ left' \in [Proc -> 0..MaxN] /\ ch' \in Byte
  BY Zenon, <1>1, <1>2, <1>4, <1>6 DEF WriteByte, PutByte
<1>7. ASSUME NEW ok \in BOOLEAN, ReadByte(p, ok)
      PROVE  /\ data' \in [0..PIPESIZE - 1 -> Byte]
             /\ nread' \in 0..UintMod - 1 /\ nwrite' \in 0..UintMod - 1
             /\ left' \in [Proc -> 0..MaxN] /\ ch' \in Byte
  BY <1>1, <1>2, <1>3, <1>4, <1>7 DEF ReadByte
<1>8. ASSUME \/ Write(p) \/ Read(p) \/ WriteFails(p) \/ WriteSleep(p) \/ WriteDone(p)
             \/ ReadSleep(p) \/ ReadEof(p) \/ ReadDone(p) \/ Resume(p) \/ KFree(p)
             \/ \E e \in {"r", "w"} : PipeClose(p, e)
      PROVE  /\ UNCHANGED <<data, nread, nwrite, ch>>
             /\ left' = left \/ \E n \in 0..MaxN : left' = [left EXCEPT ![p] = n]
  BY <1>8 DEF Write, Read, WriteFails, WriteSleep, WriteDone, EndWrite, ReadSleep, ReadEof,
     EndOfFile, ReadDone, Resume, KFree, PipeClose, CloseEnd, ring
<1> QED
  BY <1>5, <1>6, <1>7, <1>8 DEF Step

\* The flags stay flags.
LEMMA FlagTypes ==
  ASSUME TypeOK, NEW p \in Proc, Write(p) \/ Read(p) \/ Step(p)
  PROVE  /\ {readopen', writeopen', freed', eof', deserted'} \subseteq BOOLEAN
         /\ killed' = killed
<1>1. killed' = killed
  BY DEF Step, Write, Read, WriteByte, PutByte, WriteFails, WriteSleep, WriteDone, EndWrite,
     ReadSleep, ReadEof, EndOfFile, ReadByte, ReadDone, Resume, KFree, PipeClose, CloseEnd
<1>2. /\ readopen' = readopen \/ \E e \in {"r", "w"} : readopen' = (readopen /\ e # "r")
      /\ writeopen' = writeopen \/ \E e \in {"r", "w"} : writeopen' = (writeopen /\ e # "w")
      /\ freed' = freed \/ freed' = TRUE
      /\ eof' = eof \/ eof' = TRUE
      /\ deserted' = deserted \/ deserted' = (deserted \/ readopen)
  BY DEF Step, Write, Read, WriteByte, PutByte, WriteFails, WriteSleep, WriteDone, EndWrite,
     ReadSleep, ReadEof, EndOfFile, ReadByte, ReadDone, Resume, KFree, PipeClose, CloseEnd, ends
<1>3. {readopen, writeopen, freed, eof, deserted} \subseteq BOOLEAN
  BY DEF TypeOK
<1>4. readopen' \in BOOLEAN /\ writeopen' \in BOOLEAN
  BY Zenon, <1>2, <1>3
<1>5. freed' \in BOOLEAN /\ eof' \in BOOLEAN
  BY Zenon, <1>2, <1>3
<1>6. deserted' \in BOOLEAN
  BY <1>2, <1>3
<1> QED
  BY <1>1, <1>4, <1>5, <1>6

-----------------------------------------------------------------------------
(* The invariant, action by action.                                        *)

\* With the ring and the flags as they were, a sleeper needs its reason.
LEMMA WriteStartInv ==
  ASSUME ConstantsOK, TypeOK, PipeInv, NEW p \in Proc, Write(p)
  PROVE  PipeInv' /\ pc' \in [Proc -> Label]
<1>1. UNCHANGED <<data, nread, nwrite, readopen, writeopen, freed, fd, eof, deserted>>
      /\ Enter(p, "write") /\ pc[p] = "user" /\ "w" \in fd[p]
  BY DEF Write, ring, ends
<1>2. /\ EndsInv' /\ FreeInv' /\ CallInv' /\ pc' \in [Proc -> Label]
      /\ pc'[p] = "write" /\ \A q \in Proc \ {p} : pc'[q] = pc[q]
  BY <1>1, EnterInv DEF ends
<1>3. EofInv'
  BY <1>1 DEF PipeInv, EofInv, Empty
<1>4. NoLostWakeup'
  BY <1>1, <1>2 DEF PipeInv, NoLostWakeup, Empty, Full
<1> QED
  BY <1>2, <1>3, <1>4 DEF PipeInv

LEMMA ReadStartInv ==
  ASSUME ConstantsOK, TypeOK, PipeInv, NEW p \in Proc, Read(p)
  PROVE  PipeInv' /\ pc' \in [Proc -> Label]
<1>1. UNCHANGED <<data, nread, nwrite, readopen, writeopen, freed, fd, eof, deserted>>
      /\ Enter(p, "read") /\ pc[p] = "user" /\ "r" \in fd[p]
  BY DEF Read, ring, ends
<1>2. /\ EndsInv' /\ FreeInv' /\ CallInv' /\ pc' \in [Proc -> Label]
      /\ pc'[p] = "read" /\ \A q \in Proc \ {p} : pc'[q] = pc[q]
  BY <1>1, EnterInv DEF ends
<1>3. EofInv'
  BY <1>1 DEF PipeInv, EofInv, Empty
<1>4. NoLostWakeup'
  BY <1>1, <1>2 DEF PipeInv, NoLostWakeup, Empty, Full
<1> QED
  BY <1>2, <1>3, <1>4 DEF PipeInv

LEMMA ResumeInv ==
  ASSUME ConstantsOK, TypeOK, PipeInv, NEW p \in Proc, Resume(p)
  PROVE  PipeInv' /\ pc' \in [Proc -> Label]
<1>1. UNCHANGED <<data, nread, nwrite, readopen, writeopen, freed, fd, eof, deserted>>
  BY DEF Resume, ring, ends
<1>2. ASSUME NEW l \in {"write", "read"}, Enter(p, l), pc[p] \in {"rwake", "wwake"},
             (IF l = "write" THEN "w" ELSE "r") \in fd[p]
      PROVE  /\ EndsInv' /\ FreeInv' /\ CallInv' /\ pc' \in [Proc -> Label]
             /\ pc'[p] = l /\ \A q \in Proc \ {p} : pc'[q] = pc[q]
  BY <1>1, <1>2, EnterInv DEF ends
<1>3. /\ EndsInv' /\ FreeInv' /\ CallInv' /\ pc' \in [Proc -> Label]
      /\ pc'[p] \in {"write", "read"} /\ \A q \in Proc \ {p} : pc'[q] = pc[q]
  <2>1. CASE pc[p] = "rwake" /\ Enter(p, "read")
    BY <1>2, <2>1 DEF PipeInv, CallInv
  <2>2. CASE pc[p] = "wwake" /\ Enter(p, "write")
    BY <1>2, <2>2 DEF PipeInv, CallInv
  <2> QED
    BY <2>1, <2>2 DEF Resume
<1>4. EofInv'
  BY <1>1 DEF PipeInv, EofInv, Empty
<1>5. NoLostWakeup'
  <2>1. pc[p] \notin {"write", "copy"}
    BY DEF Resume
  <2> QED
    BY <1>1, <1>3, <2>1 DEF PipeInv, NoLostWakeup, Empty, Full
<1> QED
  BY <1>3, <1>4, <1>5 DEF PipeInv

\* Nobody sleeps beside a ring with room when a writer runs.
LEMMA WriteByteInv ==
  ASSUME TypeOK, PipeInv, NEW p \in Proc, NEW b, WriteByte(p, b)
  PROVE  PipeInv' /\ pc' \in [Proc -> Label]
<1>1. /\ UNCHANGED <<lock, ends, fd>> /\ pc' = pc /\ pc[p] = "write" /\ ~Full
      /\ eof' = eof /\ writeopen' = writeopen
  BY DEF WriteByte, PutByte, ends
<1>2. EndsInv' /\ FreeInv' /\ CallInv' /\ pc' \in [Proc -> Label]
  BY <1>1, InsideInv
<1>3. "w" \in fd[p] /\ \A q \in Proc : pc[q] # "copy"
  BY <1>1 DEF PipeInv, CallInv
<1>4. writeopen
  BY <1>3 DEF PipeInv, EndsInv, Open
<1>5. EofInv'
  BY <1>1, <1>4 DEF PipeInv, EofInv
<1>6. \A q \in Proc : pc[q] # "&nwrite"
  BY <1>1, <1>3 DEF PipeInv, NoLostWakeup
<1>7. NoLostWakeup'
  BY <1>1, <1>6 DEF NoLostWakeup
<1> QED
  BY <1>2, <1>5, <1>7 DEF PipeInv

\* A reader has its end open, so a writer that gives up beside it says so.
LEMMA WriteFailsInv ==
  ASSUME ConstantsOK, TypeOK, PipeInv, NEW p \in Proc, WriteFails(p)
  PROVE  PipeInv' /\ pc' \in [Proc -> Label]
<1>1. /\ UNCHANGED <<nread, nwrite, ends, fd, eof>> /\ writeopen' = writeopen
      /\ pc[p] = "write" /\ Leave(p, "user", "nobody") /\ Full
      /\ deserted' = (deserted \/ readopen)
  BY DEF WriteFails, ring, ends
<1>2. /\ EndsInv' /\ FreeInv' /\ CallInv'
      /\ pc' \in [Proc -> Label] /\ pc'[p] = "user"
      /\ \A q \in Proc \ {p} : IF pc[q] = "nobody" THEN pc'[q] = Woken("nobody") ELSE pc'[q] = pc[q]
  BY <1>1, LeaveInv, LeaveMoves
<1>3. \A q \in Proc \ {p} : pc'[q] = pc[q]
  BY Zenon, <1>2 DEF TypeOK
<1>4. EofInv'
  BY <1>1 DEF PipeInv, EofInv, Empty
<1>5. Full'
  BY <1>1 DEF Full
<1>6. \A q \in Proc : pc[q] = "&nread" => readopen
  BY DEF PipeInv, CallInv, EndsInv, Open
<1>7. \A q \in Proc : pc'[q] = "&nread" => deserted'
  BY Zenon, <1>1, <1>2, <1>3, <1>6
<1>8. NoLostWakeup'
  BY <1>5, <1>7 DEF NoLostWakeup
<1> QED
  BY <1>2, <1>4, <1>8 DEF PipeInv

LEMMA WriteSleepInv ==
  ASSUME ConstantsOK, TypeOK, PipeInv, NEW p \in Proc, WriteSleep(p)
  PROVE  PipeInv' /\ pc' \in [Proc -> Label]
<1>1. /\ UNCHANGED <<nread, nwrite, ends, fd, eof, deserted>> /\ writeopen' = writeopen
      /\ pc[p] = "write" /\ Leave(p, "&nwrite", "&nread") /\ Full
  BY DEF WriteSleep, ring, ends
<1>2. /\ EndsInv' /\ FreeInv' /\ CallInv'
      /\ pc' \in [Proc -> Label] /\ pc'[p] = "&nwrite"
      /\ \A q \in Proc \ {p} : IF pc[q] = "&nread" THEN pc'[q] = Woken("&nread") ELSE pc'[q] = pc[q]
  BY <1>1, LeaveInv, LeaveMoves
<1>3. EofInv'
  BY <1>1 DEF PipeInv, EofInv, Empty
<1>4. Full'
  BY <1>1 DEF Full
<1>5. \A q \in Proc : pc'[q] # "&nread"
  BY <1>2 DEF Woken
<1>6. NoLostWakeup'
  BY <1>4, <1>5 DEF NoLostWakeup
<1> QED
  BY <1>2, <1>3, <1>6 DEF PipeInv

LEMMA WriteDoneInv ==
  ASSUME ConstantsOK, TypeOK, PipeInv, NEW p \in Proc, WriteDone(p)
  PROVE  PipeInv' /\ pc' \in [Proc -> Label]
<1>1. /\ UNCHANGED <<nread, nwrite, ends, fd, eof, deserted>> /\ writeopen' = writeopen
      /\ pc[p] = "write" /\ Leave(p, "user", "&nread")
  BY DEF WriteDone, EndWrite, ring, ends
<1>2. /\ EndsInv' /\ FreeInv' /\ CallInv'
      /\ pc' \in [Proc -> Label] /\ pc'[p] = "user"
      /\ \A q \in Proc \ {p} : IF pc[q] = "&nread" THEN pc'[q] = Woken("&nread") ELSE pc'[q] = pc[q]
  BY <1>1, LeaveInv, LeaveMoves
<1>3. EofInv'
  BY <1>1 DEF PipeInv, EofInv, Empty
<1>4. Full' = Full
  BY <1>1 DEF Full
<1>5. \A q \in Proc : pc'[q] # "&nread" /\ (pc'[q] = "&nwrite" => pc[q] = "&nwrite")
  BY <1>2 DEF Woken
<1>6. \A q \in Proc : pc[q] # "copy"
  BY <1>1 DEF PipeInv, CallInv
<1>7. NoLostWakeup'
  BY <1>4, <1>5, <1>6 DEF PipeInv, NoLostWakeup
<1> QED
  BY <1>2, <1>3, <1>7 DEF PipeInv

LEMMA ReadSleepInv ==
  ASSUME ConstantsOK, TypeOK, PipeInv, NEW p \in Proc, ReadSleep(p)
  PROVE  PipeInv' /\ pc' \in [Proc -> Label]
<1>1. /\ UNCHANGED <<nread, nwrite, ends, fd, eof, deserted>> /\ writeopen' = writeopen
      /\ pc[p] = "read" /\ Empty
      /\ Leave(p, "user", "nobody") \/ Leave(p, "&nread", "nobody")
  BY DEF ReadSleep, ring, ends
<1>2. /\ EndsInv' /\ FreeInv' /\ CallInv'
      /\ pc' \in [Proc -> Label] /\ pc'[p] \in {"user", "&nread"}
      /\ \A q \in Proc \ {p} : IF pc[q] = "nobody" THEN pc'[q] = Woken("nobody") ELSE pc'[q] = pc[q]
  <2>1. CASE Leave(p, "user", "nobody")
    BY <1>1, <2>1, LeaveInv, LeaveMoves
  <2>2. CASE Leave(p, "&nread", "nobody")
    BY <1>1, <2>2, LeaveInv, LeaveMoves
  <2> QED
    BY <1>1, <2>1, <2>2
<1>3. \A q \in Proc \ {p} : pc'[q] = pc[q]
  BY Zenon, <1>2 DEF TypeOK
<1>4. EofInv'
  BY <1>1 DEF PipeInv, EofInv, Empty
<1>5. Full' = Full /\ Empty'
  BY <1>1 DEF Full, Empty
<1>6. NoLostWakeup'
  BY <1>1, <1>2, <1>3, <1>5 DEF PipeInv, NoLostWakeup
<1> QED
  BY <1>2, <1>4, <1>6 DEF PipeInv

\* The end of a read wakes every writer, so only readers can be asleep, and
\* they were before.
LEMMA ReadLeaveWakes ==
  ASSUME ConstantsOK, TypeOK, PipeInv, NEW p \in Proc, pc[p] \in {"read", "copy"},
         Leave(p, "user", "&nwrite"), UNCHANGED <<ends, fd>>, deserted' = deserted
  PROVE  /\ EndsInv' /\ FreeInv' /\ CallInv' /\ pc' \in [Proc -> Label]
         /\ ~Empty \/ Empty' => NoLostWakeup'
<1>1. /\ EndsInv' /\ FreeInv' /\ CallInv'
      /\ pc' \in [Proc -> Label] /\ pc'[p] = "user"
      /\ \A q \in Proc \ {p} : IF pc[q] = "&nwrite" THEN pc'[q] = Woken("&nwrite") ELSE pc'[q] = pc[q]
  BY LeaveInv, LeaveMoves
<1>2. \A q \in Proc : pc'[q] # "&nwrite" /\ (pc'[q] = "&nread" => pc[q] = "&nread")
  BY <1>1 DEF Woken
<1>3. \A q \in Proc : pc[q] # "write"
  BY DEF PipeInv, CallInv
<1>4. ~Empty => \A q \in Proc : pc[q] = "&nread" => deserted
  BY <1>3 DEF PipeInv, NoLostWakeup
<1>5. ~Empty \/ Empty' => NoLostWakeup'
  BY <1>2, <1>4 DEF NoLostWakeup
<1> QED
  BY <1>1, <1>5

LEMMA ReadEofInv ==
  ASSUME ConstantsOK, TypeOK, PipeInv, NEW p \in Proc, ReadEof(p)
  PROVE  PipeInv' /\ pc' \in [Proc -> Label]
<1>1. /\ UNCHANGED <<nread, nwrite, ends, fd, deserted>> /\ writeopen' = writeopen
      /\ pc[p] = "read" /\ Empty /\ ~writeopen /\ Leave(p, "user", "&nwrite")
  BY DEF ReadEof, EndOfFile, ring, ends
<1>2. Empty'
  BY <1>1 DEF Empty
<1>3. EofInv'
  BY <1>1, <1>2 DEF EofInv
<1> QED
  BY <1>1, <1>2, <1>3, ReadLeaveWakes DEF PipeInv

LEMMA ReadDoneInv ==
  ASSUME ConstantsOK, TypeOK, PipeInv, NEW p \in Proc, ReadDone(p)
  PROVE  PipeInv' /\ pc' \in [Proc -> Label]
<1>1. /\ UNCHANGED <<nread, nwrite, ends, fd, eof, deserted>> /\ writeopen' = writeopen
      /\ pc[p] \in {"read", "copy"} /\ Leave(p, "user", "&nwrite")
  BY DEF ReadDone, ring, ends
<1>2. Empty' = Empty
  BY <1>1 DEF Empty
<1>3. EofInv'
  BY <1>1, <1>2 DEF PipeInv, EofInv
<1> QED
  BY <1>1, <1>2, <1>3, ReadLeaveWakes DEF PipeInv

LEMMA ReadByteInv ==
  ASSUME ConstantsOK, TypeOK, PipeInv, NEW p \in Proc, NEW ok \in BOOLEAN, ReadByte(p, ok)
  PROVE  PipeInv' /\ pc' \in [Proc -> Label]
<1>1. /\ UNCHANGED <<nwrite, ends, fd, eof, deserted>> /\ writeopen' = writeopen
      /\ pc[p] \in {"read", "copy"} /\ ~Empty
      /\ \/ UNCHANGED lock /\ pc' = [pc EXCEPT ![p] = "copy"]
         \/ Leave(p, "user", "&nwrite")
  BY DEF ReadByte, ends
<1>2. ~eof
  BY <1>1 DEF PipeInv, EofInv
<1>3. EofInv'
  BY <1>1, <1>2 DEF EofInv
<1>4. CASE Leave(p, "user", "&nwrite")
  BY <1>1, <1>3, <1>4, ReadLeaveWakes DEF PipeInv
<1>5. CASE UNCHANGED lock /\ pc' = [pc EXCEPT ![p] = "copy"]
  <2>1. EndsInv' /\ FreeInv' /\ CallInv' /\ pc' \in [Proc -> Label]
    BY Zenon, <1>1, <1>5, InsideInv
  <2>2. pc'[p] = "copy" /\ \A q \in Proc \ {p} : pc'[q] = pc[q]
    BY <1>5 DEF TypeOK
  <2>3. \A q \in Proc : pc[q] # "write"
    BY <1>1 DEF PipeInv, CallInv
  <2>4. NoLostWakeup'
    BY <1>1, <2>2, <2>3 DEF PipeInv, NoLostWakeup
  <2> QED
    BY <1>3, <2>1, <2>4 DEF PipeInv
<1> QED
  BY <1>1, <1>4, <1>5

\* Once both ends are closed nobody has one, calls or closes.
LEMMA BothClosed ==
  ASSUME PipeInv, TypeOK, ~readopen, ~writeopen
  PROVE  \A q \in Proc : fd[q] = {} /\ pc[q] \in {"user", "kfree"}
<1> SUFFICES ASSUME NEW q \in Proc
             PROVE  fd[q] = {} /\ pc[q] \in {"user", "kfree"}
  BY Zenon
<1>1. ~Open("r") /\ ~Open("w")
  BY DEF Open
<1>2. "r" \notin fd[q] /\ "w" \notin fd[q] /\ pc[q] # "rclose" /\ pc[q] # "wclose"
  BY <1>1 DEF PipeInv, EndsInv, Closing
<1>3. fd[q] = {}
  BY <1>2 DEF TypeOK
<1>4. pc[q] \in {"user", "kfree"}
  BY <1>2 DEF TypeOK, PipeInv, CallInv
<1> QED
  BY <1>3, <1>4

LEMMA KFreeInv ==
  ASSUME ConstantsOK, TypeOK, PipeInv, NEW p \in Proc, KFree(p)
  PROVE  PipeInv' /\ pc' \in [Proc -> Label]
<1>1. /\ UNCHANGED <<lock, nread, nwrite, readopen, writeopen, fd, eof, deserted>> /\ freed'
      /\ pc[p] = "kfree" /\ pc' = [pc EXCEPT ![p] = "user"]
  BY DEF KFree, ring
<1>2. ~readopen /\ ~writeopen /\ \A q \in Proc : pc[q] = "kfree" => q = p
  BY <1>1 DEF PipeInv, FreeInv
<1>3. pc' \in [Proc -> Label] /\ \A q \in Proc : pc'[q] = "user" /\ fd[q] = {} /\ pc[q] \in {"user", "kfree"}
  BY <1>1, <1>2, BothClosed DEF TypeOK, Label
<1>4. EndsInv'
  BY <1>1, <1>2, <1>3 DEF EndsInv, Open, Closing
<1>5. CallInv'
  BY <1>1, <1>3 DEF PipeInv, CallInv
<1>6. FreeInv'
  BY <1>1, <1>2, <1>3 DEF FreeInv
<1>7. EofInv'
  BY <1>1 DEF PipeInv, EofInv, Empty
<1>8. NoLostWakeup'
  BY <1>3 DEF NoLostWakeup
<1> QED
  BY <1>3, <1>4, <1>5, <1>6, <1>7, <1>8 DEF PipeInv

\* pipeclose: the one process that closes end e finds it open.
LEMMA PipeCloseInv ==
  ASSUME ConstantsOK, TypeOK, PipeInv, NEW p \in Proc, NEW e \in {"r", "w"}, PipeClose(p, e)
  PROVE  PipeInv' /\ pc' \in [Proc -> Label]
<1> DEFINE chan == IF e = "w" THEN "&nread" ELSE "&nwrite"
           last == ~readopen \/ ~writeopen
           l == IF last THEN "kfree" ELSE "user"
           f == [pc EXCEPT ![p] = l]
<1>1. /\ UNCHANGED <<lock, nread, nwrite, freed, fd, eof, deserted>>
      /\ pc[p] = Closing(e) /\ pc' = Wakeup(f, chan)
      /\ writeopen' = (writeopen /\ e # "w") /\ readopen' = (readopen /\ e # "r")
  BY DEF PipeClose, CloseEnd, ring
<1>2. /\ f \in [Proc -> Label] /\ f[p] = l /\ l \in {"kfree", "user"} /\ chan \in {"&nread", "&nwrite"}
      /\ \A q \in Proc \ {p} : f[q] = pc[q]
  BY DEF TypeOK, Label
<1>3. l = "kfree" <=> last
  OBVIOUS
<1> HIDE DEF f, l, chan
<1>4. /\ Wakeup(f, chan) \in [Proc -> Label]
      /\ \A q \in Proc : f[q] # chan => Wakeup(f, chan)[q] = f[q]
      /\ \A q \in Proc : f[q] = chan => Wakeup(f, chan)[q] = Woken(chan)
  BY <1>2, WakeupMoves
<1>5. Woken(chan) = IF chan = "&nread" THEN "rwake" ELSE "wwake"
  BY DEF Woken
<1>6. /\ pc' \in [Proc -> Label] /\ pc'[p] = l
      /\ \A q \in Proc \ {p} :
           \/ pc'[q] = pc[q]
           \/ pc[q] = "&nread" /\ pc'[q] = "rwake"
           \/ pc[q] = "&nwrite" /\ pc'[q] = "wwake"
  BY <1>1, <1>2, <1>4, <1>5
<1>7. /\ \A q \in Proc : e \notin fd[q]
      /\ \A q \in Proc \ {p} : pc[q] # Closing(e) /\ pc'[q] # Closing(e)
      /\ Open(e)
  <2>1. \A q \in Proc : e \notin fd[q] /\ (pc[q] = Closing(e) => q = p)
    BY <1>1 DEF PipeInv, EndsInv
  <2>2. Open(e)
    BY <1>1 DEF PipeInv, EndsInv
  <2>3. Closing(e) \in {"rclose", "wclose"}
    BY DEF Closing
  <2> QED
    BY <1>6, <2>1, <2>2, <2>3
<1>8. last <=> ~readopen' /\ ~writeopen'
  BY Zenon, <1>1, <1>7 DEF Open
<1>9. EndsInv'
  <2>1. ~Open(e)'
    BY Zenon, <1>1 DEF Open
  <2>2. \A d \in {"r", "w"} : d # e => Open(d)' = Open(d)
    BY <1>1 DEF Open, TypeOK
  <2>3. \A d \in {"r", "w"} : d # e => \A q \in Proc : pc'[q] = Closing(d) <=> pc[q] = Closing(d)
    BY <1>1, <1>2, <1>6 DEF Closing
  <2>4. pc'[p] # Closing(e)
    BY <1>2, <1>6 DEF Closing
  <2>5. ASSUME NEW d \in {"r", "w"}
        PROVE  /\ Open(d)' <=> \E q \in Proc : d \in fd[q] \/ pc'[q] = Closing(d)
               /\ \A r \in Proc : pc'[r] = Closing(d) =>
                    \A q \in Proc : d \notin fd[q] /\ (pc'[q] = Closing(d) => q = r)
    <3>1. CASE d = e
      BY <1>7, <2>1, <2>4, <3>1
    <3>2. CASE d # e
      BY <2>2, <2>3, <3>2 DEF PipeInv, EndsInv
    <3> QED
      BY <3>1, <3>2
  <2> QED
    BY <1>1, <2>5 DEF EndsInv, Closing
<1>10. CallInv'
  <2>1. pc[p] \notin {"write", "read", "copy"} /\ pc'[p] \in {"user", "kfree"}
    BY <1>1, <1>2, <1>6 DEF Closing
  <2> QED
    BY <1>1, <1>6, <2>1 DEF PipeInv, CallInv
<1>11. ~freed /\ \A q \in Proc : pc[q] # "kfree"
  <2>1. readopen \/ writeopen
    BY <1>7 DEF Open
  <2> QED
    BY <2>1 DEF PipeInv, FreeInv
<1>12. FreeInv'
  <2>1. \A q \in Proc : pc'[q] = "kfree" => q = p /\ last
    BY <1>3, <1>6, <1>11
  <2> QED
    BY <1>1, <1>8, <1>11, <2>1 DEF FreeInv
<1>13. EofInv'
  BY Zenon, <1>1 DEF PipeInv, EofInv, Empty
<1>14. NoLostWakeup'
  <2>1. Empty' = Empty /\ Full' = Full
    BY <1>1 DEF Empty, Full
  <2>2. pc[p] \notin {"write", "copy"} /\ pc'[p] \in {"user", "kfree"}
    BY <1>1, <1>2, <1>6 DEF Closing
  <2>3. \A q \in Proc : /\ pc[q] \in {"write", "copy"} => pc'[q] = pc[q]
                        /\ pc'[q] \in {"&nread", "&nwrite"} => pc[q] = pc'[q]
    BY <1>6, <2>2
  <2> QED
    BY <1>1, <2>1, <2>3 DEF PipeInv, NoLostWakeup
<1> QED
  BY <1>6, <1>9, <1>10, <1>12, <1>13, <1>14 DEF PipeInv

\* The last descriptor of an end takes its owner to pipeclose.
LEMMA CloseInv ==
  ASSUME ConstantsOK, TypeOK, PipeInv, NEW p \in Proc, NEW e \in {"r", "w"}, Close(p, e)
  PROVE  PipeInv' /\ TypeOK'
<1> DEFINE shared == \E q \in Proc \ {p} : e \in fd[q]
<1>1. /\ UNCHANGED <<lock, data, nread, nwrite, readopen, writeopen, freed, left, killed, ch, eof, deserted>>
      /\ pc[p] = "user" /\ e \in fd[p] /\ fd' = [fd EXCEPT ![p] = @ \ {e}]
      /\ pc' = IF shared THEN pc ELSE [pc EXCEPT ![p] = Closing(e)]
  BY DEF Close, ring, ends
<1>2. Closing(e) \in {"rclose", "wclose"}
  BY DEF Closing
<1>3. /\ \A q \in Proc \ {p} : pc'[q] = pc[q] /\ fd'[q] = fd[q]
      /\ fd'[p] = fd[p] \ {e} /\ pc'[p] = IF shared THEN "user" ELSE Closing(e)
  BY <1>1 DEF TypeOK
<1>4. pc' \in [Proc -> Label] /\ fd' \in [Proc -> SUBSET {"r", "w"}]
  BY <1>1, <1>2 DEF TypeOK, Label
<1>5. TypeOK'
  BY <1>1, <1>4 DEF TypeOK, Label
<1> HIDE DEF shared
<1>6. EndsInv'
  <2>1. \A d \in {"r", "w"} : Open(d)' = Open(d)
    BY <1>1 DEF Open
  <2>2. \A q \in Proc : pc[q] # Closing(e)
    BY <1>1 DEF PipeInv, EndsInv
  <2>3. Open(e)
    BY <1>1 DEF PipeInv, EndsInv
  <2>4. ASSUME NEW d \in {"r", "w"}
        PROVE  /\ Open(d)' <=> \E q \in Proc : d \in fd'[q] \/ pc'[q] = Closing(d)
               /\ \A r \in Proc : pc'[r] = Closing(d) =>
                    \A q \in Proc : d \notin fd'[q] /\ (pc'[q] = Closing(d) => q = r)
    <3>1. CASE d = e /\ shared
      <4>1. \E q \in Proc : e \in fd'[q]
        BY <1>3, <3>1 DEF shared
      <4>2. \A q \in Proc : pc'[q] # Closing(e)
        BY <1>1, <1>2, <1>3, <2>2, <3>1
      <4> QED
        BY <2>1, <2>3, <3>1, <4>1, <4>2
    <3>2. CASE d = e /\ ~shared
      <4>1. \A q \in Proc : e \notin fd'[q]
        BY <1>3, <3>2 DEF shared
      <4>2. pc'[p] = Closing(e) /\ \A q \in Proc \ {p} : pc'[q] # Closing(e)
        BY <1>3, <2>2, <3>2
      <4> QED
        BY <2>1, <2>3, <3>2, <4>1, <4>2
    <3>3. CASE d # e
      <4>1. \A q \in Proc : d \in fd'[q] <=> d \in fd[q]
        BY <1>3, <3>3
      <4>2. \A q \in Proc : pc'[q] = Closing(d) <=> pc[q] = Closing(d)
        BY <1>1, <1>3, <3>3 DEF Closing
      <4> QED
        BY <2>1, <4>1, <4>2 DEF PipeInv, EndsInv
    <3> QED
      BY <3>1, <3>2, <3>3
  <2> QED
    BY <2>4 DEF EndsInv, Closing
<1>7. CallInv'
  BY <1>1, <1>2, <1>3 DEF PipeInv, CallInv
<1>8. FreeInv'
  BY <1>1, <1>2, <1>3 DEF PipeInv, FreeInv
<1>9. EofInv'
  BY <1>1 DEF PipeInv, EofInv, Empty
<1>10. NoLostWakeup'
  BY <1>1, <1>2, <1>3 DEF PipeInv, NoLostWakeup, Empty, Full
<1> QED
  BY <1>5, <1>6, <1>7, <1>8, <1>9, <1>10 DEF PipeInv

\* fork gives its child the ends the parent has.
LEMMA ForkInv ==
  ASSUME ConstantsOK, TypeOK, PipeInv, NEW p \in Proc, NEW r \in Proc \ {p}, Fork(p, r)
  PROVE  PipeInv' /\ TypeOK'
<1>1. /\ UNCHANGED <<lock, data, nread, nwrite, readopen, writeopen, freed, left, ch, eof, deserted>>
      /\ pc' = pc /\ pc[r] = "user" /\ fd[r] = {} /\ fd' = [fd EXCEPT ![r] = fd[p]]
      /\ killed' = [killed EXCEPT ![r] = FALSE]
  BY DEF Fork, ring, ends
<1>2. /\ \A q \in Proc \ {r} : fd'[q] = fd[q]
      /\ fd'[r] = fd[p] /\ fd' \in [Proc -> SUBSET {"r", "w"}]
  BY <1>1 DEF TypeOK
<1>3. killed' \in [Proc -> BOOLEAN]
  BY <1>1 DEF TypeOK
<1>4. TypeOK'
  BY <1>1, <1>2, <1>3 DEF TypeOK
<1>5. \A e : (\E q \in Proc : e \in fd'[q]) <=> (\E q \in Proc : e \in fd[q])
  BY <1>1, <1>2
<1>6. EndsInv'
  <2>1. \A d \in {"r", "w"} : Open(d)' = Open(d)
    BY <1>1 DEF Open
  <2>2. ASSUME NEW d \in {"r", "w"}
        PROVE  /\ Open(d)' <=> \E q \in Proc : d \in fd'[q] \/ pc'[q] = Closing(d)
               /\ \A s \in Proc : pc'[s] = Closing(d) =>
                    \A q \in Proc : d \notin fd'[q] /\ (pc'[q] = Closing(d) => q = s)
    BY <1>1, <1>5, <2>1 DEF PipeInv, EndsInv
  <2> QED
    BY <2>2 DEF EndsInv, Closing
<1>7. CallInv'
  BY <1>1, <1>2 DEF PipeInv, CallInv
<1>8. FreeInv'
  BY <1>1 DEF PipeInv, FreeInv
<1>9. EofInv'
  BY <1>1 DEF PipeInv, EofInv, Empty
<1>10. NoLostWakeup'
  BY <1>1 DEF PipeInv, NoLostWakeup, Empty, Full
<1> QED
  BY <1>4, <1>6, <1>7, <1>8, <1>9, <1>10 DEF PipeInv

LEMMA KillInv ==
  ASSUME ConstantsOK, TypeOK, PipeInv, NEW p \in Proc, Kill(p)
  PROVE  PipeInv' /\ TypeOK'
<1>1. /\ UNCHANGED <<lock, data, nread, nwrite, readopen, writeopen, freed, left, fd, ch, eof, deserted>>
      /\ killed' = [killed EXCEPT ![p] = TRUE]
      /\ pc' = IF pc[p] \in {"&nread", "&nwrite"} THEN [pc EXCEPT ![p] = Woken(@)] ELSE pc
  BY DEF Kill, ring, ends
<1>2. /\ pc' \in [Proc -> Label] /\ \A q \in Proc \ {p} : pc'[q] = pc[q]
      /\ \/ pc'[p] = pc[p]
         \/ pc[p] = "&nread" /\ pc'[p] = "rwake"
         \/ pc[p] = "&nwrite" /\ pc'[p] = "wwake"
  BY <1>1 DEF TypeOK, Label, Woken
<1>3. killed' \in [Proc -> BOOLEAN]
  BY <1>1 DEF TypeOK
<1>4. TypeOK'
  BY <1>1, <1>2, <1>3 DEF TypeOK, Label
<1>5. EndsInv' /\ FreeInv'
  <2>1. \A q \in Proc : pc'[q] = pc[q] \/ (pc[q] \notin Parting /\ pc'[q] \notin Parting)
    BY <1>2 DEF Parting
  <2> QED
    BY <1>1, <2>1, KeepsEnds DEF PipeInv
<1>6. CallInv'
  BY <1>1, <1>2 DEF PipeInv, CallInv
<1>7. EofInv'
  BY <1>1 DEF PipeInv, EofInv, Empty
<1>8. NoLostWakeup'
  <2>1. \A q \in Proc : /\ pc[q] \in {"write", "copy"} => pc'[q] = pc[q]
                        /\ pc'[q] \in {"&nread", "&nwrite"} => pc[q] = pc'[q]
    BY <1>2
  <2>2. Empty' = Empty /\ Full' = Full /\ deserted' = deserted
    BY <1>1 DEF Empty, Full
  <2> QED
    BY <2>1, <2>2 DEF PipeInv, NoLostWakeup
<1> QED
  BY <1>4, <1>5, <1>6, <1>7, <1>8 DEF PipeInv

LEMMA InitInv ==
  ASSUME ConstantsOK, Init
  PROVE  TypeOK /\ PipeInv
<1>1. /\ lock = NoProc /\ nread = 0 /\ nwrite = 0 /\ readopen /\ writeopen /\ ~freed
      /\ ~eof /\ ~deserted /\ \A q \in Proc : pc[q] = "user"
  BY DEF Init
<1>2. PICK p \in Proc : fd = [q \in Proc |-> IF q = p THEN {"r", "w"} ELSE {}]
  BY DEF Init
<1>3. "r" \in fd[p] /\ "w" \in fd[p]
  BY <1>2
<1>4. TypeOK
  <2>1. lock \in Proc \cup {NoProc} /\ nread \in 0..UintMod - 1 /\ nwrite \in 0..UintMod - 1
    BY <1>1 DEF ConstantsOK
  <2>2. data \in [0..PIPESIZE - 1 -> Byte] /\ ch \in Byte /\ left \in [Proc -> 0..MaxN]
    BY DEF Init, ConstantsOK
  <2>3. fd \in [Proc -> SUBSET {"r", "w"}]
    BY <1>2
  <2>4. {readopen, writeopen, freed, eof, deserted} \subseteq BOOLEAN
    BY Zenon DEF Init
  <2>5. killed \in [Proc -> BOOLEAN]
    BY DEF Init
  <2>6. pc \in [Proc -> {"user", "write", "read", "copy", "kfree", "&nread", "&nwrite",
                         "rwake", "wwake", "rclose", "wclose"}]
    BY DEF Init
  <2> QED
    BY <2>1, <2>2, <2>3, <2>4, <2>5, <2>6 DEF TypeOK
<1>5. EndsInv
  BY <1>1, <1>3 DEF EndsInv, Open, Closing
<1>6. CallInv
  BY <1>1 DEF CallInv, ConstantsOK
<1> QED
  BY <1>1, <1>4, <1>5, <1>6 DEF PipeInv, FreeInv, EofInv, NoLostWakeup

LEMMA StepInv ==
  ASSUME ConstantsOK, TypeOK, PipeInv, [Next]_vars
  PROVE  TypeOK' /\ PipeInv'
<1>1. ASSUME NEW p \in Proc, Write(p) \/ Read(p) \/ Step(p)
      PROVE  TypeOK' /\ PipeInv'
  <2>1. PipeInv' /\ pc' \in [Proc -> Label]
    BY <1>1, WriteStartInv, ReadStartInv, WriteByteInv, WriteFailsInv, WriteSleepInv, WriteDoneInv,
       ReadSleepInv, ReadEofInv, ReadDoneInv, ReadByteInv, ResumeInv, KFreeInv, PipeCloseInv DEF Step
  <2>2. /\ data' \in [0..PIPESIZE - 1 -> Byte]
        /\ nread' \in 0..UintMod - 1 /\ nwrite' \in 0..UintMod - 1
        /\ left' \in [Proc -> 0..MaxN] /\ ch' \in Byte
    BY <1>1, RingTypes
  <2>3. /\ {readopen', writeopen', freed', eof', deserted'} \subseteq BOOLEAN
        /\ killed' = killed
    BY <1>1, FlagTypes
  <2>4. lock' \in Proc \cup {NoProc} /\ fd' = fd
    BY <1>1 DEF Step, Write, Read, WriteByte, PutByte, WriteFails, WriteSleep, WriteDone, EndWrite,
       ReadSleep, ReadEof, EndOfFile, ReadByte, ReadDone, Resume, KFree, PipeClose, CloseEnd,
       Enter, Leave, TypeOK
  <2>5. killed' \in [Proc -> BOOLEAN] /\ fd' \in [Proc -> SUBSET {"r", "w"}]
    BY <2>3, <2>4 DEF TypeOK
  <2> QED
    BY SMTT(40), <2>1, <2>2, <2>3, <2>4, <2>5 DEF TypeOK, Label
<1>2. ASSUME NEW p \in Proc, NEW e \in {"r", "w"}, Close(p, e)
      PROVE  TypeOK' /\ PipeInv'
  BY <1>2, CloseInv
<1>3. ASSUME NEW p \in Proc, NEW q \in Proc \ {p}, Fork(p, q)
      PROVE  TypeOK' /\ PipeInv'
  BY <1>3, ForkInv
<1>4. ASSUME NEW p \in Proc, Kill(p)
      PROVE  TypeOK' /\ PipeInv'
  BY <1>4, KillInv
<1>5. CASE UNCHANGED vars
  <2>1. UNCHANGED <<lock, data, nread, nwrite, readopen, writeopen, freed, pc, left, killed, fd, ch, eof, deserted>>
    BY <1>5 DEF vars, ring, ends
  <2>2. TypeOK'
    BY <2>1 DEF TypeOK
  <2>3. EndsInv' /\ FreeInv'
    BY <2>1, KeepsEnds DEF PipeInv
  <2>4. CallInv' /\ EofInv' /\ NoLostWakeup'
    BY <2>1 DEF PipeInv, CallInv, EofInv, NoLostWakeup, Empty, Full
  <2> QED
    BY <2>2, <2>3, <2>4 DEF PipeInv
<1> QED
  BY <1>1, <1>2, <1>3, <1>4, <1>5 DEF Next

LEMMA PipeInvariant ==
  ASSUME ConstantsOK
  PROVE  Spec => [](TypeOK /\ PipeInv)
<1>1. Init => TypeOK /\ PipeInv
  BY InitInv
<1>2. (TypeOK /\ PipeInv) /\ [Next]_vars => (TypeOK /\ PipeInv)'
  BY StepInv
<1> QED
  BY <1>1, <1>2, PTL DEF Spec

\* What pipe.c promises: its page is given back after the last use, a read
\* that reports end-of-file speaks for ever, and a process sleeps only beside
\* a ring it has to wait for, but for the return of a killed writer.
THEOREM PipeIsRight ==
  ASSUME ConstantsOK
  PROVE  Spec => []PipeRight
<1>1. TypeOK /\ PipeInv => PipeRight
  <2> SUFFICES ASSUME TypeOK, PipeInv
               PROVE  PipeRight
    OBVIOUS
  <2>1. NoUseAfterFree
    <3> SUFFICES ASSUME freed, NEW p \in Proc
                 PROVE  pc[p] = "user" /\ fd[p] = {}
      BY Zenon DEF NoUseAfterFree
    <3>1. ~readopen /\ ~writeopen /\ pc[p] # "kfree"
      BY DEF PipeInv, FreeInv
    <3> QED
      BY <3>1, BothClosed
  <2>2. EofIsFinal
    <3> SUFFICES ASSUME eof
                 PROVE  Empty /\ \A p \in Proc : "w" \notin fd[p]
      BY DEF EofIsFinal
    <3>1. Empty /\ ~Open("w")
      BY DEF PipeInv, EofInv, Open
    <3> QED
      BY <3>1 DEF PipeInv, EndsInv
  <2> QED
    BY <2>1, <2>2 DEF PipeInv, PipeRight
<1> QED
  BY <1>1, PipeInvariant, PTL

-----------------------------------------------------------------------------
(* Remainders.                                                             *)

LEMMA DivMod ==
  ASSUME NEW n \in Nat \ {0}, NEW a \in Int
  PROVE  a % n \in 0..n - 1 /\ a = n * (a \div n) + (a % n) /\ a \div n \in Int
<1>1. a % n \in 0..n - 1
  OBVIOUS
<1>2. a = n * (a \div n) + (a % n)
  OBVIOUS
<1>3. a \div n \in Int
  OBVIOUS
<1> QED
  BY <1>1, <1>2, <1>3

LEMMA ModUnique ==
  ASSUME NEW n \in Nat \ {0}, NEW a \in Int, NEW q \in Int, NEW r \in 0..n - 1, a = n * q + r
  PROVE  a % n = r
<1> DEFINE q2 == a \div n
           r2 == a % n
<1>1. q2 \in Int /\ r2 \in 0..n - 1 /\ a = n * q2 + r2
  BY DivMod
<1> HIDE DEF q2, r2
<1>2. n * (q - q2) = r2 - r
  BY <1>1
<1>3. q - q2 >= 1 => n * (q - q2) >= n
  BY <1>1
<1>4. q - q2 <= -1 => n * (q - q2) <= -n
  BY <1>1
<1>5. q = q2
  BY <1>1, <1>2, <1>3, <1>4
<1>6. r2 = r
  BY <1>1, <1>5
<1> QED
  BY <1>6 DEF r2

\* A number and one that is a multiple of n away have the same remainder.
LEMMA ModShift ==
  ASSUME NEW n \in Nat \ {0}, NEW a \in Int, NEW m \in Int
  PROVE  (a + n * m) % n = a % n
<1>1. a % n \in 0..n - 1 /\ a = n * (a \div n) + (a % n) /\ a \div n \in Int
  BY DivMod
<1> DEFINE q == a \div n
           r == a % n
<1>2. q \in Int /\ r \in 0..n - 1 /\ a = n * q + r
  BY <1>1
<1> HIDE DEF q, r
<1>3. a + n * m \in Int /\ q + m \in Int /\ a + n * m = n * (q + m) + r
  BY <1>2
<1>4. (a + n * m) % n = r
  BY <1>2, <1>3, ModUnique
<1> QED
  BY <1>4 DEF r

\* Numbers less than n apart have different remainders.
LEMMA ModApart ==
  ASSUME NEW n \in Nat \ {0}, NEW a \in Int, NEW d \in 1..n - 1
  PROVE  a % n # (a + d) % n
<1> DEFINE r == a % n
           q == a \div n
<1>1. q \in Int /\ r \in 0..n - 1 /\ a = n * q + r
  BY DivMod
<1> HIDE DEF q, r
<1>2. CASE r + d < n
  <2>1. r + d \in 0..n - 1 /\ a + d \in Int /\ a + d = n * q + (r + d)
    BY <1>1, <1>2
  <2>2. (a + d) % n = r + d
    BY <1>1, <2>1, ModUnique
  <2> QED
    BY <1>1, <2>2 DEF r
<1>3. CASE r + d >= n
  <2>1. /\ r + d - n \in 0..n - 1 /\ a + d \in Int /\ q + 1 \in Int
        /\ a + d = n * (q + 1) + (r + d - n)
    BY <1>1, <1>3
  <2>2. (a + d) % n = r + d - n
    BY Zenon, <2>1, ModUnique
  <2> QED
    BY <1>1, <2>2 DEF r
<1> QED
  BY <1>1, <1>2, <1>3

\* Arithmetic of a counter that wraps at n.
LEMMA ModWrap ==
  ASSUME NEW n \in Nat \ {0}
  PROVE  /\ \A x \in 0..n - 1 : x % n = x
         /\ \A x \in n..2 * n - 1 : x % n = x - n
         /\ \A x \in -n..-1 : x % n = x + n
<1>1. ASSUME NEW x \in 0..n - 1
      PROVE  x % n = x
  <2>1. x \in Int /\ 0 \in Int /\ x = n * 0 + x
    OBVIOUS
  <2> QED
    BY <2>1, ModUnique
<1>2. ASSUME NEW x \in n..2 * n - 1
      PROVE  x % n = x - n
  <2>1. x \in Int /\ 1 \in Int /\ x - n \in 0..n - 1 /\ x = n * 1 + (x - n)
    OBVIOUS
  <2> QED
    BY <2>1, ModUnique
<1>3. ASSUME NEW x \in -n..-1
      PROVE  x % n = x + n
  <2>1. x \in Int /\ -1 \in Int /\ x + n \in 0..n - 1 /\ x = n * (-1) + (x + n)
    OBVIOUS
  <2> QED
    BY <2>1, ModUnique
<1> QED
  BY <1>1, <1>2, <1>3

-----------------------------------------------------------------------------
(* The ring is a queue.                                                    *)

\* The bytes between two values of the counters.
Count(r, w) == (w - r) % UintMod

LEMMA CountIs ==
  ASSUME ConstantsOK, NEW r \in 0..UintMod - 1, NEW w \in 0..UintMod - 1
  PROVE  /\ Count(r, w) = IF w >= r THEN w - r ELSE w - r + UintMod
         /\ Count(r, w) \in 0..UintMod - 1
<1>1. UintMod \in Nat \ {0}
  BY DEF ConstantsOK
<1>2. /\ \A x \in 0..UintMod - 1 : x % UintMod = x
      /\ \A x \in -UintMod..-1 : x % UintMod = x + UintMod
  BY Zenon, <1>1, ModWrap
<1>3. CASE w >= r
  <2>1. w - r \in 0..UintMod - 1
    BY <1>1, <1>3
  <2> QED
    BY <1>2, <1>3, <2>1 DEF Count
<1>4. CASE ~(w >= r)
  <2>1. w - r \in -UintMod..-1 /\ w - r + UintMod \in 0..UintMod - 1
    BY <1>1, <1>4
  <2> QED
    BY <1>2, <1>4, <2>1 DEF Count
<1> QED
  BY <1>3, <1>4

LEMMA NextCount ==
  ASSUME ConstantsOK, NEW n \in 0..UintMod - 1
  PROVE  /\ (n + 1) % UintMod = IF n = UintMod - 1 THEN 0 ELSE n + 1
         /\ (n + 1) % UintMod \in 0..UintMod - 1
         /\ (n + PIPESIZE) % UintMod = IF n + PIPESIZE >= UintMod THEN (n + PIPESIZE) - UintMod
                                                                  ELSE n + PIPESIZE
<1>1. UintMod \in Nat \ {0} /\ PIPESIZE \in Nat \ {0} /\ UintMod > PIPESIZE
  BY DEF ConstantsOK
<1>2. /\ \A x \in 0..UintMod - 1 : x % UintMod = x
      /\ \A x \in UintMod..2 * UintMod - 1 : x % UintMod = x - UintMod
  BY <1>1, ModWrap
<1> DEFINE x == n + 1
           y == n + PIPESIZE
<1>3. (n + 1) % UintMod = IF n = UintMod - 1 THEN 0 ELSE n + 1
  <2>1. CASE n = UintMod - 1
    <3>1. x \in UintMod..2 * UintMod - 1 /\ x - UintMod = 0
      BY <1>1, <2>1
    <3> HIDE DEF x
    <3>2. x % UintMod = 0
      BY <1>2, <3>1, Zenon
    <3> QED
      BY <2>1, <3>2, Zenon DEF x
  <2>2. CASE n # UintMod - 1
    <3>1. x \in 0..UintMod - 1
      BY <1>1, <2>2
    <3> HIDE DEF x
    <3>2. x % UintMod = x
      BY <1>2, <3>1, Zenon
    <3> QED
      BY <2>2, <3>2, Zenon DEF x
  <2> QED
    BY <2>1, <2>2
<1>4. (n + PIPESIZE) % UintMod = IF n + PIPESIZE >= UintMod THEN (n + PIPESIZE) - UintMod
                                                            ELSE n + PIPESIZE
  <2>1. y \in Int /\ (y >= UintMod => y \in UintMod..2 * UintMod - 1)
        /\ (~(y >= UintMod) => y \in 0..UintMod - 1)
    BY <1>1
  <2> HIDE DEF y
  <2>2. y >= UintMod => y % UintMod = y - UintMod
    BY <1>2, <2>1, Zenon
  <2>3. ~(y >= UintMod) => y % UintMod = y
    BY <1>2, <2>1, Zenon
  <2>4. y % UintMod = IF y >= UintMod THEN y - UintMod ELSE y
    BY <2>2, <2>3, Zenon
  <2> QED
    BY <2>4, Zenon DEF y
<1>5. (n + 1) % UintMod \in 0..UintMod - 1
  BY <1>1, <1>3
<1> QED
  BY <1>3, <1>4, <1>5

\* Full, Empty and the counters after a byte, in terms of Count.
LEMMA CountMath ==
  ASSUME ConstantsOK
  PROVE  \A r, w \in 0..UintMod - 1 :
           /\ Count(r, w) \in 0..UintMod - 1
           /\ r = w <=> Count(r, w) = 0
           /\ w = (r + PIPESIZE) % UintMod <=> Count(r, w) = PIPESIZE
           /\ Count(r, w) < PIPESIZE => Count(r, (w + 1) % UintMod) = Count(r, w) + 1
           /\ Count(r, w) > 0 => Count((r + 1) % UintMod, w) = Count(r, w) - 1
<1> SUFFICES ASSUME NEW r \in 0..UintMod - 1, NEW w \in 0..UintMod - 1
             PROVE  /\ Count(r, w) \in 0..UintMod - 1
                    /\ r = w <=> Count(r, w) = 0
                    /\ w = (r + PIPESIZE) % UintMod <=> Count(r, w) = PIPESIZE
                    /\ Count(r, w) < PIPESIZE => Count(r, (w + 1) % UintMod) = Count(r, w) + 1
                    /\ Count(r, w) > 0 => Count((r + 1) % UintMod, w) = Count(r, w) - 1
  OBVIOUS
<1> DEFINE r1 == (r + 1) % UintMod
           w1 == (w + 1) % UintMod
           full == (r + PIPESIZE) % UintMod
<1>0. UintMod \in Nat \ {0} /\ PIPESIZE \in Nat \ {0} /\ UintMod > PIPESIZE
  BY DEF ConstantsOK
<1>1. /\ r1 = IF r = UintMod - 1 THEN 0 ELSE r + 1
      /\ r1 \in 0..UintMod - 1
      /\ full = IF r + PIPESIZE >= UintMod THEN (r + PIPESIZE) - UintMod ELSE r + PIPESIZE
  BY NextCount
<1>2. w1 \in 0..UintMod - 1 /\ w1 = IF w = UintMod - 1 THEN 0 ELSE w + 1
  BY NextCount
<1> HIDE DEF r1, w1, full
<1>3. /\ Count(r, w) = IF w >= r THEN w - r ELSE w - r + UintMod
      /\ Count(r, w) \in 0..UintMod - 1
  BY CountIs
<1>4. Count(r, w1) = IF w1 >= r THEN w1 - r ELSE w1 - r + UintMod
  BY Zenon, <1>2, CountIs
<1>5. Count(r1, w) = IF w >= r1 THEN w - r1 ELSE w - r1 + UintMod
  BY Zenon, <1>1, CountIs
<1> HIDE DEF Count
<1>6. r = w <=> Count(r, w) = 0
  BY <1>0, <1>3
<1>7. w = full <=> Count(r, w) = PIPESIZE
  BY <1>0, <1>1, <1>3
<1>8. Count(r, w) < PIPESIZE => Count(r, w1) = Count(r, w) + 1
  BY <1>0, <1>2, <1>3, <1>4
<1>9. Count(r, w) > 0 => Count(r1, w) = Count(r, w) - 1
  BY <1>0, <1>1, <1>3, <1>5
<1> QED
  BY <1>3, <1>6, <1>7, <1>8, <1>9 DEF r1, w1, full

\* Where the bytes are: indices follow the counters through the wrap, and
\* the place of the next byte is none of those in use.
LEMMA IndexMath ==
  ASSUME ConstantsOK
  PROVE  \A r, w \in 0..UintMod - 1 :
           /\ w % PIPESIZE = (r + Count(r, w)) % PIPESIZE
           /\ \A k \in Nat : (((r + 1) % UintMod) + k) % PIPESIZE = (r + (k + 1)) % PIPESIZE
<1> SUFFICES ASSUME NEW r \in 0..UintMod - 1, NEW w \in 0..UintMod - 1
             PROVE  /\ w % PIPESIZE = (r + Count(r, w)) % PIPESIZE
                    /\ \A k \in Nat : (((r + 1) % UintMod) + k) % PIPESIZE = (r + (k + 1)) % PIPESIZE
  OBVIOUS
<1> DEFINE m == UintMod \div PIPESIZE
           r1 == (r + 1) % UintMod
           c == Count(r, w)
<1>1. UintMod \in Nat \ {0} /\ PIPESIZE \in Nat \ {0}
  BY DEF ConstantsOK
<1>2. m \in Int /\ UintMod = PIPESIZE * m
  <2>1. UintMod = PIPESIZE * (UintMod \div PIPESIZE) + (UintMod % PIPESIZE) /\ m \in Int
    BY <1>1, DivMod
  <2>2. UintMod % PIPESIZE = 0
    BY DEF ConstantsOK
  <2> QED
    BY <1>1, <2>1, <2>2
<1> HIDE DEF m
<1>3. \A a \in Int : (a + UintMod) % PIPESIZE = a % PIPESIZE
  BY Zenon, <1>1, <1>2, ModShift
<1>4. c \in Int /\ (r + c = w \/ r + c = w + UintMod)
  <2>1. c = (IF w >= r THEN w - r ELSE w - r + UintMod) /\ c \in 0..UintMod - 1
    BY CountIs
  <2> HIDE DEF c
  <2> QED
    BY <1>1, <2>1
<1>5. r1 \in Int /\ (r1 = r + 1 \/ r1 + UintMod = r + 1)
  <2>1. r1 = (IF r = UintMod - 1 THEN 0 ELSE r + 1)
    BY NextCount
  <2> HIDE DEF r1
  <2> QED
    BY <1>1, <2>1
<1> HIDE DEF c, r1
<1>6. w % PIPESIZE = (r + c) % PIPESIZE
  <2>1. w \in Int
    OBVIOUS
  <2>2. (w + UintMod) % PIPESIZE = w % PIPESIZE
    BY <1>3, <2>1, Zenon
  <2> QED
    BY <1>4, <2>2, Zenon
<1>7. ASSUME NEW k \in Nat
      PROVE  (r1 + k) % PIPESIZE = (r + (k + 1)) % PIPESIZE
  <2>1. CASE r1 = r + 1
    <3>1. r1 + k = r + (k + 1)
      BY <2>1
    <3> QED
      BY <3>1, Zenon
  <2>2. CASE r1 + UintMod = r + 1
    <3>1. (r1 + k) + UintMod = r + (k + 1) /\ r1 + k \in Int
      BY <1>1, <1>5, <2>2
    <3>2. ((r1 + k) + UintMod) % PIPESIZE = (r1 + k) % PIPESIZE
      BY <1>3, <3>1, Zenon
    <3> QED
      BY <3>1, <3>2, Zenon
  <2> QED
    BY <1>5, <2>1, <2>2
<1> QED
  BY <1>6, <1>7 DEF c, r1

LEMMA FreePlace ==
  ASSUME ConstantsOK
  PROVE  \A r \in 0..UintMod - 1 : \A c \in 0..PIPESIZE - 1 : \A k \in 1..c :
           (r + (k - 1)) % PIPESIZE # (r + c) % PIPESIZE
<1> SUFFICES ASSUME NEW r \in 0..UintMod - 1, NEW c \in 0..PIPESIZE - 1, NEW k \in 1..c
             PROVE  (r + (k - 1)) % PIPESIZE # (r + c) % PIPESIZE
  OBVIOUS
<1> DEFINE a == r + (k - 1)
           d == (c - k) + 1
<1>1. PIPESIZE \in Nat \ {0} /\ UintMod \in Nat
  BY DEF ConstantsOK
<1>2. a \in Int /\ d \in 1..PIPESIZE - 1 /\ a + d = r + c
  BY <1>1
<1> HIDE DEF a, d
<1>3. a % PIPESIZE # (a + d) % PIPESIZE
  BY Zenon, <1>1, <1>2, ModApart
<1> QED
  BY <1>2, <1>3, Zenon DEF a

LEMMA AppendIs ==
  \A n \in Nat : \A S : \A s \in [1..n -> S] : \A b \in S :
    /\ Len(s) = n
    /\ Append(s, b) = [k \in 1..n + 1 |-> IF k = n + 1 THEN b ELSE s[k]]
<1> SUFFICES ASSUME NEW n \in Nat, NEW S, NEW s \in [1..n -> S], NEW b \in S
             PROVE  /\ Len(s) = n
                    /\ Append(s, b) = [k \in 1..n + 1 |-> IF k = n + 1 THEN b ELSE s[k]]
  OBVIOUS
<1>1. s \in Seq(S) /\ Len(s) = n
  OBVIOUS
<1> DEFINE t == Append(s, b)
<1>2. /\ t \in Seq(S) /\ Len(t) = n + 1 /\ t[n + 1] = b
      /\ \A i \in 1..n : t[i] = s[i]
  BY <1>1, AppendProperties
<1> HIDE DEF t
<1>3. t \in [1..n + 1 -> S]
  BY <1>2, LenProperties
<1>4. \A k \in 1..n + 1 : t[k] = IF k = n + 1 THEN b ELSE s[k]
  BY <1>2
<1>5. t = [k \in 1..n + 1 |-> t[k]]
  BY <1>3
<1>6. t = [k \in 1..n + 1 |-> IF k = n + 1 THEN b ELSE s[k]]
  BY <1>4, <1>5, Zenon
<1> QED
  BY <1>1, <1>6 DEF t

LEMMA TailIs ==
  \A n \in Nat \ {0} : \A S : \A s \in [1..n -> S] :
    /\ s # <<>> /\ Head(s) = s[1]
    /\ Tail(s) = [k \in 1..n - 1 |-> s[k + 1]]
<1> SUFFICES ASSUME NEW n \in Nat \ {0}, NEW S, NEW s \in [1..n -> S]
             PROVE  /\ s # <<>> /\ Head(s) = s[1]
                    /\ Tail(s) = [k \in 1..n - 1 |-> s[k + 1]]
  BY Zenon
<1>1. s \in Seq(S) /\ Len(s) = n /\ s # <<>> /\ Head(s) = s[1]
  OBVIOUS
<1> DEFINE t == Tail(s)
<1>2. t \in Seq(S) /\ Len(t) = n - 1 /\ \A i \in 1..Len(t) : t[i] = s[i + 1]
  BY <1>1, HeadTailProperties
<1> HIDE DEF t
<1>3. t \in [1..n - 1 -> S]
  BY <1>2, LenProperties
<1>4. \A k \in 1..n - 1 : t[k] = s[k + 1]
  BY <1>2
<1>5. t = [k \in 1..n - 1 |-> t[k]]
  BY <1>3
<1>6. t = [k \in 1..n - 1 |-> s[k + 1]]
  BY <1>4, <1>5, Zenon
<1> QED
  BY <1>1, <1>6 DEF t

\* The ring never holds more than PIPESIZE bytes.
Bounded == Count(nread, nwrite) <= PIPESIZE

LEMMA ContentsType ==
  ASSUME ConstantsOK, TypeOK
  PROVE  /\ Count(nread, nwrite) \in Nat
         /\ Contents = [k \in 1..Count(nread, nwrite) |-> data[(nread + (k - 1)) % PIPESIZE]]
         /\ Contents \in [1..Count(nread, nwrite) -> Byte]
<1>1. /\ nread \in 0..UintMod - 1 /\ nwrite \in 0..UintMod - 1
      /\ data \in [0..PIPESIZE - 1 -> Byte] /\ PIPESIZE \in Nat \ {0}
  BY DEF TypeOK, ConstantsOK
<1>2. Count(nread, nwrite) \in Nat
  BY <1>1, CountMath
<1>3. \A k \in 1..Count(nread, nwrite) : (nread + (k - 1)) % PIPESIZE \in 0..PIPESIZE - 1
  BY <1>1, <1>2
<1>4. Contents = [k \in 1..Count(nread, nwrite) |-> data[(nread + (k - 1)) % PIPESIZE]]
  BY DEF Contents, Count
<1> QED
  BY Zenon, <1>1, <1>2, <1>3, <1>4

\* pipewrite puts a byte at the end of the queue.
LEMMA WriteIsPut ==
  ASSUME ConstantsOK, TypeOK, TypeOK', Bounded, NEW p \in Proc, NEW b \in Byte, WriteByte(p, b)
  PROVE  Fifo!Put(b) /\ Bounded'
<1> DEFINE c == Count(nread, nwrite)
<1>1. /\ nread \in 0..UintMod - 1 /\ nwrite \in 0..UintMod - 1 /\ PIPESIZE \in Nat \ {0}
      /\ data \in [0..PIPESIZE - 1 -> Byte]
  BY DEF TypeOK, ConstantsOK
<1>2. /\ data' = [data EXCEPT ![nwrite % PIPESIZE] = b] /\ nread' = nread
      /\ nwrite' = (nwrite + 1) % UintMod /\ ch' = ch /\ ~Full
  BY DEF WriteByte, PutByte
<1>3. c \in Nat /\ c < PIPESIZE
  BY <1>1, <1>2, CountMath DEF Bounded, Full
<1>4. Count(nread', nwrite') = c + 1
  BY <1>1, <1>2, <1>3, CountMath
<1>5. /\ Contents = [k \in 1..c |-> data[(nread + (k - 1)) % PIPESIZE]]
      /\ Contents \in [1..c -> Byte]
  BY ContentsType
<1>6. Contents' = [k \in 1..c + 1 |-> data'[(nread + (k - 1)) % PIPESIZE]]
  BY <1>2, <1>4 DEF Contents, Count
<1>7. nwrite % PIPESIZE = (nread + c) % PIPESIZE
  BY <1>1, IndexMath
<1>8. \A k \in 1..c : (nread + (k - 1)) % PIPESIZE # nwrite % PIPESIZE
  <2>1. c \in 0..PIPESIZE - 1
    BY <1>1, <1>3
  <2>2. \A k \in 1..c : (nread + (k - 1)) % PIPESIZE # (nread + c) % PIPESIZE
    BY <1>1, <2>1, FreePlace, Zenon
  <2> QED
    BY <1>7, <2>2, Zenon
<1> HIDE DEF c
<1>9. \A k \in 1..c : data'[(nread + (k - 1)) % PIPESIZE] = Contents[k]
  <2> SUFFICES ASSUME NEW k \in 1..c
               PROVE  data'[(nread + (k - 1)) % PIPESIZE] = Contents[k]
    OBVIOUS
  <2>1. (nread + (k - 1)) % PIPESIZE \in 0..PIPESIZE - 1
    BY <1>1, <1>3
  <2>2. data'[(nread + (k - 1)) % PIPESIZE] = data[(nread + (k - 1)) % PIPESIZE]
    BY <1>1, <1>2, <1>8, <2>1, Zenon
  <2> QED
    BY <1>5, <2>2, Zenon
<1>10. data'[(nread + ((c + 1) - 1)) % PIPESIZE] = b
  <2>1. nread + ((c + 1) - 1) = nread + c
    BY <1>1, <1>3
  <2>2. nwrite % PIPESIZE \in 0..PIPESIZE - 1
    BY <1>1
  <2>3. data'[nwrite % PIPESIZE] = b
    BY <1>1, <1>2, <2>2, Zenon
  <2> QED
    BY <1>7, <2>1, <2>3, Zenon
<1>11. Contents' = [k \in 1..c + 1 |-> IF k = c + 1 THEN b ELSE Contents[k]]
  <2>1. \A k \in 1..c + 1 : k = c + 1 \/ k \in 1..c
    BY <1>3
  <2>2. \A k \in 1..c + 1 :
          data'[(nread + (k - 1)) % PIPESIZE] = IF k = c + 1 THEN b ELSE Contents[k]
    BY <1>9, <1>10, <2>1, Zenon
  <2> QED
    BY <1>6, <2>2, Zenon
<1>12. Len(Contents) = c /\ Append(Contents, b) = [k \in 1..c + 1 |-> IF k = c + 1 THEN b ELSE Contents[k]]
  BY <1>3, <1>5, AppendIs
<1>13. Bounded'
  BY <1>1, <1>3, <1>4 DEF Bounded
<1> QED
  BY <1>2, <1>3, <1>11, <1>12, <1>13 DEF Fifo!Put

\* piperead takes the byte at the head of the queue.
LEMMA ReadIsGet ==
  ASSUME ConstantsOK, TypeOK, TypeOK', Bounded, NEW p \in Proc, NEW ok \in BOOLEAN, ReadByte(p, ok)
  PROVE  Fifo!Get /\ Bounded'
<1> DEFINE c == Count(nread, nwrite)
<1>1. /\ nread \in 0..UintMod - 1 /\ nwrite \in 0..UintMod - 1 /\ PIPESIZE \in Nat \ {0}
      /\ UintMod \in Nat
  BY DEF TypeOK, ConstantsOK
<1>2. /\ data' = data /\ nwrite' = nwrite /\ nread' = (nread + 1) % UintMod
      /\ ch' = data[nread % PIPESIZE] /\ ~Empty
  BY DEF ReadByte
<1>3. c \in Nat \ {0}
  <2>1. c \in 0..UintMod - 1 /\ (nread = nwrite <=> c = 0)
    BY <1>1, CountMath
  <2> HIDE DEF c
  <2> QED
    BY <1>1, <1>2, <2>1 DEF Empty
<1>4. Count(nread', nwrite') = c - 1
  <2>1. Count(nread, nwrite) > 0
    BY <1>3
  <2> QED
    BY <1>1, <1>2, <2>1, CountMath
<1>5. /\ Contents = [k \in 1..c |-> data[(nread + (k - 1)) % PIPESIZE]]
      /\ Contents \in [1..c -> Byte]
  BY ContentsType
<1>6. Contents' = [k \in 1..c - 1 |-> data[(nread' + (k - 1)) % PIPESIZE]]
  BY <1>2, <1>4 DEF Contents, Count
<1>7. \A k \in Nat : (nread' + k) % PIPESIZE = (nread + (k + 1)) % PIPESIZE
  BY Zenon, <1>1, <1>2, IndexMath
<1> HIDE DEF c
<1>8. \A k \in 1..c - 1 : data[(nread' + (k - 1)) % PIPESIZE] = Contents[k + 1]
  <2> SUFFICES ASSUME NEW k \in 1..c - 1
               PROVE  data[(nread' + (k - 1)) % PIPESIZE] = Contents[k + 1]
    OBVIOUS
  <2>1. k - 1 \in Nat /\ k + 1 \in 1..c /\ (k - 1) + 1 = (k + 1) - 1
    BY <1>3
  <2>2. (nread' + (k - 1)) % PIPESIZE = (nread + ((k - 1) + 1)) % PIPESIZE
    BY <1>7, <2>1, Zenon
  <2> QED
    BY <1>5, <2>1, <2>2, Zenon
<1>9. Contents' = [k \in 1..c - 1 |-> Contents[k + 1]]
  BY <1>6, <1>8, Zenon
<1>10. Contents # <<>> /\ Head(Contents) = Contents[1] /\ Tail(Contents) = [k \in 1..c - 1 |-> Contents[k + 1]]
  BY SMTT(40), <1>3, <1>5, TailIs
<1>11. Contents[1] = data[nread % PIPESIZE]
  <2>1. 1 \in 1..c /\ nread + (1 - 1) = nread
    BY <1>1, <1>3
  <2> QED
    BY <1>5, <2>1, Zenon
<1>12. Bounded'
  BY <1>1, <1>3, <1>4 DEF Bounded, c
<1> QED
  BY <1>2, <1>9, <1>10, <1>11, <1>12 DEF Fifo!Get

LEMMA FifoStep ==
  ASSUME ConstantsOK, TypeOK, TypeOK', Bounded, [Next]_vars
  PROVE  [Fifo!Next]_<<Contents, ch>> /\ Bounded'
<1>1. ASSUME NEW p \in Proc, NEW b \in Byte, WriteByte(p, b)
      PROVE  Fifo!Next /\ Bounded'
  BY <1>1, WriteIsPut DEF Fifo!Next
<1>2. ASSUME NEW p \in Proc, NEW ok \in BOOLEAN, ReadByte(p, ok)
      PROVE  Fifo!Next /\ Bounded'
  BY <1>2, ReadIsGet DEF Fifo!Next
<1>3. ASSUME UNCHANGED <<data, nread, nwrite, ch>>
      PROVE  UNCHANGED <<Contents, ch>> /\ Bounded'
  BY <1>3 DEF Contents, Bounded, Count
<1>4. ASSUME NEW p \in Proc,
             \/ Write(p) \/ Read(p) \/ WriteFails(p) \/ WriteSleep(p) \/ WriteDone(p)
             \/ ReadSleep(p) \/ ReadEof(p) \/ ReadDone(p) \/ Resume(p) \/ KFree(p) \/ Kill(p)
             \/ \E e \in {"r", "w"} : PipeClose(p, e) \/ Close(p, e)
             \/ \E q \in Proc \ {p} : Fork(p, q)
      PROVE  UNCHANGED <<data, nread, nwrite, ch>>
  BY <1>4 DEF Write, Read, WriteFails, WriteSleep, WriteDone, EndWrite, ReadSleep, ReadEof,
     EndOfFile, ReadDone, Resume, KFree, PipeClose, CloseEnd, Kill, Close, Fork, ring
<1>5. CASE UNCHANGED vars
  BY <1>3, <1>5 DEF vars, ring
<1> QED
  BY <1>1, <1>2, <1>3, <1>4, <1>5 DEF Next, Step

LEMMA FifoInit ==
  ASSUME ConstantsOK, Init
  PROVE  Fifo!Init /\ Bounded
<1>1. nread = 0 /\ nwrite = 0 /\ ch \in Byte /\ PIPESIZE \in Nat /\ 0 \in 0..UintMod - 1
  BY DEF Init, ConstantsOK
<1>2. Count(0, 0) = 0
  BY <1>1, CountMath
<1>3. Contents = [k \in 1..0 |-> data[(nread + (k - 1)) % PIPESIZE]]
  BY <1>1, <1>2 DEF Contents, Count
<1>4. Contents = <<>>
  BY <1>3
<1>5. Bounded
  BY <1>1, <1>2 DEF Bounded
<1> QED
  BY <1>1, <1>4, <1>5 DEF Fifo!Init

\* The ring of pipewrite and piperead is a FIFO queue of at most PIPESIZE
\* bytes, for every size of the ring that divides the range of the unsigned
\* counters, through every wrap of nread and nwrite.
THEOREM PipeIsFifo ==
  ASSUME ConstantsOK
  PROVE  Spec => IsFifo
<1>1. Init => Fifo!Init /\ Bounded
  BY FifoInit
<1>2. TypeOK /\ TypeOK' /\ Bounded /\ [Next]_vars => [Fifo!Next]_<<Contents, ch>> /\ Bounded'
  BY FifoStep
<1>3. Spec => []TypeOK
  BY PipeInvariant, PTL
<1> QED
  BY <1>1, <1>2, <1>3, PTL DEF Spec, IsFifo, Fifo!Spec
=============================================================================
