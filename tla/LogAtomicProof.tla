--------------------------- MODULE LogAtomicProof ---------------------------
(***************************************************************************)
(* The log makes file-system calls atomic across crashes: CallsAreAtomic   *)
(* of Log.  With DataInv each step of the log is a step of AtomicDisk or   *)
(* one it does not see, and writing the header is the step that commits.   *)
(***************************************************************************)
EXTENDS LogDataProof

\* A step that AtomicDisk does not see.
Unseen == View' = View /\ Recovered' = Recovered /\ Ops' = Ops

LEMMA UnseenStep == Unseen => UNCHANGED AD!vars
BY DEF Unseen, Ops, AD!vars

\* A block is in the header once, so that CHOOSE finds its log block.
LEMMA LogBlockOf ==
  \A h : IsInjective(h) => \A i \in DOMAIN h : (CHOOSE j \in DOMAIN h : h[j] = h[i]) = i
<1> SUFFICES ASSUME NEW h, IsInjective(h), NEW i \in DOMAIN h
             PROVE  (CHOOSE j \in DOMAIN h : h[j] = h[i]) = i
  OBVIOUS
<1>1. \A j \in DOMAIN h : h[j] = h[i] => j = i
  BY DEF IsInjective
<1> QED
  BY <1>1

LEMMA RecoveredIs ==
  IsInjective(head) =>
    \A b \in Block : /\ b \notin Range(head) => Recovered[b] = home[b]
                     /\ \A i \in DOMAIN head : head[i] = b => Recovered[b] = dlog[i]
<1> SUFFICES ASSUME IsInjective(head), NEW b \in Block
             PROVE  /\ b \notin Range(head) => Recovered[b] = home[b]
                    /\ \A i \in DOMAIN head : head[i] = b => Recovered[b] = dlog[i]
  OBVIOUS
<1>1. b \notin Range(head) => Recovered[b] = home[b]
  BY DEF Recovered
<1>2. ASSUME NEW i \in DOMAIN head, head[i] = b
      PROVE  Recovered[b] = dlog[i]
  <2>1. b \in Range(head)
    BY <1>2 DEF Range
  <2>2. (CHOOSE j \in DOMAIN head : head[j] = head[i]) = i
    BY LogBlockOf
  <2> QED
    BY Zenon, <1>2, <2>1, <2>2 DEF Recovered
<1> QED
  BY <1>1, <1>2

\* Two disks that recovery takes to the same blocks.
LEMMA SameRecovered ==
  ASSUME \A b \in Block : Recovered'[b] = Recovered[b]
  PROVE  Recovered' = Recovered
<1>1. Recovered = [b \in Block |-> Recovered[b]] /\ Recovered' = [b \in Block |-> Recovered'[b]]
  BY DEF Recovered
<1> HIDE DEF Recovered
<1> QED
  BY <1>1

LEMMA SameDisk ==
  ASSUME UNCHANGED <<head, dlog, home>>
  PROVE  Recovered' = Recovered
BY DEF Recovered

LEMMA SameView ==
  ASSUME boot = "up", boot' = "up", \A b \in Block : bread(b)' = bread(b)
  PROVE  View' = View
BY DEF View

\* begin_op, the tests of log_write, log_write and the end of end_op.
LEMMA QuietUnseen ==
  ASSUME TypeOK, NEW p \in Proc,
         BeginWait(p) \/ LogWriteTests(p) \/ LogWrite(p) \/ EndCommit(p)
  PROVE  Unseen
<1>1. UNCHANGED <<cache, head, dlog, home, boot>> /\ boot = "up"
  BY DEF BeginWait, LogWriteTests, LogWrite, EndCommit, Running, memVars, diskVars, sysVars
<1>2. \A q \in Proc : InOp(q)' <=> InOp(q)
  BY DEF BeginWait, LogWriteTests, LogWrite, EndCommit, Wakeup, InOp, TypeOK
<1>3. \A b \in Block : bread(b)' = bread(b)
  BY <1>1 DEF bread
<1> QED
  BY <1>1, <1>2, <1>3, SameDisk, SameView DEF Unseen, Ops

LEMMA BeginIsBegin ==
  ASSUME TypeOK, NEW p \in Proc, BeginOp(p)
  PROVE  AD!Begin(p)
<1>1. UNCHANGED <<cache, head, dlog, home, boot>> /\ boot = "up"
  BY DEF BeginOp, Running, memVars, diskVars, sysVars
<1>2. ~InOp(p) /\ InOp(p)' /\ \A q \in Proc \ {p} : InOp(q)' <=> InOp(q)
  BY DEF BeginOp, InOp, TypeOK
<1>3. \A b \in Block : bread(b)' = bread(b)
  BY <1>1 DEF bread
<1>4. View' = View /\ Recovered' = Recovered
  BY <1>1, <1>3, SameDisk, SameView
<1>5. p \notin Ops /\ Ops' = Ops \cup {p}
  BY <1>2 DEF Ops
<1> QED
  BY <1>4, <1>5 DEF AD!Begin, Ops

LEMMA EndIsEnd ==
  ASSUME TypeOK, NEW p \in Proc, EndOp(p)
  PROVE  AD!End(p)
<1>1. UNCHANGED <<cache, head, dlog, home, boot>> /\ boot = "up"
  BY DEF EndOp, Running, memVars, diskVars
<1>2. InOp(p) /\ ~InOp(p)' /\ \A q \in Proc \ {p} : InOp(q)' <=> InOp(q)
  BY DEF EndOp, Wakeup, InOp, TypeOK
<1>3. \A b \in Block : bread(b)' = bread(b)
  BY <1>1 DEF bread
<1>4. View' = View /\ Recovered' = Recovered
  BY <1>1, <1>3, SameDisk, SameView
<1>5. p \in Ops /\ Ops' = Ops \ {p}
  BY <1>2 DEF Ops
<1> QED
  BY <1>4, <1>5 DEF AD!End, Ops

LEMMA ModifyIsWrite ==
  ASSUME TypeOK, NEW p \in Proc, NEW b \in Block, NEW v \in Val, Modify(p, b, v)
  PROVE  AD!Write(p, b, v)
<1>1. /\ UNCHANGED <<head, dlog, home, boot>> /\ boot = "up"
      /\ cache' = [cache EXCEPT ![b] = v]
  BY DEF Modify, Running, diskVars, sysVars
<1>2. InOp(p) /\ \A q \in Proc : InOp(q)' <=> InOp(q)
  BY DEF Modify, InOp, TypeOK
<1>3. v # NotCached
  BY LogConstants
<1>4. \A a \in Block : bread(a)' = IF a = b THEN v ELSE bread(a)
  BY <1>1, <1>3 DEF bread, TypeOK
<1>5. View' = [View EXCEPT ![b] = v]
  <2>1. View = [a \in Block |-> bread(a)] /\ View' = [a \in Block |-> bread(a)']
    BY <1>1 DEF View
  <2> QED
    BY <1>4, <2>1
<1>6. Recovered' = Recovered
  BY <1>1, SameDisk
<1>7. p \in Ops /\ Ops' = Ops
  BY <1>2 DEF Ops
<1> QED
  BY <1>5, <1>6, <1>7 DEF AD!Write, Ops

\* write_log writes log blocks that an empty header does not name.
LEMMA WriteLogUnseen ==
  ASSUME SmallCalls, TypeOK, LogInv, DataInv, NEW p \in Proc, WriteLog(p)
  PROVE  Unseen
<1>1. /\ UNCHANGED <<head, home, boot>> /\ boot = "up" /\ cache' = cache
      /\ pc[p] = "write_log" /\ InCommit(p)
  BY WriteLogCopies DEF WriteLog, Running, sysVars, InCommit
<1>2. head = <<>>
  <2>1. \A q \in Proc \ {p} : ~InCommit(q)
    BY <1>1, CommitterHolds
  <2>2. ~Installing
    BY <1>1, <2>1 DEF Installing, InCommit
  <2> QED
    BY <1>1, <2>2 DEF DataInv, HeaderInv
<1>3. Range(head) = {} /\ Range(head') = {}
  BY <1>1, <1>2 DEF Range
<1>4. Recovered' = Recovered
  BY <1>1, <1>3 DEF Recovered
<1>5. \A b \in Block : bread(b)' = bread(b)
  BY <1>1 DEF bread
<1>6. \A q \in Proc : InOp(q)' <=> InOp(q)
  BY DEF WriteLog, InOp, TypeOK
<1> QED
  BY <1>1, <1>4, <1>5, <1>6, SameView DEF Unseen, Ops

\* write_head is the commit: every block of the header is in the log, and
\* the others are at home already.
LEMMA WriteHeadIsCommit ==
  ASSUME SmallCalls, TypeOK, LogInv, DataInv, NEW p \in Proc, WriteHead(p)
  PROVE  AD!Commit
<1>1. /\ UNCHANGED <<cache, dlog, home, lh, boot>> /\ boot = "up" /\ head' = lh
      /\ pc[p] = "write_head" /\ InCommit(p)
  BY DEF WriteHead, Running, memVars, logVars, sysVars, InCommit
<1>2. Held = {} /\ \A q \in Proc : ~InOp(q)
  BY <1>1, CommitterHolds
<1>3. Recovered' = [b \in Block |-> IF b \in Range(lh)
                                     THEN dlog[CHOOSE i \in DOMAIN lh : lh[i] = b]
                                     ELSE home[b]]
  BY <1>1 DEF Recovered
<1>4. \A i \in DOMAIN lh : (CHOOSE j \in DOMAIN lh : lh[j] = lh[i]) = i
  BY LogBlockOf DEF DataInv, HeaderInv
<1>5. ASSUME NEW b \in Block
      PROVE  Recovered'[b] = bread(b)
  <2>1. CASE b \notin Range(lh)
    <3>1. bread(b) = home[b]
      BY <1>2, <2>1 DEF DataInv, CleanInv
    <3> QED
      BY <1>3, <2>1, <3>1
  <2>2. CASE b \in Range(lh)
    <3>1. PICK i \in DOMAIN lh : lh[i] = b
      BY <2>2 DEF Range
    <3>2. dlog[i] = bread(lh[i])
      BY <1>1 DEF DataInv, CopyInv
    <3>3. Recovered'[b] = dlog[i]
      BY <1>3, <1>4, <2>2, <3>1
    <3> QED
      BY <3>1, <3>2, <3>3
  <2> QED
    BY <2>1, <2>2
<1>6. Recovered' = View
  <2>1. Recovered' = [b \in Block |-> Recovered'[b]]
    BY DEF Recovered
  <2>2. View = [b \in Block |-> bread(b)]
    BY <1>1 DEF View
  <2> HIDE DEF Recovered
  <2> QED
    BY <1>5, <2>1, <2>2
<1>7. View' = View
  <2>1. \A b \in Block : bread(b)' = bread(b)
    BY <1>1 DEF bread
  <2> QED
    BY <1>1, <2>1, SameView
<1>8. Ops = {} /\ Ops' = {}
  <2>1. \A q \in Proc : ~InOp(q)'
    BY <1>2 DEF WriteHead, InOp, TypeOK
  <2> QED
    BY <1>2, <2>1 DEF Ops
<1> QED
  BY <1>6, <1>7, <1>8 DEF AD!Commit, Ops

\* Writing a logged block home changes nothing that recovery would see.
LEMMA InstalledRecovered ==
  ASSUME SmallCalls, TypeOK, LogInv, DataInv, tail < Len(lh), InstallBlock, head = lh,
         UNCHANGED <<lh, head, dlog>>
  PROVE  Recovered' = Recovered
<1>1. /\ tail + 1 \in DOMAIN lh
      /\ \A a \in Block \ {lh[tail + 1]} : home'[a] = home[a]
  BY InstallBlockData DEF DataInv
<1>2. lh[tail + 1] \in Range(head)
  BY <1>1 DEF Range
<1>3. \A a \in Block : a \notin Range(head) => home'[a] = home[a]
  BY <1>1, <1>2
<1> QED
  BY <1>3 DEF Recovered

LEMMA InstallUnseen ==
  ASSUME SmallCalls, TypeOK, LogInv, DataInv, NEW p \in Proc, Install(p)
  PROVE  Unseen
<1>1. /\ UNCHANGED <<lh, head, dlog, boot>> /\ boot = "up" /\ InstallBlock
      /\ pc[p] = "install" /\ tail < Len(lh)
  BY DEF Install, Running, sysVars, LogInv, LoopInv
<1>2. head = lh
  BY <1>1 DEF DataInv, HeaderInv, Installing
<1>3. Recovered' = Recovered
  BY <1>1, <1>2, InstalledRecovered
<1>4. /\ tail + 1 \in DOMAIN lh
      /\ \A a \in Block : a = lh[tail + 1] => bread(a)' = dlog[tail + 1]
      /\ \A a \in Block \ {lh[tail + 1]} : bread(a)' = bread(a)
  BY <1>1, InstallBlockData DEF DataInv
<1>5. dlog[tail + 1] = bread(lh[tail + 1])
  BY <1>1, <1>4 DEF DataInv, CopyInv
<1>6. ASSUME NEW a \in Block
      PROVE  bread(a)' = bread(a)
  <2>1. CASE a = lh[tail + 1]
    BY <1>4, <1>5, <2>1
  <2>2. CASE a # lh[tail + 1]
    BY <1>4, <2>2
  <2> QED
    BY <2>1, <2>2
<1>7. \A q \in Proc : InOp(q)' <=> InOp(q)
  BY DEF Install, InOp, TypeOK
<1> QED
  BY <1>1, <1>3, <1>6, <1>7, SameView DEF Unseen, Ops

\* Once every logged block is at home, the header can go.
LEMMA ErasedRecovered ==
  ASSUME TypeOK, DataInv, head = lh, head' = <<>>, home' = home,
         \A i \in DOMAIN lh : home[lh[i]] = dlog[i]
  PROVE  Recovered' = Recovered /\ \A b \in Block : Recovered[b] = home[b]
<1>1. ASSUME NEW b \in Block
      PROVE  Recovered[b] = home[b]
  <2>1. /\ b \notin Range(head) => Recovered[b] = home[b]
        /\ \A i \in DOMAIN head : head[i] = b => Recovered[b] = dlog[i]
    BY RecoveredIs DEF DataInv, HeaderInv
  <2>2. b \in Range(head) => \E i \in DOMAIN head : head[i] = b
    BY DEF Range
  <2> QED
    BY <2>1, <2>2
<1>2. Range(head') = {}
  BY DEF Range
<1>3. \A b \in Block : Recovered'[b] = home[b]
  BY <1>2 DEF Recovered
<1> HIDE DEF Recovered
<1> QED
  BY <1>1, <1>3, SameRecovered

LEMMA EraseUnseen ==
  ASSUME SmallCalls, TypeOK, LogInv, DataInv, NEW p \in Proc, Erase(p)
  PROVE  Unseen
<1>1. /\ UNCHANGED <<cache, dlog, home, boot>> /\ boot = "up" /\ head' = <<>>
      /\ pc[p] = "erase"
  BY DEF Erase, Running, memVars, sysVars
<1>2. head = lh
  BY <1>1 DEF DataInv, HeaderInv, Installing
<1>3. \A i \in DOMAIN lh : home[lh[i]] = dlog[i]
  <2>1. tail = Len(lh) /\ \A i \in 1..tail : home[lh[i]] = dlog[i]
    BY <1>1 DEF DataInv, CopyInv
  <2> QED
    BY <2>1, HeaderTypes
<1>4. Recovered' = Recovered
  BY <1>1, <1>2, <1>3, ErasedRecovered
<1>5. \A b \in Block : bread(b)' = bread(b)
  BY <1>1 DEF bread
<1>6. \A q \in Proc : InOp(q)' <=> InOp(q)
  BY DEF Erase, InOp, TypeOK
<1> QED
  BY <1>1, <1>4, <1>5, <1>6, SameView DEF Unseen, Ops

\* A buffer is filled from its home block, or given away when it is clean.
LEMMA CacheUnseen ==
  ASSUME SmallCalls, TypeOK, LogInv, DataInv, NEW b \in Block,
         Read(b) \/ (Recycle(b) /\ b \notin reinstalled)
  PROVE  Unseen
<1>1. UNCHANGED <<pc, head, dlog, home, boot>> /\ boot = "up"
  BY DEF Read, Recycle, procVars, diskVars, sysVars
<1>2. \A a \in Block : bread(a)' = bread(a)
  BY CacheData
<1>3. Ops' = Ops
  BY <1>1 DEF Ops, InOp
<1> QED
  BY <1>1, <1>2, <1>3, SameDisk, SameView DEF Unseen

\* Recovery moves blocks about the disk and changes nothing it stands for.
LEMMA RecoverUnseen ==
  ASSUME SmallCalls, TypeOK, LogInv, DataInv, Recover
  PROVE  Unseen
<1>1. boot # "up" /\ pc' = pc
  BY DEF Recover, ReadHead, RecoverBlock, ClearLog, procVars
<1>2. Ops' = Ops
  BY <1>1 DEF Ops, InOp
<1>3. View = Recovered
  BY <1>1 DEF View
<1>4. CASE ReadHead
  <2>1. boot' # "up" /\ UNCHANGED <<head, dlog, home>>
    BY <1>4 DEF ReadHead, diskVars
  <2>2. View' = Recovered'
    BY <2>1 DEF View
  <2> QED
    BY <1>2, <1>3, <2>1, <2>2, SameDisk DEF Unseen
<1>5. CASE RecoverBlock
  <2>1. /\ boot = "install" /\ boot' # "up" /\ InstallBlock /\ UNCHANGED <<lh, head, dlog>>
        /\ tail < Len(lh)
    BY <1>5 DEF RecoverBlock, LogInv, LoopInv
  <2>2. head = lh
    BY <2>1 DEF DataInv, HeaderInv
  <2>3. Recovered' = Recovered
    BY <2>1, <2>2, InstalledRecovered
  <2>4. View' = Recovered'
    BY <2>1 DEF View
  <2> QED
    BY <1>2, <1>3, <2>3, <2>4 DEF Unseen
<1>6. CASE ClearLog
  <2>1. /\ boot = "clear" /\ boot' = "up" /\ head' = <<>>
        /\ UNCHANGED <<cache, dlog, home>>
    BY <1>6 DEF ClearLog, memVars
  <2>2. head = lh /\ \A i \in DOMAIN lh : home[lh[i]] = dlog[i]
    BY <2>1 DEF DataInv, HeaderInv, CopyInv
  <2>3. Recovered' = Recovered /\ \A b \in Block : Recovered[b] = home[b]
    BY <2>1, <2>2, ErasedRecovered
  <2>4. \A b \in Block : bread(b)' = home[b]
    BY <2>1 DEF DataInv, CleanInv, bread
  <2>5. View' = [b \in Block |-> bread(b)'] /\ Recovered = [b \in Block |-> Recovered[b]]
    BY <2>1 DEF View, Recovered
  <2>6. View' = Recovered
    BY <2>3, <2>4, <2>5
  <2> QED
    BY <1>2, <1>3, <2>3, <2>6 DEF Unseen
<1> QED
  BY <1>4, <1>5, <1>6 DEF Recover

LEMMA CrashIsCrash ==
  ASSUME Crash
  PROVE  AD!Crash
<1>1. boot' = "read_head" /\ UNCHANGED <<head, dlog, home>> /\ \A q \in Proc : pc'[q] = "idle"
  BY DEF Crash, diskVars
<1>2. Recovered' = Recovered
  BY <1>1, SameDisk
<1>3. View' = Recovered'
  BY <1>1 DEF View
<1>4. Ops' = {}
  BY <1>1 DEF Ops, InOp
<1> QED
  BY <1>2, <1>3, <1>4 DEF AD!Crash, Ops

LEMMA AtomicStep ==
  ASSUME SmallCalls, TypeOK, LogInv, DataInv, [RoomyNext]_vars
  PROVE  [AD!Next]_(AD!vars)
<1>1. ASSUME NEW p \in Proc, CallStep(p)
      PROVE  AD!Next \/ Unseen
  <2>1. CASE BeginWait(p) \/ LogWriteTests(p) \/ LogWrite(p) \/ EndCommit(p)
    BY <2>1, QuietUnseen
  <2>2. CASE BeginOp(p)
    BY <2>2, BeginIsBegin DEF AD!Next
  <2>3. CASE EndOp(p)
    BY <2>3, EndIsEnd DEF AD!Next
  <2>4. ASSUME NEW b \in Block, NEW v \in Val, Modify(p, b, v)
        PROVE  AD!Next
    BY <2>4, ModifyIsWrite DEF AD!Next
  <2>5. CASE WriteLog(p)
    BY <2>5, WriteLogUnseen
  <2>6. CASE WriteHead(p)
    BY <2>6, WriteHeadIsCommit DEF AD!Next
  <2>7. CASE Install(p)
    BY <2>7, InstallUnseen
  <2>8. CASE Erase(p)
    BY <2>8, EraseUnseen
  <2> QED
    BY SMTT(40), <1>1, <2>1, <2>2, <2>3, <2>4, <2>5, <2>6, <2>7, <2>8 DEF CallStep, Commit
<1>2. ASSUME NEW b \in Block, Read(b) \/ (Recycle(b) /\ b \notin reinstalled)
      PROVE  Unseen
  BY <1>2, CacheUnseen
<1>3. CASE Recover
  BY <1>3, RecoverUnseen, UnseenStep
<1>4. CASE Crash
  BY <1>4, CrashIsCrash DEF AD!Next
<1>5. CASE UNCHANGED vars
  <2>1. UNCHANGED <<pc, cache, head, dlog, home, boot>>
    BY <1>5 DEF vars, procVars, memVars, diskVars, sysVars
  <2>2. Recovered' = Recovered /\ Ops' = Ops
    BY <2>1, SameDisk DEF Ops, InOp
  <2>3. View' = View
    BY <2>1, <2>2 DEF View, bread
  <2> QED
    BY <2>2, <2>3, UnseenStep DEF Unseen
<1> QED
  BY <1>1, <1>2, <1>3, <1>4, <1>5, UnseenStep DEF RoomyNext, Core

LEMMA AtomicInit == Init => AD!Init
<1> SUFFICES ASSUME Init
             PROVE  AD!Init
  OBVIOUS
<1>1. /\ boot = "read_head" /\ head = <<>> /\ home = [b \in Block |-> Zero]
      /\ \A q \in Proc : pc[q] = "idle"
  BY DEF Init
<1>2. Range(head) = {}
  BY <1>1 DEF Range
<1>3. Recovered \in [Block -> Val]
  BY <1>1, <1>2, LogConstants DEF Recovered
<1>4. View = Recovered
  BY <1>1 DEF View
<1>5. Ops = {}
  BY <1>1 DEF Ops, InOp
<1> QED
  BY <1>3, <1>4, <1>5 DEF AD!Init, Ops

\* The log makes file-system calls atomic across crashes: every behaviour of
\* begin_op, log_write, end_op, commit, crash and recovery is one of
\* AtomicDisk, with write_head as the moment of commit.
THEOREM LogIsAtomic ==
  ASSUME SmallCalls
  PROVE  RoomySpec => CallsAreAtomic
<1>1. Init => AD!Init
  BY AtomicInit
<1>2. TypeOK /\ LogInv /\ DataInv /\ [RoomyNext]_vars => [AD!Next]_(AD!vars)
  BY AtomicStep
<1> QED
  BY <1>1, <1>2, LogDataInvariant, PTL DEF RoomySpec, CallsAreAtomic, AD!Spec
=============================================================================
