---------------------------- MODULE LogDataProof ----------------------------
(***************************************************************************)
(* Where the contents of each block are at every moment, for every number  *)
(* of processes, blocks and crashes: DataInv of Log is inductive, and      *)
(* LoggedStaysCached and QuietMeansDurable follow from it.                 *)
(***************************************************************************)
EXTENDS LogProof

\* The places where a process has a buffer locked or runs a loop over the log.
Busy == {"log_write", "logging", "write_log", "write_head", "install", "erase"}

-----------------------------------------------------------------------------
(* Sequences, counts and buffers.                                          *)

LEMMA HeaderTypes ==
  ASSUME TypeOK
  PROVE  /\ Len(lh) \in Nat /\ DOMAIN lh = 1..Len(lh) /\ tail \in Nat
         /\ Len(head) \in Nat /\ DOMAIN head = 1..Len(head)
         /\ \A i \in DOMAIN lh : lh[i] \in Block
         /\ \A i \in DOMAIN head : head[i] \in Block
         /\ Range(lh) \subseteq Block
<1>1. lh \in Seq(Block) /\ head \in Seq(Block) /\ tail \in 0..LOGSIZE
  BY DEF TypeOK
<1>2. \A i \in DOMAIN lh : lh[i] \in Block
  BY <1>1
<1> QED
  BY <1>1, <1>2, ConstantTypes DEF Range

\* The counts that pins and locks make do not wrap.
LEMMA SmallCounts ==
  /\ bget(0) = 1 /\ bget(1) = 2
  /\ bpin(1) = 2
  /\ brelse(2) = 1
  /\ brelse(bunpin(bget(1))) = 0
<1>1. \A n \in 0..2 : n % (UintMax + 1) = n
  BY ConstantTypes
<1>2. /\ Wrap(0) = 0 /\ Wrap(1) = 1 /\ Wrap(2) = 2
  BY <1>1 DEF Wrap
<1> QED
  BY <1>2 DEF bget, bpin, brelse, bunpin

\* A step that touches neither the data nor the places that DataInv looks at.
LEMMA Frame ==
  ASSUME DataInv,
         UNCHANGED <<bp, lh, tail, cache, refcnt, head, dlog, home, boot, reinstalled>>,
         \A q \in Proc : \/ pc'[q] = pc[q]
                         \/ pc[q] \notin Busy /\ pc'[q] \notin Busy
                         \/ pc[q] = "log_write" /\ pc'[q] = "logging"
  PROVE  DataInv'
<1>1. Installing' = Installing
  BY DEF Installing, Busy
<1>2. Pinned' = Pinned
  BY <1>1 DEF Pinned
<1>3. Held' = Held
  BY DEF Held
<1>4. \A b : bread(b)' = bread(b)
  BY DEF bread
<1>5. HeaderInv'
  BY <1>1 DEF DataInv, HeaderInv
<1>6. LockInv'
  BY DEF DataInv, LockInv, Busy
<1>7. CopyInv'
  BY DEF DataInv, CopyInv, Busy, bread
<1>8. CleanInv'
  BY <1>3, <1>4 DEF DataInv, CleanInv
<1>9. PinInv'
  BY <1>2, <1>3 DEF DataInv, PinInv
<1> QED
  BY <1>5, <1>6, <1>7, <1>8, <1>9 DEF DataInv

-----------------------------------------------------------------------------
(* begin_op, log_write and end_op.                                         *)

\* begin_op, the tests of log_write and the end of end_op touch no data.
LEMMA QuietData ==
  ASSUME TypeOK, DataInv, NEW p \in Proc,
         BeginWait(p) \/ BeginOp(p) \/ LogWriteTests(p) \/ EndCommit(p)
  PROVE  DataInv'
<1>1. UNCHANGED <<bp, lh, tail, cache, refcnt, head, dlog, home, boot, reinstalled>>
  BY DEF BeginWait, BeginOp, LogWriteTests, EndCommit, logVars, memVars, diskVars, sysVars
<1>2. \A q \in Proc : \/ pc'[q] = pc[q]
                      \/ pc[q] \notin Busy /\ pc'[q] \notin Busy
                      \/ pc[q] = "log_write" /\ pc'[q] = "logging"
  BY Zenon DEF BeginWait, BeginOp, LogWriteTests, EndCommit, Wakeup, Busy, TypeOK
<1> QED
  BY <1>1, <1>2, Frame

\* end_op starts a commit with the counter of write_log at zero.
LEMMA EndOpData ==
  ASSUME TypeOK, LogInv, DataInv, NEW p \in Proc, EndOp(p)
  PROVE  DataInv'
<1>1. UNCHANGED <<bp, lh, tail, cache, refcnt, head, dlog, home, boot, reinstalled>>
  BY DEF EndOp, memVars, diskVars
<1>2. pc[p] = "op" /\ boot = "up"
  BY DEF EndOp, Running
<1>3. ~committing /\ \A q \in Proc : ~InCommit(q)
  BY <1>2 DEF LogInv, WhoInv, Ops, InOp
<1>4. tail = 0
  BY <1>2, <1>3 DEF LogInv, LoopInv
<1>5. \A q \in Proc : pc'[q] \notin {"write_head", "install", "erase"}
  BY ZenonT(40), <1>3 DEF EndOp, Wakeup, InCommit, TypeOK
<1>6. \A q \in Proc : pc'[q] \in {"log_write", "logging"} <=> pc[q] \in {"log_write", "logging"}
  BY Zenon, <1>2 DEF EndOp, Wakeup, TypeOK
<1>7. ~Installing /\ ~Installing'
  BY <1>3, <1>5 DEF Installing, InCommit
<1>8. Pinned' = Pinned /\ Held' = Held
  BY <1>1, <1>7 DEF Pinned, Held
<1>9. HeaderInv'
  BY <1>1, <1>7 DEF DataInv, HeaderInv
<1>10. LockInv'
  BY <1>1, <1>6 DEF DataInv, LockInv
<1>11. CopyInv'
  BY <1>1, <1>2, <1>4, <1>5 DEF CopyInv
<1>12. CleanInv'
  BY <1>1, <1>8 DEF DataInv, CleanInv, bread
<1>13. PinInv'
  BY <1>1, <1>8 DEF DataInv, PinInv
<1> QED
  BY <1>9, <1>10, <1>11, <1>12, <1>13 DEF DataInv

\* While a call is open nobody commits, and the header on disk is empty.
LEMMA OpenCall ==
  ASSUME LogInv, DataInv, NEW p \in Proc, InOp(p)
  PROVE  /\ boot = "up" /\ ~committing /\ tail = 0 /\ ~Installing /\ head = <<>>
         /\ \A q \in Proc : ~InCommit(q)
<1>1. boot = "up"
  BY DEF LogInv, WhoInv, InOp
<1>2. ~committing /\ \A q \in Proc : ~InCommit(q)
  BY DEF LogInv, WhoInv, Ops
<1>3. ~Installing
  BY <1>2 DEF Installing, InCommit
<1> QED
  BY <1>1, <1>2, <1>3 DEF LogInv, LoopInv, DataInv, HeaderInv

\* A caller locks the buffer of a block and changes it.
LEMMA ModifyData ==
  ASSUME TypeOK, LogInv, DataInv, NEW p \in Proc, NEW b \in Block, NEW v \in Val,
         Modify(p, b, v)
  PROVE  DataInv'
<1>1. /\ UNCHANGED <<lh, tail, head, dlog, home, boot, reinstalled>>
      /\ pc[p] = "op" /\ pc' = [pc EXCEPT ![p] = "log_write"]
      /\ bp' = [bp EXCEPT ![p] = b] /\ cache' = [cache EXCEPT ![b] = v]
      /\ refcnt' = [refcnt EXCEPT ![b] = bget(@)]
      /\ \A q \in Proc : bp[q] # b
  BY DEF Modify, logVars, diskVars, sysVars
<1>2. /\ boot = "up" /\ ~Installing
      /\ \A q \in Proc : ~InCommit(q)
  BY <1>1, OpenCall DEF InOp
<1>3. ~Installing' /\ \A q \in Proc : ~InCommit(q)'
  BY <1>1, <1>2 DEF Installing, InCommit, TypeOK
<1>4. bp[p] = NoBlock /\ NoBlock \notin Block
  BY <1>1, LogConstants DEF DataInv, LockInv
<1>5. Pinned' = Pinned /\ Held' = Held \cup {b} /\ b \notin Held
  BY <1>1, <1>2, <1>3, <1>4 DEF Pinned, Held, TypeOK
<1>6. HeaderInv'
  BY <1>1, <1>2, <1>3 DEF DataInv, HeaderInv
<1>7. LockInv'
  <2>1. \A q \in Proc : bp'[q] = (IF q = p THEN b ELSE bp[q])
                        /\ pc'[q] = (IF q = p THEN "log_write" ELSE pc[q])
    BY <1>1 DEF TypeOK
  <2> QED
    BY <1>1, <1>4, <2>1 DEF DataInv, LockInv
<1>8. CopyInv'
  BY <1>1, <1>2, <1>3 DEF CopyInv, InCommit
<1>9. CleanInv'
  BY <1>1, <1>2, <1>5 DEF DataInv, CleanInv, bread, TypeOK
<1>10. PinInv'
  <2>1. v # NotCached
    BY LogConstants
  <2> SUFFICES ASSUME NEW a \in Block
               PROVE  /\ a \in Pinned \cup Held \cup {b} => cache'[a] # NotCached
                      /\ IF a \in reinstalled THEN cache'[a] # NotCached
                         ELSE refcnt'[a] = (IF a \in Pinned THEN 1 ELSE 0)
                                           + (IF a \in Held \cup {b} THEN 1 ELSE 0)
    BY <1>1, <1>5 DEF PinInv
  <2>2. CASE a = b
    BY SMTT(40), <1>1, <1>5, <2>1, <2>2, SmallCounts DEF DataInv, PinInv, TypeOK
  <2>3. CASE a # b
    BY <1>1, <1>5, <2>3 DEF DataInv, PinInv, TypeOK
  <2> QED
    BY <2>2, <2>3
<1> QED
  BY <1>6, <1>7, <1>8, <1>9, <1>10 DEF DataInv

\* Before install_trans all blocks of the header are pinned.
LEMMA AllPinned ==
  ASSUME boot = "up", ~Installing
  PROVE  Pinned = Range(lh)
BY DEF Pinned, Range

LEMMA AppendInjective ==
  ASSUME NEW s \in Seq(Block), NEW b \in Block, IsInjective(s), b \notin Range(s)
  PROVE  IsInjective(Append(s, b))
<1> DEFINE t == Append(s, b)
<1>1. DOMAIN s = 1..Len(s) /\ DOMAIN t = 1..(Len(s) + 1) /\ Len(s) \in Nat
  OBVIOUS
<1>2. \A i \in 1..Len(s) : t[i] = s[i]
  OBVIOUS
<1>3. t[Len(s) + 1] = b
  OBVIOUS
<1>4. \A i \in 1..(Len(s) + 1) : i \in 1..Len(s) \/ i = Len(s) + 1
  BY <1>1
<1> HIDE DEF t
<1>5. \A i \in 1..Len(s) : s[i] # b
  BY <1>1 DEF Range
<1>6. IsInjective(t)
  BY <1>1, <1>2, <1>3, <1>4, <1>5 DEF IsInjective
<1> QED
  BY <1>6 DEF t

\* log_write pins a block that is new to the header and releases the buffer.
LEMMA LogWriteData ==
  ASSUME TypeOK, LogInv, DataInv, NEW p \in Proc, LogWrite(p)
  PROVE  DataInv'
<1> DEFINE b == bp[p]
<1>1. /\ UNCHANGED <<tail, cache, head, dlog, home, boot, reinstalled>>
      /\ pc[p] = "logging" /\ pc' = [pc EXCEPT ![p] = "op"]
      /\ bp' = [bp EXCEPT ![p] = NoBlock]
  BY DEF LogWrite, diskVars, sysVars
<1>2. /\ boot = "up" /\ ~Installing
      /\ \A q \in Proc : ~InCommit(q)
  BY <1>1, OpenCall DEF InOp
<1>3. ~Installing' /\ \A q \in Proc : ~InCommit(q)'
  BY <1>1, <1>2 DEF Installing, InCommit, TypeOK
<1>4. b \in Block /\ b # NoBlock /\ NoBlock \notin Block
  BY <1>1, LogConstants DEF DataInv, LockInv, TypeOK
<1>5. Held' = Held \ {b} /\ b \in Held
  <2>1. \A q \in Proc : bp'[q] = IF q = p THEN NoBlock ELSE bp[q]
    BY <1>1 DEF TypeOK
  <2>2. \A q \in Proc : bp[q] = b => q = p
    BY <1>4 DEF DataInv, LockInv
  <2> QED
    BY <1>4, <2>1, <2>2 DEF Held
<1>6. Range(lh') = Range(lh) \cup {b} /\ IsInjective(lh')
  <2>1. CASE b \in Range(lh)
    BY <2>1 DEF LogWrite, DataInv, HeaderInv
  <2>2. CASE b \notin Range(lh)
    <3>1. lh' = Append(lh, b)
      BY <2>2 DEF LogWrite
    <3>2. lh \in Seq(Block) /\ IsInjective(lh)
      BY DEF TypeOK, DataInv, HeaderInv
    <3> QED
      BY <1>4, <2>2, <3>1, <3>2, AppendRange, AppendInjective
  <2> QED
    BY <2>1, <2>2
<1>7. Pinned = Range(lh) /\ Pinned' = Range(lh')
  BY <1>1, <1>2, <1>3, AllPinned DEF Pinned, Range
<1>8. HeaderInv'
  BY <1>1, <1>2, <1>3, <1>6 DEF DataInv, HeaderInv
<1>9. LockInv'
  <2>1. \A q \in Proc : bp'[q] = (IF q = p THEN NoBlock ELSE bp[q])
                        /\ pc'[q] = (IF q = p THEN "op" ELSE pc[q])
    BY <1>1 DEF TypeOK
  <2> QED
    BY <2>1 DEF DataInv, LockInv
<1>10. CopyInv'
  BY <1>1, <1>2, <1>3 DEF CopyInv, InCommit
<1>11. CleanInv'
  BY <1>1, <1>5, <1>6 DEF DataInv, CleanInv, bread
<1>12. PinInv'
  <2>1. /\ refcnt' \in [Block -> 0..UintMax]
        /\ \A a \in Block \ {b} : refcnt'[a] = refcnt[a]
        /\ b \in Range(lh) => refcnt'[b] = brelse(refcnt[b])
        /\ b \notin Range(lh) => refcnt'[b] = brelse(bpin(refcnt[b]))
    <3>1. refcnt' = [refcnt EXCEPT ![b] = IF b \in Range(lh) THEN brelse(@) ELSE brelse(bpin(@))]
      BY DEF LogWrite
    <3>2. refcnt \in [Block -> 0..UintMax]
      BY DEF TypeOK
    <3> HIDE DEF b
    <3> QED
      BY <1>4, <3>1, <3>2, RefcntRange
  <2> SUFFICES ASSUME NEW a \in Block
               PROVE  /\ a \in Range(lh) \cup {b} \cup (Held \ {b}) => cache[a] # NotCached
                      /\ IF a \in reinstalled THEN cache[a] # NotCached
                         ELSE refcnt'[a] = (IF a \in Range(lh) \cup {b} THEN 1 ELSE 0)
                                           + (IF a \in Held \ {b} THEN 1 ELSE 0)
    BY <1>1, <1>5, <1>6, <1>7 DEF PinInv
  <2>2. CASE a = b
    <3>1. cache[b] # NotCached
      BY <1>4, <1>5 DEF DataInv, PinInv
    <3>2. b \notin reinstalled => refcnt[b] = IF b \in Range(lh) THEN 2 ELSE 1
      BY <1>4, <1>5, <1>7 DEF DataInv, PinInv
    <3>3. b \notin reinstalled => refcnt'[b] = 1
      BY <2>1, <3>2, SmallCounts
    <3> QED
      BY <2>2, <3>1, <3>3
  <2>3. CASE a # b
    BY <1>7, <2>1, <2>3 DEF DataInv, PinInv
  <2> QED
    BY <2>2, <2>3
<1> QED
  BY <1>8, <1>9, <1>10, <1>11, <1>12 DEF DataInv

-----------------------------------------------------------------------------
(* commit.                                                                 *)

\* While one process commits, no buffer is locked and nobody else commits.
LEMMA CommitterHolds ==
  ASSUME SmallCalls, TypeOK, LogInv, DataInv, NEW p \in Proc, InCommit(p)
  PROVE  /\ boot = "up" /\ Held = {}
         /\ \A q \in Proc : bp[q] = NoBlock /\ ~InOp(q)
         /\ \A q \in Proc \ {p} : ~InCommit(q)
         /\ Len(lh) \in Nat /\ Len(lh) <= LOGSIZE /\ tail \in Nat /\ DOMAIN lh = 1..Len(lh)
<1>1. /\ boot = "up" /\ \A q \in Proc : ~InOp(q)
      /\ \A q \in Proc \ {p} : ~InCommit(q)
  BY CommitterAlone DEF LogInv
<1>2. \A q \in Proc : bp[q] = NoBlock
  BY <1>1 DEF InOp, DataInv, LockInv
<1>3. Held = {}
  BY <1>2, LogConstants DEF Held
<1>4. Len(lh) \in Nat /\ Len(lh) <= LOGSIZE /\ tail \in Nat /\ DOMAIN lh = 1..Len(lh)
  BY HeaderFits, HeaderTypes DEF LogInv
<1> QED
  BY <1>1, <1>2, <1>3, <1>4

\* A step of the process that commits moves it and nobody else.
LEMMA CommitterMoves ==
  ASSUME SmallCalls, TypeOK, LogInv, DataInv, NEW p \in Proc, InCommit(p), NEW l,
         pc' = [pc EXCEPT ![p] = l], l \notin {"log_write", "logging"},
         UNCHANGED <<bp, boot>>
  PROVE  /\ LockInv' /\ Held' = {} /\ pc'[p] = l
         /\ \A q \in Proc \ {p} : pc'[q] = pc[q] /\ pc[q] \notin Busy
         /\ Installing' <=> l \in {"install", "erase"}
         /\ Installing <=> pc[p] \in {"install", "erase"}
<1>1. /\ Held = {} /\ \A q \in Proc : bp[q] = NoBlock /\ ~InOp(q)
      /\ \A q \in Proc \ {p} : ~InCommit(q)
  BY CommitterHolds
<1>2. pc'[p] = l /\ \A q \in Proc \ {p} : pc'[q] = pc[q] /\ pc[q] \notin Busy
  BY <1>1 DEF TypeOK, InCommit, InOp, Busy
<1>3. LockInv'
  BY <1>1, <1>2 DEF LockInv, Busy
<1>4. Held' = {}
  BY <1>1 DEF Held
<1> QED
  BY <1>2, <1>3, <1>4 DEF Installing, Busy

\* write_log copies a pinned, hence cached, block to its log block.
LEMMA WriteLogCopies ==
  ASSUME SmallCalls, TypeOK, LogInv, DataInv, NEW p \in Proc, WriteLog(p)
  PROVE  /\ tail < Len(lh) /\ cache' = cache
         /\ dlog' = [dlog EXCEPT ![tail + 1] = bread(lh[tail + 1])]
<1>1. pc[p] = "write_log" /\ InCommit(p) /\ tail < Len(lh)
  BY DEF WriteLog, LogInv, LoopInv, InCommit
<1>2. /\ boot = "up" /\ \A q \in Proc \ {p} : ~InCommit(q)
      /\ Len(lh) \in Nat /\ tail \in Nat /\ DOMAIN lh = 1..Len(lh)
  BY <1>1, CommitterHolds
<1>3. ~Installing
  BY <1>1, <1>2 DEF Installing, InCommit
<1>4. tail + 1 \in DOMAIN lh
  BY <1>1, <1>2
<1>5. lh[tail + 1] \in Pinned /\ lh[tail + 1] \in Block
  BY <1>2, <1>3, <1>4, HeaderTypes DEF Pinned
<1>6. cache[lh[tail + 1]] # NotCached
  BY <1>5 DEF DataInv, PinInv
<1>7. cache' = [cache EXCEPT ![lh[tail + 1]] = cache[lh[tail + 1]]]
  BY <1>6 DEF WriteLog, bread
<1>8. cache' = cache
  BY <1>5, <1>7 DEF TypeOK
<1> QED
  BY <1>1, <1>8 DEF WriteLog

LEMMA WriteLogData ==
  ASSUME SmallCalls, TypeOK, LogInv, DataInv, NEW p \in Proc, WriteLog(p)
  PROVE  DataInv'
<1>1. /\ pc[p] = "write_log" /\ InCommit(p)
      /\ UNCHANGED <<bp, lh, refcnt, head, home, boot, reinstalled>>
      /\ IF tail + 1 < Len(lh) THEN tail' = tail + 1 /\ pc' = pc
         ELSE tail' = 0 /\ pc' = [pc EXCEPT ![p] = "write_head"]
  BY DEF WriteLog, InCommit, sysVars
<1>2. /\ boot = "up" /\ Held = {}
      /\ Len(lh) \in Nat /\ Len(lh) <= LOGSIZE /\ tail \in Nat /\ DOMAIN lh = 1..Len(lh)
  BY <1>1, CommitterHolds
<1>3. /\ tail < Len(lh) /\ cache' = cache
      /\ dlog' = [dlog EXCEPT ![tail + 1] = bread(lh[tail + 1])]
  BY WriteLogCopies
<1>4. pc' = [pc EXCEPT ![p] = IF tail + 1 < Len(lh) THEN "write_log" ELSE "write_head"]
  BY <1>1 DEF TypeOK
<1>5. /\ LockInv' /\ Held' = {} /\ ~Installing' /\ ~Installing
      /\ pc'[p] = IF tail + 1 < Len(lh) THEN "write_log" ELSE "write_head"
      /\ \A q \in Proc \ {p} : pc'[q] = pc[q] /\ pc[q] \notin Busy
  <2>1. CASE tail + 1 < Len(lh)
    <3>1. pc' = [pc EXCEPT ![p] = "write_log"]
      BY <1>4, <2>1
    <3> QED
      BY Zenon, <1>1, <2>1, <3>1, CommitterMoves
  <2>2. CASE ~(tail + 1 < Len(lh))
    <3>1. pc' = [pc EXCEPT ![p] = "write_head"]
      BY <1>4, <2>2
    <3>2. /\ LockInv' /\ Held' = {} /\ ~Installing' /\ ~Installing /\ pc'[p] = "write_head"
          /\ \A q \in Proc \ {p} : pc'[q] = pc[q] /\ pc[q] \notin Busy
      <4>1. "write_head" \notin {"log_write", "logging"} /\ "write_head" \notin {"install", "erase"}
        OBVIOUS
      <4>2. UNCHANGED <<bp, boot>> /\ InCommit(p) /\ pc[p] \notin {"install", "erase"}
        BY <1>1
      <4> QED
        BY Zenon, <3>1, <4>1, <4>2, CommitterMoves
    <3> QED
      BY <2>2, <3>2
  <2> QED
    BY <2>1, <2>2
<1>6. Pinned' = Pinned
  BY <1>1, <1>5 DEF Pinned
<1>7. HeaderInv'
  BY <1>1, <1>5 DEF DataInv, HeaderInv
<1>8. CopyInv'
  <2>1. \A b : bread(b)' = bread(b)
    BY <1>1, <1>3 DEF bread
  <2>2. \A i \in 1..tail : dlog[i] = bread(lh[i])
    BY <1>1 DEF DataInv, CopyInv
  <2>3. /\ \A i \in 1..tail : i \in 1..LOGSIZE /\ i # tail + 1
        /\ tail + 1 \in 1..LOGSIZE
    BY <1>2, <1>3, ConstantTypes
  <2>4. \A i \in 1..tail + 1 : dlog'[i] = bread(lh[i])
    <3> SUFFICES ASSUME NEW i \in 1..tail + 1
                 PROVE  dlog'[i] = bread(lh[i])
      OBVIOUS
    <3>1. i \in 1..tail \/ i = tail + 1
      BY <1>2
    <3>2. dlog \in [1..LOGSIZE -> Val]
      BY DEF TypeOK
    <3> QED
      BY <1>3, <2>2, <2>3, <3>1, <3>2
  <2>5. tail + 1 < Len(lh) \/ \A i \in 1..Len(lh) : i \in 1..tail + 1
    BY <1>2, <1>3
  <2>6. pc'[p] = "write_log" => \A i \in 1..tail' : dlog'[i] = bread(lh[i])
    BY <1>1, <1>5, <2>4
  <2>7. pc'[p] = "write_head" => \A i \in DOMAIN lh : dlog'[i] = bread(lh[i])
    BY <1>2, <1>5, <2>4, <2>5
  <2>8. pc'[p] \notin {"install", "erase"}
    BY <1>5
  <2> QED
    BY SMTT(40), <1>1, <1>2, <1>3, <1>5, <2>6, <2>7, <2>8 DEF CopyInv, bread, Busy
<1>9. CleanInv'
  BY <1>1, <1>2, <1>3, <1>5 DEF DataInv, CleanInv, bread
<1>10. PinInv'
  BY <1>1, <1>2, <1>3, <1>5, <1>6 DEF DataInv, PinInv
<1> QED
  BY <1>5, <1>7, <1>8, <1>9, <1>10 DEF DataInv

\* write_head: from here on the header on disk is the one in memory.
LEMMA WriteHeadData ==
  ASSUME SmallCalls, TypeOK, LogInv, DataInv, NEW p \in Proc, WriteHead(p)
  PROVE  DataInv'
<1>1. /\ pc[p] = "write_head" /\ pc' = [pc EXCEPT ![p] = "install"] /\ head' = lh
      /\ InCommit(p)
      /\ UNCHANGED <<bp, lh, tail, cache, refcnt, dlog, home, boot, reinstalled>>
  BY DEF WriteHead, logVars, memVars, sysVars, InCommit
<1>2. tail = 0
  BY <1>1 DEF LogInv, LoopInv
<1>3. boot = "up" /\ Held = {} /\ Len(lh) \in Nat /\ DOMAIN lh = 1..Len(lh)
  BY <1>1, CommitterHolds
<1>4. /\ LockInv' /\ Held' = {} /\ pc'[p] = "install" /\ Installing' /\ ~Installing
      /\ \A q \in Proc \ {p} : pc'[q] = pc[q] /\ pc[q] \notin Busy
  <2>1. "install" \notin {"log_write", "logging"} /\ UNCHANGED <<bp, boot>>
    BY <1>1
  <2>2. pc[p] \notin {"install", "erase"}
    BY <1>1
  <2> QED
    BY Zenon, <1>1, <2>1, <2>2, CommitterMoves
<1>5. Pinned' = Pinned
  BY <1>1, <1>2, <1>3, <1>4 DEF Pinned
<1>6. HeaderInv'
  BY <1>1, <1>3, <1>4 DEF DataInv, HeaderInv
<1>7. CopyInv'
  <2>1. \A i \in DOMAIN lh : dlog[i] = bread(lh[i])
    BY <1>1 DEF DataInv, CopyInv
  <2> QED
    BY <1>1, <1>2, <1>3, <1>4, <2>1 DEF CopyInv, bread, Busy
<1>8. CleanInv'
  BY <1>1, <1>3, <1>4 DEF DataInv, CleanInv, bread
<1>9. PinInv'
  BY <1>1, <1>3, <1>4, <1>5 DEF DataInv, PinInv
<1> QED
  BY <1>4, <1>6, <1>7, <1>8, <1>9 DEF DataInv

\* One block of install_trans: its home, its buffer and its log block agree.
LEMMA InstallBlockData ==
  ASSUME SmallCalls, TypeOK, LogInv, HeaderInv, tail < Len(lh), InstallBlock, lh' = lh, dlog' = dlog
  PROVE  /\ tail + 1 \in DOMAIN lh /\ lh[tail + 1] \in Block
         /\ \A b \in Block : b = lh[tail + 1] => bread(b)' = dlog[tail + 1]
         /\ home'[lh[tail + 1]] = dlog[tail + 1] /\ cache'[lh[tail + 1]] # NotCached
         /\ refcnt'[lh[tail + 1]] = brelse(bunpin(bget(refcnt[lh[tail + 1]])))
         /\ \A b \in Block \ {lh[tail + 1]} :
              cache'[b] = cache[b] /\ home'[b] = home[b] /\ refcnt'[b] = refcnt[b]
              /\ bread(b)' = bread(b)
         /\ \A i \in DOMAIN lh : i # tail + 1 => lh[i] \in Block \ {lh[tail + 1]}
<1> DEFINE b == lh[tail + 1]
<1>1. /\ Len(lh) \in Nat /\ Len(lh) <= LOGSIZE /\ tail \in Nat /\ DOMAIN lh = 1..Len(lh)
      /\ \A i \in DOMAIN lh : lh[i] \in Block
  BY HeaderFits, HeaderTypes DEF LogInv
<1>2. tail + 1 \in DOMAIN lh /\ tail + 1 \in 1..LOGSIZE
  BY <1>1, ConstantTypes
<1>3. b \in Block /\ \A i \in DOMAIN lh : i # tail + 1 => lh[i] \in Block \ {b}
  BY <1>1, <1>2 DEF HeaderInv, IsInjective
<1>4. dlog[tail + 1] \in Val /\ dlog[tail + 1] # NotCached
  <2>1. dlog \in [1..LOGSIZE -> Val]
    BY DEF TypeOK
  <2>2. NotCached \notin Val
    BY LogConstants
  <2> QED
    BY <1>2, <2>1, <2>2
<1>5. /\ home' = [home EXCEPT ![b] = dlog[tail + 1]]
      /\ cache' = [cache EXCEPT ![b] = dlog[tail + 1]]
      /\ refcnt' = [refcnt EXCEPT ![b] = brelse(bunpin(bget(@)))]
  BY DEF InstallBlock
<1>6. home \in [Block -> Val] /\ cache \in [Block -> Val \cup {NotCached}]
      /\ refcnt \in [Block -> 0..UintMax]
  BY DEF TypeOK
<1> HIDE DEF b
<1>7. /\ home'[b] = dlog[tail + 1] /\ cache'[b] = dlog[tail + 1]
      /\ refcnt'[b] = brelse(bunpin(bget(refcnt[b])))
      /\ \A a \in Block \ {b} : cache'[a] = cache[a] /\ home'[a] = home[a] /\ refcnt'[a] = refcnt[a]
  BY <1>3, <1>5, <1>6
<1>8. \A a \in Block \ {b} : bread(a)' = bread(a)
  BY <1>7 DEF bread
<1>9. \A a \in Block : a = b => bread(a)' = dlog[tail + 1]
  BY <1>4, <1>7 DEF bread
<1> QED
  BY <1>2, <1>3, <1>4, <1>7, <1>8, <1>9 DEF b

\* What install_trans has not come to, before and after a block.
LEMMA InstallUnpins ==
  ASSUME TypeOK, IsInjective(lh), boot = "up", boot' = boot, Installing, Installing',
         lh' = lh, tail' = tail + 1, tail + 1 \in DOMAIN lh
  PROVE  lh[tail + 1] \in Pinned /\ Pinned' = Pinned \ {lh[tail + 1]}
<1>1. tail \in Nat /\ DOMAIN lh = 1..Len(lh) /\ Len(lh) \in Nat
  BY HeaderTypes
<1>2. Pinned = {lh[i] : i \in {j \in DOMAIN lh : j > tail}}
  BY DEF Pinned
<1>3. Pinned' = {lh[i] : i \in {j \in DOMAIN lh : j > tail + 1}}
  BY DEF Pinned
<1>4. \A j \in DOMAIN lh : j > tail <=> j > tail + 1 \/ j = tail + 1
  BY <1>1
<1>5. \A j \in DOMAIN lh : j > tail + 1 => lh[j] # lh[tail + 1]
  BY <1>1 DEF IsInjective
<1> QED
  BY <1>2, <1>3, <1>4, <1>5

LEMMA InstallData ==
  ASSUME SmallCalls, TypeOK, LogInv, DataInv, NEW p \in Proc, Install(p)
  PROVE  DataInv'
<1> DEFINE b == lh[tail + 1]
<1>1. /\ pc[p] = "install" /\ InCommit(p) /\ InstallBlock /\ tail < Len(lh) /\ tail' = tail + 1
      /\ pc' = IF tail + 1 < Len(lh) THEN pc ELSE [pc EXCEPT ![p] = "erase"]
      /\ UNCHANGED <<bp, lh, head, dlog, boot, reinstalled>>
  BY DEF Install, sysVars, InCommit, LogInv, LoopInv
<1>2. /\ boot = "up" /\ Held = {} /\ Len(lh) \in Nat /\ tail \in Nat /\ DOMAIN lh = 1..Len(lh)
  BY <1>1, CommitterHolds
<1>3. /\ LockInv' /\ Held' = {} /\ Installing' /\ Installing
      /\ pc'[p] = IF tail + 1 < Len(lh) THEN "install" ELSE "erase"
      /\ \A q \in Proc \ {p} : pc'[q] = pc[q] /\ pc[q] \notin Busy
  <2>1. UNCHANGED <<bp, boot>> /\ pc[p] \in {"install", "erase"}
    BY <1>1
  <2>2. CASE tail + 1 < Len(lh)
    <3>1. pc' = [pc EXCEPT ![p] = "install"]
      BY <1>1, <2>2 DEF TypeOK
    <3>2. "install" \notin {"log_write", "logging"}
      OBVIOUS
    <3>3. /\ LockInv' /\ Held' = {} /\ Installing' /\ Installing /\ pc'[p] = "install"
          /\ \A q \in Proc \ {p} : pc'[q] = pc[q] /\ pc[q] \notin Busy
      BY Zenon, <1>1, <2>1, <3>1, <3>2, CommitterMoves
    <3> QED
      BY <2>2, <3>3
  <2>3. CASE ~(tail + 1 < Len(lh))
    <3>1. pc' = [pc EXCEPT ![p] = "erase"]
      BY <1>1, <2>3
    <3>2. "erase" \notin {"log_write", "logging"}
      OBVIOUS
    <3>3. /\ LockInv' /\ Held' = {} /\ Installing' /\ Installing /\ pc'[p] = "erase"
          /\ \A q \in Proc \ {p} : pc'[q] = pc[q] /\ pc[q] \notin Busy
      BY Zenon, <1>1, <2>1, <3>1, <3>2, CommitterMoves
    <3> QED
      BY <2>3, <3>3
  <2> QED
    BY <2>2, <2>3
<1>4. /\ tail + 1 \in DOMAIN lh /\ b \in Block
      /\ \A a \in Block : a = b => bread(a)' = dlog[tail + 1]
      /\ home'[b] = dlog[tail + 1] /\ cache'[b] # NotCached
      /\ refcnt'[b] = brelse(bunpin(bget(refcnt[b])))
      /\ \A a \in Block \ {b} :
           cache'[a] = cache[a] /\ home'[a] = home[a] /\ refcnt'[a] = refcnt[a]
           /\ bread(a)' = bread(a)
      /\ \A i \in DOMAIN lh : i # tail + 1 => lh[i] \in Block \ {b}
  BY <1>1, InstallBlockData DEF DataInv
<1>5. b \in Pinned /\ Pinned' = Pinned \ {b}
  BY <1>1, <1>2, <1>3, <1>4, InstallUnpins DEF DataInv, HeaderInv
<1>6. HeaderInv'
  BY <1>1, <1>2, <1>3 DEF DataInv, HeaderInv
<1>7. CopyInv'
  <2>1. /\ \A i \in DOMAIN lh : dlog[i] = bread(lh[i])
        /\ \A i \in 1..tail : home[lh[i]] = dlog[i]
    BY <1>1 DEF DataInv, CopyInv
  <2>2. \A i \in DOMAIN lh : \A a \in Block : a = lh[i] => bread(a)' = dlog[i]
    <3> SUFFICES ASSUME NEW i \in DOMAIN lh, NEW a \in Block, a = lh[i]
                 PROVE  bread(a)' = dlog[i]
      OBVIOUS
    <3>1. CASE i = tail + 1
      BY <1>4, <3>1
    <3>2. CASE i # tail + 1
      <4>1. a \in Block \ {b}
        BY <1>4, <3>2
      <4>2. bread(a)' = bread(a)
        BY <1>4, <4>1
      <4> QED
        BY <2>1, <4>2
    <3> QED
      BY <3>1, <3>2
  <2>3. \A i \in DOMAIN lh : dlog'[i] = bread(lh[i])'
    <3>1. lh' = lh /\ dlog' = dlog /\ \A i \in DOMAIN lh : lh[i] \in Block
      BY <1>1, HeaderTypes
    <3> QED
      BY <2>2, <3>1 DEF bread
  <2>4. \A i \in 1..tail' : home'[lh[i]] = dlog[i]
    <3> SUFFICES ASSUME NEW i \in 1..tail + 1
                 PROVE  home'[lh[i]] = dlog[i]
      BY <1>1
    <3>1. i = tail + 1 \/ (i \in 1..tail /\ i \in DOMAIN lh /\ i # tail + 1)
      BY <1>1, <1>2
    <3> QED
      BY <1>4, <2>1, <3>1
  <2>5. pc'[p] = "erase" => tail' = Len(lh)
    <3>1. pc'[p] = "erase" => ~(tail + 1 < Len(lh))
      BY <1>3
    <3>2. tail < Len(lh) /\ tail' = tail + 1
      BY <1>1
    <3>3. tail \in Nat /\ Len(lh) \in Nat
      BY <1>2
    <3> QED
      BY <3>1, <3>2, <3>3
  <2> QED
    BY Zenon, <1>1, <1>2, <1>3, <2>3, <2>4, <2>5 DEF CopyInv, Busy, bread
<1>8. CleanInv'
  <2>1. b \in Range(lh)
    BY <1>4 DEF Range
  <2> QED
    BY <1>1, <1>2, <1>3, <1>4, <2>1 DEF DataInv, CleanInv
<1>9. PinInv'
  <2> SUFFICES ASSUME NEW a \in Block
               PROVE  /\ a \in Pinned \ {b} => cache'[a] # NotCached
                      /\ IF a \in reinstalled THEN cache'[a] # NotCached
                         ELSE refcnt'[a] = IF a \in Pinned \ {b} THEN 1 ELSE 0
    BY <1>1, <1>3, <1>5 DEF PinInv
  <2>0. /\ a \in Pinned => cache[a] # NotCached
        /\ a \in reinstalled => cache[a] # NotCached
        /\ a \notin reinstalled /\ a \in Pinned => refcnt[a] = 1
        /\ a \notin reinstalled /\ a \notin Pinned => refcnt[a] = 0
    BY <1>2 DEF DataInv, PinInv
  <2> HIDE DEF b
  <2>1. CASE a = b
    <3>1. b \notin reinstalled => refcnt[b] = 1
      BY <1>5, <2>0, <2>1
    <3>2. b \notin reinstalled => refcnt'[b] = 0
      BY <1>4, <3>1, SmallCounts
    <3> QED
      BY <1>4, <2>1, <3>2
  <2>2. CASE a # b
    <3>1. cache'[a] = cache[a] /\ refcnt'[a] = refcnt[a] /\ (a \in Pinned \ {b} <=> a \in Pinned)
      BY <1>4, <2>2
    <3> QED
      BY <2>0, <3>1
  <2> QED
    BY <2>1, <2>2
<1> QED
  BY SMTT(40), <1>3, <1>6, <1>7, <1>8, <1>9 DEF DataInv

\* The header is erased once every block of it is at home.
LEMMA EraseData ==
  ASSUME SmallCalls, TypeOK, LogInv, DataInv, NEW p \in Proc, Erase(p)
  PROVE  DataInv'
<1>1. /\ pc[p] = "erase" /\ InCommit(p) /\ pc' = [pc EXCEPT ![p] = "end_commit"]
      /\ lh' = <<>> /\ head' = <<>> /\ tail' = 0
      /\ UNCHANGED <<bp, cache, refcnt, dlog, home, boot, reinstalled>>
  BY DEF Erase, memVars, sysVars, InCommit
<1>2. /\ boot = "up" /\ Held = {} /\ Len(lh) \in Nat /\ DOMAIN lh = 1..Len(lh)
  BY <1>1, CommitterHolds
<1>3. /\ LockInv' /\ Held' = {} /\ ~Installing' /\ Installing /\ pc'[p] = "end_commit"
      /\ \A q \in Proc \ {p} : pc'[q] = pc[q] /\ pc[q] \notin Busy
  <2>1. "end_commit" \notin {"log_write", "logging"} /\ "end_commit" \notin {"install", "erase"}
    OBVIOUS
  <2>2. UNCHANGED <<bp, boot>> /\ pc[p] \in {"install", "erase"}
    BY <1>1
  <2> QED
    BY Zenon, <1>1, <2>1, <2>2, CommitterMoves
<1>4. /\ tail = Len(lh)
      /\ \A i \in DOMAIN lh : dlog[i] = bread(lh[i])
      /\ \A i \in 1..tail : home[lh[i]] = dlog[i]
  BY <1>1 DEF DataInv, CopyInv
<1>5. Pinned = {} /\ Pinned' = {}
  <2>1. \A j \in DOMAIN lh : ~(j > tail)
    BY <1>2, <1>4
  <2>2. DOMAIN lh' = {}
    BY <1>1
  <2> QED
    BY <1>3, <2>1, <2>2 DEF Pinned
<1>6. HeaderInv'
  BY <1>1, <1>3 DEF HeaderInv, IsInjective
<1>7. CopyInv'
  BY <1>1, <1>2, <1>3 DEF CopyInv, Busy
<1>8. CleanInv'
  <2> SUFFICES ASSUME NEW b \in Block
               PROVE  bread(b) = home[b]
    BY <1>1 DEF CleanInv, bread
  <2>1. CASE b \in Range(lh)
    <3>1. PICK i \in DOMAIN lh : lh[i] = b
      BY <2>1 DEF Range
    <3> QED
      BY <1>2, <1>4, <3>1
  <2>2. CASE b \notin Range(lh)
    BY <1>2, <2>2 DEF DataInv, CleanInv
  <2> QED
    BY <2>1, <2>2
<1>9. PinInv'
  BY <1>1, <1>2, <1>3, <1>5 DEF DataInv, PinInv
<1> QED
  BY <1>3, <1>6, <1>7, <1>8, <1>9 DEF DataInv

-----------------------------------------------------------------------------
(* Buffers read and recycled outside of calls.                             *)

\* A buffer that is not pinned, not locked and of no reinstalled block holds
\* what its home block holds.
LEMMA RecycledIsClean ==
  ASSUME SmallCalls, TypeOK, LogInv, DataInv, boot = "up", NEW b \in Block \ reinstalled, refcnt[b] = 0
  PROVE  b \notin Pinned /\ b \notin Held /\ bread(b) = home[b]
<1>1. b \notin Pinned /\ b \notin Held
  BY DEF DataInv, PinInv
<1>2. CASE b \notin Range(lh)
  BY <1>1, <1>2 DEF DataInv, CleanInv
<1>3. CASE b \in Range(lh)
  <2>1. PICK i \in DOMAIN lh : lh[i] = b
    BY <1>3 DEF Range
  <2>2. Installing /\ ~(i > tail)
    BY <1>1, <2>1 DEF Pinned
  <2>3. PICK p \in Proc : pc[p] \in {"install", "erase"}
    BY <2>2 DEF Installing
  <2>4. /\ \A j \in DOMAIN lh : dlog[j] = bread(lh[j])
        /\ \A j \in 1..tail : home[lh[j]] = dlog[j]
    BY <2>3 DEF DataInv, CopyInv
  <2>5. i \in 1..tail
    <3>1. Len(lh) \in Nat /\ DOMAIN lh = 1..Len(lh) /\ tail \in Nat
      BY HeaderTypes
    <3>2. i \in 1..Len(lh) /\ ~(i > tail)
      BY <2>1, <2>2, <3>1
    <3> QED
      BY <3>1, <3>2
  <2> QED
    BY <1>1, <2>1, <2>4, <2>5
<1> QED
  BY <1>1, <1>2, <1>3

LEMMA CacheData ==
  ASSUME SmallCalls, TypeOK, LogInv, DataInv, NEW b \in Block,
         Read(b) \/ (Recycle(b) /\ b \notin reinstalled)
  PROVE  DataInv' /\ \A a \in Block : bread(a)' = bread(a)
<1>1. /\ UNCHANGED <<pc, bp, lh, tail, refcnt, head, dlog, home, boot, reinstalled>>
      /\ boot = "up"
  BY DEF Read, Recycle, procVars, logVars, diskVars, sysVars
<1>2. Installing' = Installing /\ Pinned' = Pinned /\ Held' = Held
  BY <1>1 DEF Installing, Pinned, Held
<1>3. /\ \A a \in Block \ {b} : cache'[a] = cache[a]
      /\ Read(b) => cache[b] = NotCached /\ cache'[b] = home[b]
      /\ Recycle(b) => cache'[b] = NotCached /\ refcnt[b] = 0
  BY DEF Read, Recycle, TypeOK
<1>4. Recycle(b) /\ b \notin reinstalled => b \notin Pinned /\ b \notin Held /\ bread(b) = home[b]
  BY <1>1, <1>3, RecycledIsClean
<1>5. home[b] \in Val /\ home[b] # NotCached
  <2>1. home \in [Block -> Val]
    BY DEF TypeOK
  <2>2. NotCached \notin Val
    BY LogConstants
  <2> QED
    BY <2>1, <2>2
<1>6. \A a \in Block : bread(a)' = bread(a)
  BY <1>1, <1>3, <1>4, <1>5 DEF bread
<1>7. HeaderInv' /\ LockInv'
  BY <1>1, <1>2 DEF DataInv, HeaderInv, LockInv
<1>8. CopyInv'
  <2>1. \A i \in DOMAIN lh : lh[i] \in Block
    BY HeaderTypes
  <2>2. \A i \in DOMAIN lh : bread(lh[i])' = bread(lh[i])
    BY <1>1, <1>6, <2>1 DEF bread
  <2>3. \A p \in Proc : pc[p] = "write_log" => \A i \in 1..tail : i \in DOMAIN lh
    BY HeaderTypes DEF LogInv, LoopInv
  <2> QED
    BY <1>1, <2>2, <2>3 DEF DataInv, CopyInv
<1>9. CleanInv'
  BY <1>1, <1>2, <1>6 DEF DataInv, CleanInv
<1>10. PinInv'
  BY <1>1, <1>2, <1>3, <1>4, <1>5 DEF DataInv, PinInv
<1> QED
  BY <1>6, <1>7, <1>8, <1>9, <1>10 DEF DataInv

-----------------------------------------------------------------------------
(* Crash and recovery.                                                     *)

\* Until initlog returns no process holds anything.
LEMMA BootHolds ==
  ASSUME LogInv, DataInv, boot # "up"
  PROVE  /\ \A q \in Proc : pc[q] = "idle" /\ bp[q] = NoBlock
         /\ Held = {} /\ Pinned = {} /\ ~Installing
<1>1. \A q \in Proc : pc[q] = "idle"
  BY DEF LogInv, WhoInv
<1>2. \A q \in Proc : bp[q] = NoBlock
  BY <1>1 DEF DataInv, LockInv
<1> QED
  BY <1>1, <1>2, LogConstants DEF Held, Pinned, Installing

\* A state in which nobody has done anything since the machine started.
LEMMA IdleData ==
  ASSUME \A q \in Proc : pc'[q] = "idle" /\ bp'[q] = NoBlock
  PROVE  LockInv' /\ Held' = {} /\ ~Installing' /\ (boot' # "up" => Pinned' = {})
BY LogConstants DEF LockInv, Held, Installing, Pinned

LEMMA ReadHeadData ==
  ASSUME TypeOK, LogInv, DataInv, ReadHead
  PROVE  DataInv'
<1>1. /\ boot = "read_head" /\ lh' = head /\ boot' \in {"install", "clear"}
      /\ boot' = "clear" => ~(Len(head) > 0)
      /\ UNCHANGED <<pc, bp, tail, cache, refcnt, head, dlog, home, reinstalled>>
  BY DEF ReadHead, procVars, memVars, diskVars
<1>2. /\ \A q \in Proc : pc[q] = "idle" /\ bp[q] = NoBlock
      /\ Held = {} /\ Pinned = {}
  BY <1>1, BootHolds
<1>3. LockInv' /\ Held' = {} /\ ~Installing' /\ Pinned' = {}
  BY <1>1, <1>2, IdleData
<1>4. tail = 0
  BY <1>1 DEF LogInv, LoopInv
<1>5. HeaderInv'
  BY <1>1 DEF DataInv, HeaderInv
<1>6. CopyInv'
  <2>1. boot' = "clear" => DOMAIN lh' = {}
    <3>1. Len(head) \in Nat /\ DOMAIN head = 1..Len(head)
      BY HeaderTypes
    <3>2. boot' = "clear" => Len(head) = 0
      BY <1>1, <3>1
    <3> QED
      BY <1>1, <3>1, <3>2
  <2> QED
    BY <1>1, <1>2, <1>4, <2>1 DEF CopyInv
<1>7. CleanInv'
  BY <1>1 DEF DataInv, CleanInv, bread
<1>8. PinInv'
  BY <1>1, <1>2, <1>3 DEF DataInv, PinInv
<1> QED
  BY <1>3, <1>5, <1>6, <1>7, <1>8 DEF DataInv

LEMMA RecoverBlockData ==
  ASSUME SmallCalls, TypeOK, LogInv, DataInv, RecoverBlock
  PROVE  DataInv'
<1> DEFINE b == lh[tail + 1]
<1>1. /\ boot = "install" /\ InstallBlock /\ tail < Len(lh) /\ tail' = tail + 1
      /\ reinstalled' = reinstalled \cup {b}
      /\ boot' = IF tail + 1 < Len(lh) THEN "install" ELSE "clear"
      /\ UNCHANGED <<pc, bp, lh, head, dlog>>
  BY DEF RecoverBlock, procVars, LogInv, LoopInv
<1>2. /\ \A q \in Proc : pc[q] = "idle" /\ bp[q] = NoBlock
      /\ Held = {} /\ Pinned = {}
  BY <1>1, BootHolds
<1>3. LockInv' /\ Held' = {} /\ ~Installing' /\ Pinned' = {}
  BY <1>1, <1>2, IdleData
<1>4. /\ tail + 1 \in DOMAIN lh /\ b \in Block
      /\ \A a \in Block : a = b => bread(a)' = dlog[tail + 1]
      /\ home'[b] = dlog[tail + 1] /\ cache'[b] # NotCached
      /\ \A a \in Block \ {b} :
           cache'[a] = cache[a] /\ home'[a] = home[a] /\ refcnt'[a] = refcnt[a]
           /\ bread(a)' = bread(a)
      /\ \A i \in DOMAIN lh : i # tail + 1 => lh[i] \in Block \ {b}
  BY <1>1, InstallBlockData DEF DataInv
<1>5. HeaderInv'
  BY <1>1 DEF DataInv, HeaderInv
<1>6. CopyInv'
  <2>1. tail \in Nat /\ Len(lh) \in Nat /\ DOMAIN lh = 1..Len(lh)
    BY HeaderTypes
  <2>2. \A i \in 1..tail : home[lh[i]] = dlog[i]
    BY <1>1 DEF DataInv, CopyInv
  <2>3. \A i \in 1..tail + 1 : home'[lh[i]] = dlog[i]
    <3> SUFFICES ASSUME NEW i \in 1..tail + 1
                 PROVE  home'[lh[i]] = dlog[i]
      OBVIOUS
    <3>1. i = tail + 1 \/ (i \in 1..tail /\ i \in DOMAIN lh /\ i # tail + 1)
      BY <1>1, <2>1
    <3> QED
      BY <1>4, <2>2, <3>1
  <2>4. boot' = "clear" => \A i \in DOMAIN lh : i \in 1..tail + 1
    <3>1. boot' = "clear" => ~(tail + 1 < Len(lh))
      BY <1>1
    <3> QED
      BY <2>1, <3>1
  <2> QED
    BY <1>1, <1>2, <2>3, <2>4 DEF CopyInv
<1>7. CleanInv'
  BY <1>1, <1>4 DEF DataInv, CleanInv
<1>8. PinInv'
  BY <1>1, <1>2, <1>3, <1>4 DEF DataInv, PinInv
<1> QED
  BY SMTT(40), <1>3, <1>5, <1>6, <1>7, <1>8 DEF DataInv

LEMMA ClearLogData ==
  ASSUME TypeOK, LogInv, DataInv, ClearLog
  PROVE  DataInv'
<1>1. /\ boot = "clear" /\ boot' = "up" /\ lh' = <<>> /\ head' = <<>> /\ tail' = 0
      /\ UNCHANGED <<pc, bp, cache, refcnt, dlog, home, reinstalled>>
  BY DEF ClearLog, procVars, memVars
<1>2. /\ \A q \in Proc : pc[q] = "idle" /\ bp[q] = NoBlock
      /\ Held = {} /\ Pinned = {}
  BY <1>1, BootHolds
<1>3. LockInv' /\ Held' = {} /\ ~Installing'
  BY <1>1, <1>2, IdleData
<1>4. Pinned' = {}
  <2>1. DOMAIN lh' = {}
    BY <1>1
  <2> QED
    BY <2>1 DEF Pinned
<1>5. HeaderInv'
  BY <1>1, <1>3 DEF HeaderInv, IsInjective
<1>6. CopyInv'
  BY <1>1, <1>2 DEF CopyInv
<1>7. CleanInv'
  BY <1>1 DEF DataInv, CleanInv, bread
<1>8. PinInv'
  BY <1>1, <1>2, <1>3, <1>4 DEF DataInv, PinInv
<1> QED
  BY <1>3, <1>5, <1>6, <1>7, <1>8 DEF DataInv

\* Memory is lost; the disk is what recovery starts from.
LEMMA CrashData ==
  ASSUME DataInv, Crash
  PROVE  DataInv'
<1>1. /\ boot' = "read_head" /\ lh' = <<>> /\ tail' = 0 /\ head' = head /\ home' = home
      /\ reinstalled' = {}
      /\ cache' = [b \in Block |-> NotCached] /\ refcnt' = [b \in Block |-> 0]
      /\ \A q \in Proc : pc'[q] = "idle" /\ bp'[q] = NoBlock
  BY DEF Crash, diskVars
<1>2. LockInv' /\ Held' = {} /\ Pinned' = {}
  BY <1>1, IdleData
<1>3. HeaderInv'
  BY <1>1 DEF DataInv, HeaderInv, IsInjective
<1>4. CopyInv'
  BY <1>1 DEF CopyInv
<1>5. CleanInv'
  BY <1>1 DEF CleanInv, bread
<1>6. PinInv'
  BY <1>1, <1>2 DEF PinInv
<1> QED
  BY SMTT(40), <1>2, <1>3, <1>4, <1>5, <1>6 DEF DataInv

LEMMA InitData == Init => DataInv
<1> SUFFICES ASSUME Init
             PROVE  DataInv
  OBVIOUS
<1>1. /\ boot = "read_head" /\ lh = <<>> /\ tail = 0 /\ head = <<>>
      /\ reinstalled = {}
      /\ cache = [b \in Block |-> NotCached] /\ refcnt = [b \in Block |-> 0]
      /\ \A q \in Proc : pc[q] = "idle" /\ bp[q] = NoBlock
  BY DEF Init
<1>2. LockInv /\ Held = {} /\ Pinned = {}
  BY <1>1, LogConstants DEF LockInv, Held, Pinned
<1>3. HeaderInv
  BY <1>1 DEF HeaderInv, IsInjective
<1>4. CopyInv
  BY <1>1 DEF CopyInv
<1>5. CleanInv
  BY <1>1 DEF CleanInv, bread
<1>6. PinInv
  BY <1>1, <1>2 DEF PinInv
<1> QED
  BY SMTT(40), <1>2, <1>3, <1>4, <1>5, <1>6 DEF DataInv

LEMMA RoomyIsNext == [RoomyNext]_vars => [Next]_vars
BY DEF RoomyNext, Next

LEMMA DataStep ==
  ASSUME SmallCalls, TypeOK, LogInv, DataInv, [RoomyNext]_vars
  PROVE  DataInv'
<1>1. ASSUME NEW p \in Proc, CallStep(p)
      PROVE  DataInv'
  BY <1>1, QuietData, ModifyData, LogWriteData, EndOpData,
     WriteLogData, WriteHeadData, InstallData, EraseData DEF CallStep, Commit
<1>2. ASSUME NEW b \in Block, Read(b) \/ (Recycle(b) /\ b \notin reinstalled)
      PROVE  DataInv'
  BY <1>2, CacheData
<1>3. CASE Recover
  BY <1>3, ReadHeadData, RecoverBlockData, ClearLogData DEF Recover
<1>4. CASE Crash
  BY <1>4, CrashData
<1>5. CASE UNCHANGED vars
  <2>1. UNCHANGED <<bp, lh, tail, cache, refcnt, head, dlog, home, boot, reinstalled>> /\ pc' = pc
    BY <1>5 DEF vars, procVars, logVars, memVars, diskVars, sysVars
  <2> QED
    BY <2>1, Frame
<1> QED
  BY <1>1, <1>2, <1>3, <1>4, <1>5 DEF RoomyNext, Core

\* The invariants hold together in every reachable state of the log, as long
\* as the cache keeps the buffers that recovery went through.
THEOREM LogDataInvariant ==
  ASSUME SmallCalls
  PROVE  RoomySpec => [](TypeOK /\ LogInv /\ DataInv)
<1>1. Init => TypeOK /\ LogInv /\ DataInv
  BY InitInv, InitData
<1>2. (TypeOK /\ LogInv /\ DataInv) /\ [RoomyNext]_vars => (TypeOK /\ LogInv /\ DataInv)'
  BY StepInv, DataStep, RoomyIsNext
<1> QED
  BY <1>1, <1>2, PTL DEF RoomySpec

\* A block that log_write put into the header stays in the cache until
\* install_trans comes to it: write_log finds there what the call wrote.
THEOREM LoggedBlocksStayCached ==
  ASSUME SmallCalls
  PROVE  RoomySpec => []LoggedStaysCached
<1>1. TypeOK /\ DataInv => LoggedStaysCached
  <2> SUFFICES ASSUME TypeOK, DataInv, NEW i \in DOMAIN lh, boot = "up",
                      \A p \in Proc : pc[p] \notin {"install", "erase"}
               PROVE  cache[lh[i]] # NotCached
    BY DEF LoggedStaysCached
  <2>1. lh[i] \in Pinned /\ lh[i] \in Block
    BY HeaderTypes DEF Pinned, Installing
  <2> QED
    BY <2>1 DEF DataInv, PinInv
<1> QED
  BY <1>1, LogDataInvariant, PTL

\* When no call is open and no commit runs, the log is empty and the home
\* blocks on disk are what the file system sees.
THEOREM QuietLogIsDurable ==
  ASSUME SmallCalls
  PROVE  RoomySpec => []QuietMeansDurable
<1>1. TypeOK /\ LogInv /\ DataInv => QuietMeansDurable
  <2> SUFFICES ASSUME TypeOK, LogInv, DataInv, boot = "up", outstanding = 0, ~committing
               PROVE  head = <<>> /\ lh = <<>> /\ \A b \in Block : bread(b) = home[b]
    BY DEF QuietMeansDurable
  <2>1. Ops = {}
    BY Zenon, OpsCount, FS_EmptySet DEF LogInv, WhoInv
  <2>2. lh = <<>> /\ \A p \in Proc : ~InOp(p) /\ ~InCommit(p)
    BY SMTT(40), <2>1 DEF LogInv, WhoInv, LoopInv, Ops
  <2>3. head = <<>>
    BY <2>2 DEF DataInv, HeaderInv, Installing, InCommit
  <2>4. Held = {}
    BY <2>2, LogConstants DEF DataInv, LockInv, InOp, Held
  <2>5. Range(lh) = {}
    BY <2>2 DEF Range
  <2> QED
    BY <2>2, <2>3, <2>4, <2>5 DEF DataInv, CleanInv
<1> QED
  BY <1>1, LogDataInvariant, PTL
=============================================================================
