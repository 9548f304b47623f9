------------------------------ MODULE LogProof ------------------------------
(***************************************************************************)
(* The log never runs out of space, and nobody sleeps in begin_op without  *)
(* a reason: NoPanic and SleeperHasReason of Log, for every number of      *)
(* processes, blocks and crashes.  The argument counts: a call admitted by *)
(* begin_op owns OpBlocks tickets (Unspent), log_write turns at most one   *)
(* of them into a log block, and admission leaves more log blocks free     *)
(* than there are tickets.                                                 *)
(***************************************************************************)
EXTENDS Log, FiniteSetTheorems, TLAPS

\* The log area mkfs lays out has LOGSIZE blocks, and a call writes fewer
\* blocks than begin_op reserves for it.
SmallCalls == size = LOGSIZE /\ OpBlocks < MAXOPBLOCKS

PcStates == {"idle", "begin", "sleeping", "op", "log_write", "logging",
             "write_log", "write_head", "install", "erase", "end_commit"}

LEMMA ConstantTypes ==
  /\ MAXOPBLOCKS \in Nat /\ MAXOPBLOCKS >= 1
  /\ LOGSIZE \in Nat /\ LOGSIZE > MAXOPBLOCKS
  /\ size \in Nat /\ size >= 1
  /\ OpBlocks \in Nat /\ OpBlocks >= 1
  /\ UintMax \in Nat /\ UintMax > 2
  /\ MaxCrashes \in Nat
BY LogConstants

\* Arithmetic on the reference count stays in the range of an unsigned int.
LEMMA RefcntRange ==
  ASSUME NEW n \in 0..UintMax
  PROVE  /\ bget(n) \in 0..UintMax
         /\ bpin(n) \in 0..UintMax
         /\ bunpin(n) \in 0..UintMax
         /\ brelse(n) \in 0..UintMax
<1>1. \A i \in Int : Wrap(i) \in 0..UintMax
  BY ConstantTypes DEF Wrap
<1>2. n + 1 \in Int /\ n - 1 \in Int
  BY ConstantTypes
<1> QED
  BY <1>1, <1>2 DEF bget, bpin, bunpin, brelse

\* What begin_op's admission test buys, for k >= 2 open calls.
LEMMA AdmissionArithmetic ==
  ASSUME NEW n \in Nat, NEW k \in Nat, NEW m \in Nat, NEW w \in Nat, NEW l \in Nat,
         n + k * m <= l, w < m, k >= 2
  PROVE  n + k * w <= l - 2
<1>1. k * w <= k * (m - 1)
  OBVIOUS
<1>2. k * (m - 1) = k * m - k
  OBVIOUS
<1>3. k * w \in Nat /\ k * m \in Nat
  OBVIOUS
<1> QED
  BY <1>1, <1>2, <1>3

-----------------------------------------------------------------------------
(* Counting.                                                               *)

LEMMA OpsCount ==
  IsFiniteSet(Ops) /\ Cardinality(Ops) \in Nat
BY LogConstants, FS_Subset, FS_CardinalityType DEF Ops

LEMMA UnspentCount ==
  IsFiniteSet(Unspent) /\ Cardinality(Unspent) \in Nat
<1>1. IsFiniteSet(1..OpBlocks)
  BY ConstantTypes, FS_Interval
<1>2. IsFiniteSet(Proc \X (1..OpBlocks))
  BY <1>1, LogConstants, FS_Product
<1>3. Unspent \in SUBSET (Proc \X (1..OpBlocks))
  BY DEF Unspent
<1> QED
  BY <1>2, <1>3, FS_Subset, FS_CardinalityType

LEMMA TicketBound ==
  ASSUME NEW S, IsFiniteSet(S), NEW T, T \subseteq S \X (1..OpBlocks)
  PROVE  /\ Cardinality(T) \in Nat
         /\ Cardinality(T) <= Cardinality(S) * OpBlocks
<1>1. IsFiniteSet(1..OpBlocks)
      /\ Cardinality(1..OpBlocks) = IF 1 > OpBlocks THEN 0 ELSE OpBlocks - 1 + 1
  <2>1. 1 \in Int /\ OpBlocks \in Int
    BY ConstantTypes
  <2> QED
    BY <2>1, FS_Interval
<1>2. Cardinality(1..OpBlocks) = OpBlocks
  BY <1>1, ConstantTypes
<1>3. IsFiniteSet(S \X (1..OpBlocks))
      /\ Cardinality(S \X (1..OpBlocks)) = Cardinality(S) * OpBlocks
  BY Zenon, <1>1, <1>2, FS_Product
<1>4. T \in SUBSET (S \X (1..OpBlocks))
  OBVIOUS
<1> QED
  BY <1>3, <1>4, FS_Subset, FS_CardinalityType

LEMMA AppendRange ==
  ASSUME NEW s \in Seq(Block), NEW b \in Block
  PROVE  Range(Append(s, b)) = Range(s) \cup {b}
<1> DEFINE t == Append(s, b)
<1>1. DOMAIN s = 1..Len(s) /\ DOMAIN t = 1..(Len(s) + 1) /\ Len(s) \in Nat
  OBVIOUS
<1>2. \A i \in 1..Len(s) : t[i] = s[i]
  OBVIOUS
<1>3. t[Len(s) + 1] = b
  OBVIOUS
<1>4. 1..(Len(s) + 1) = 1..Len(s) \cup {Len(s) + 1}
  BY <1>1
<1> HIDE DEF t
<1> QED
  BY <1>1, <1>2, <1>3, <1>4 DEF Range

-----------------------------------------------------------------------------
(* What the actions have in common.                                        *)

\* A step after which the same processes are in a call, with the same quota.
LEMMA SameCalls ==
  ASSUME \A q \in Proc : InOp(q)' <=> InOp(q), wrote' = wrote
  PROVE  /\ Ops' = Ops /\ Unspent' = Unspent
         /\ Cardinality(Ops') = Cardinality(Ops)
         /\ Cardinality(Unspent') = Cardinality(Unspent)
<1>1. Ops' = Ops
  BY DEF Ops
<1>2. Unspent' = Unspent
  BY DEF Unspent
<1> QED
  BY <1>1, <1>2

\* A step after which every process has the role it had.
LEMMA SameRoles ==
  ASSUME WhoInv, boot = "up", UNCHANGED <<boot, outstanding, committing>>,
         \A q \in Proc : InOp(q)' <=> InOp(q),
         \A q \in Proc : InCommit(q)' <=> InCommit(q)
  PROVE  WhoInv'
<1>1. Ops' = Ops
  BY DEF Ops
<1>2. outstanding' = Cardinality(Ops')
  BY <1>1 DEF WhoInv
<1>3. committing' => Ops' = {}
  BY <1>1 DEF WhoInv
<1> QED
  BY <1>2, <1>3 DEF WhoInv

\* A process that commits is alone: no call is open and nobody else commits.
LEMMA CommitterAlone ==
  ASSUME WhoInv, NEW p \in Proc, InCommit(p)
  PROVE  /\ committing /\ boot = "up"
         /\ \A q \in Proc : ~InOp(q)
         /\ \A q \in Proc \ {p} : ~InCommit(q)
<1>1. committing /\ boot = "up"
  BY DEF WhoInv
<1>2. \A q \in Proc : ~InOp(q)
  BY <1>1 DEF WhoInv, Ops
<1> QED
  BY <1>1, <1>2 DEF WhoInv

LEMMA NoCallsInv ==
  ASSUME \A q \in Proc : ~InOp(q)'
  PROVE  CallInv'
BY DEF CallInv, InOp

LEMMA HeaderFits ==
  ASSUME SmallCalls, TypeOK, SpaceInv
  PROVE  Len(lh) \in Nat /\ Len(lh) <= size - 2 /\ Len(lh) <= LOGSIZE
<1>1. Len(lh) \in Nat
  BY DEF TypeOK
<1> QED
  BY <1>1, UnspentCount, ConstantTypes DEF SpaceInv, SmallCalls
-----------------------------------------------------------------------------
(* begin_op.                                                               *)

LEMMA BeginWaitInv ==
  ASSUME SmallCalls, TypeOK, LogInv, NEW p \in Proc, BeginWait(p)
  PROVE  TypeOK' /\ LogInv'
<1> USE DEF LogInv
<1>1. /\ pc[p] \in {"idle", "begin"} /\ pc'[p] = "sleeping" /\ boot = "up"
      /\ \A q \in Proc \ {p} : pc'[q] = pc[q]
  BY DEF BeginWait, Running, TypeOK
<1>2. UNCHANGED <<bp, wrote, lh, outstanding, committing, tail, cache, refcnt,
                  head, dlog, home, boot, reinstalled, panicked, crashes>>
  BY DEF BeginWait, logVars, memVars, diskVars, sysVars
<1>3. \A q \in Proc : (InOp(q)' <=> InOp(q)) /\ (InCommit(q)' <=> InCommit(q))
  BY <1>1 DEF InOp, InCommit
<1>4. TypeOK'
  <2>1. pc' \in [Proc -> PcStates]
    BY DEF BeginWait, TypeOK, PcStates
  <2> QED
    BY <1>2, <2>1 DEF TypeOK, PcStates
<1>5. WhoInv'
  BY <1>1, <1>2, <1>3, SameRoles
<1>6. Ops' = Ops /\ Cardinality(Unspent') = Cardinality(Unspent)
  BY <1>2, <1>3, SameCalls
<1>7. LoopInv'
  BY <1>1, <1>2, <1>6 DEF LoopInv
<1>8. CallInv'
  BY <1>1, <1>2, <1>3 DEF CallInv
<1>9. SpaceInv'
  BY <1>2, <1>6 DEF SpaceInv
<1> QED
  BY <1>4, <1>5, <1>7, <1>8, <1>9

\* Admission: the new call's tickets fit beside the old ones.
LEMMA BeginOpInv ==
  ASSUME SmallCalls, TypeOK, LogInv, NEW p \in Proc, BeginOp(p)
  PROVE  TypeOK' /\ LogInv'
<1> USE DEF LogInv
<1>1. /\ pc[p] \in {"idle", "begin"} /\ pc'[p] = "op" /\ boot = "up"
      /\ \A q \in Proc \ {p} : pc'[q] = pc[q]
      /\ ~committing /\ ~NoSpace
  BY DEF BeginOp, Running, TypeOK
<1>2. UNCHANGED <<bp, lh, committing, tail, cache, refcnt,
                  head, dlog, home, boot, reinstalled, panicked, crashes>>
  BY DEF BeginOp, memVars, diskVars, sysVars
<1>3. /\ wrote'[p] = {} /\ \A q \in Proc \ {p} : wrote'[q] = wrote[q]
      /\ outstanding' = outstanding + 1
  BY DEF BeginOp, TypeOK
<1>4. ~InOp(p) /\ ~InCommit(p)' /\ InOp(p)' /\ ~InCommit(p)
  BY <1>1 DEF InOp, InCommit
<1>5. \A q \in Proc \ {p} : (InOp(q)' <=> InOp(q)) /\ (InCommit(q)' <=> InCommit(q))
  BY <1>1 DEF InOp, InCommit
<1>6. Ops' = Ops \cup {p} /\ p \notin Ops
  BY <1>4, <1>5 DEF Ops
<1>7. TypeOK'
  <2>1. pc' \in [Proc -> PcStates] /\ wrote' \in [Proc -> SUBSET Block]
    BY DEF BeginOp, TypeOK, PcStates
  <2>2. outstanding' \in Int
    BY <1>3 DEF TypeOK
  <2> QED
    BY <1>2, <2>1, <2>2 DEF TypeOK, PcStates
<1>8. outstanding' = Cardinality(Ops')
  BY <1>3, <1>6, OpsCount, FS_AddElement DEF WhoInv
<1>9. WhoInv'
  BY <1>1, <1>2, <1>4, <1>5, <1>8 DEF WhoInv
<1>10. LoopInv'
  BY <1>1, <1>2, <1>6 DEF LoopInv
<1>11. CallInv'
  <2>1. ASSUME NEW q \in Proc \ {p}
        PROVE  InOp(q)' => wrote'[q] \subseteq Range(lh')
    BY <1>2, <1>3, <1>5 DEF CallInv
  <2>2. ASSUME NEW q \in Proc \ {p}, pc'[q] \in {"log_write", "logging"}
        PROVE  /\ bp'[q] \in Block
               /\ bp'[q] \in wrote'[q] \/ Cardinality(wrote'[q]) < OpBlocks
    BY <1>1, <1>2, <1>3, <2>2 DEF CallInv
  <2>3. wrote'[p] \subseteq Range(lh')
    BY <1>3
  <2> QED
    BY <1>1, <2>1, <2>2, <2>3 DEF CallInv
<1>12. Len(lh) + Cardinality(Unspent') <= size - 2
  <2>1. IsFiniteSet(Ops') /\ Cardinality(Ops') = outstanding + 1
    BY <1>3, <1>6, <1>8, OpsCount, FS_AddElement
  <2>2. Unspent' \subseteq Ops' \X (1..OpBlocks)
    BY DEF Unspent, Ops
  <2>3. Cardinality(Unspent') \in Nat
        /\ Cardinality(Unspent') <= (outstanding + 1) * OpBlocks
    BY <2>1, <2>2, TicketBound
  <2>4. outstanding \in Nat /\ Len(lh) \in Nat
    BY OpsCount DEF WhoInv, TypeOK
  <2>5. CASE outstanding = 0
    <3>1. Ops = {}
      BY Zenon, <2>5, OpsCount, FS_EmptySet DEF WhoInv
    <3>2. lh = <<>>
      BY <1>1, <3>1 DEF LoopInv
    <3>3. Len(lh) = 0
      BY <3>2
    <3> QED
      BY <2>3, <2>5, <3>3, ConstantTypes DEF SmallCalls
  <2>6. CASE outstanding >= 1
    <3>1. Len(lh) + (outstanding + 1) * MAXOPBLOCKS <= LOGSIZE
      BY <1>1, <2>4, ConstantTypes DEF NoSpace
    <3>2. Len(lh) + (outstanding + 1) * OpBlocks <= LOGSIZE - 2
      BY <2>4, <2>6, <3>1, AdmissionArithmetic, ConstantTypes DEF SmallCalls
    <3>3. (outstanding + 1) * OpBlocks \in Int
      BY <2>4, ConstantTypes
    <3> QED
      BY <2>3, <2>4, <3>2, <3>3, ConstantTypes DEF SmallCalls
  <2> QED
    BY <2>4, <2>5, <2>6
<1>13. SpaceInv'
  BY <1>2, <1>12 DEF SpaceInv
<1> QED
  BY <1>7, <1>9, <1>10, <1>11, <1>13
-----------------------------------------------------------------------------
(* log_write.                                                              *)

LEMMA ModifyInv ==
  ASSUME SmallCalls, TypeOK, LogInv, NEW p \in Proc, NEW b \in Block,
         NEW v \in Val, Modify(p, b, v)
  PROVE  TypeOK' /\ LogInv'
<1> USE DEF LogInv
<1>1. /\ pc[p] = "op" /\ pc'[p] = "log_write" /\ boot = "up"
      /\ \A q \in Proc \ {p} : pc'[q] = pc[q] /\ bp'[q] = bp[q]
      /\ bp'[p] = b /\ (b \in wrote[p] \/ Cardinality(wrote[p]) < OpBlocks)
  BY DEF Modify, Running, TypeOK
<1>2. UNCHANGED <<wrote, lh, outstanding, committing, tail,
                  head, dlog, home, boot, reinstalled, panicked, crashes>>
  BY DEF Modify, logVars, diskVars, sysVars
<1>3. \A q \in Proc : (InOp(q)' <=> InOp(q)) /\ (InCommit(q)' <=> InCommit(q))
  BY <1>1 DEF InOp, InCommit
<1>4. TypeOK'
  <2>1. pc' \in [Proc -> PcStates] /\ bp' \in [Proc -> Block \cup {NoBlock}]
    BY DEF Modify, TypeOK, PcStates
  <2>2. bget(refcnt[b]) \in 0..UintMax
    BY RefcntRange DEF TypeOK
  <2>3. refcnt' \in [Block -> 0..UintMax]
    BY <2>2 DEF Modify, TypeOK
  <2>4. cache' \in [Block -> Val \cup {NotCached}]
    BY DEF Modify, TypeOK
  <2> QED
    BY <1>2, <2>1, <2>3, <2>4 DEF TypeOK, PcStates
<1>5. WhoInv'
  BY <1>1, <1>2, <1>3, SameRoles
<1>6. Ops' = Ops /\ Cardinality(Unspent') = Cardinality(Unspent)
  BY <1>2, <1>3, SameCalls
<1>7. LoopInv'
  BY <1>1, <1>2, <1>6 DEF LoopInv
<1>8. CallInv'
  BY <1>1, <1>2, <1>3 DEF CallInv
<1>9. SpaceInv'
  BY <1>2, <1>6 DEF SpaceInv
<1> QED
  BY <1>4, <1>5, <1>7, <1>8, <1>9

\* An open call exists, so log.outstanding is not zero, and its quota is
\* reserved, so the log is not full.
LEMMA LogWriteTestsPass ==
  ASSUME SmallCalls, TypeOK, LogInv, NEW p \in Proc, LogWriteTests(p)
  PROVE  /\ pc'[p] = "logging" /\ UNCHANGED panicked
         /\ pc' = [pc EXCEPT ![p] = "logging"]
<1> USE DEF LogInv
<1>1. p \in Ops
  BY DEF LogWriteTests, Ops, InOp
<1>2. outstanding \in Nat /\ outstanding # 0
  BY <1>1, OpsCount, FS_EmptySet DEF WhoInv
<1>3. Len(lh) \in Nat /\ Len(lh) <= size - 2
  BY HeaderFits
<1>4. ~(Len(lh) >= LOGSIZE \/ Len(lh) >= size - 1 \/ outstanding < 1)
  BY <1>2, <1>3, ConstantTypes DEF SmallCalls
<1> QED
  BY <1>4 DEF LogWriteTests, TypeOK

LEMMA LogWriteTestsInv ==
  ASSUME SmallCalls, TypeOK, LogInv, NEW p \in Proc, LogWriteTests(p)
  PROVE  TypeOK' /\ LogInv'
<1> USE DEF LogInv
<1>1. /\ pc[p] = "log_write" /\ pc'[p] = "logging" /\ boot = "up"
      /\ \A q \in Proc \ {p} : pc'[q] = pc[q]
  BY Zenon, LogWriteTestsPass DEF LogWriteTests, Running, TypeOK
<1>2. UNCHANGED <<bp, wrote, lh, outstanding, committing, tail, cache, refcnt,
                  head, dlog, home, boot, reinstalled, panicked, crashes>>
  BY Zenon, LogWriteTestsPass DEF LogWriteTests, logVars, memVars, diskVars
<1>3. \A q \in Proc : (InOp(q)' <=> InOp(q)) /\ (InCommit(q)' <=> InCommit(q))
  BY <1>1 DEF InOp, InCommit
<1>4. TypeOK'
  <2>1. pc' \in [Proc -> PcStates]
    BY Zenon, LogWriteTestsPass DEF TypeOK, PcStates
  <2> QED
    BY <1>2, <2>1 DEF TypeOK, PcStates
<1>5. WhoInv'
  BY <1>1, <1>2, <1>3, SameRoles
<1>6. Ops' = Ops /\ Cardinality(Unspent') = Cardinality(Unspent)
  BY <1>2, <1>3, SameCalls
<1>7. LoopInv'
  BY <1>1, <1>2, <1>6 DEF LoopInv
<1>8. CallInv'
  BY <1>1, <1>2, <1>3 DEF CallInv
<1>9. SpaceInv'
  BY <1>2, <1>6 DEF SpaceInv
<1> QED
  BY <1>4, <1>5, <1>7, <1>8, <1>9

\* A logged block costs the call one ticket, unless it is absorbed.
LEMMA LogWriteInv ==
  ASSUME SmallCalls, TypeOK, LogInv, NEW p \in Proc, LogWrite(p)
  PROVE  TypeOK' /\ LogInv'
<1> DEFINE b == bp[p]
           c == Cardinality(wrote[p])
<1> USE DEF LogInv
<1>1. /\ pc[p] = "logging" /\ pc'[p] = "op" /\ boot = "up"
      /\ \A q \in Proc \ {p} : /\ pc'[q] = pc[q] /\ bp'[q] = bp[q]
                               /\ wrote'[q] = wrote[q]
      /\ wrote'[p] = wrote[p] \cup {b}
  BY DEF LogWrite, Running, TypeOK
<1>2. UNCHANGED <<outstanding, committing, tail, cache, head, dlog, home,
                  boot, reinstalled, panicked, crashes>>
  BY DEF LogWrite, diskVars, sysVars
<1>3. \A q \in Proc : (InOp(q)' <=> InOp(q)) /\ (InCommit(q)' <=> InCommit(q))
  BY <1>1 DEF InOp, InCommit
<1>4. b \in Block /\ (b \in wrote[p] \/ c < OpBlocks) /\ wrote[p] \subseteq Range(lh)
  BY <1>1 DEF CallInv, InOp
<1>5. lh' = IF b \in Range(lh) THEN lh ELSE Append(lh, b)
  BY DEF LogWrite
<1>6. /\ lh \in Seq(Block) /\ lh' \in Seq(Block) /\ Range(lh') = Range(lh) \cup {b}
      /\ Len(lh) \in Nat /\ Len(lh') \in Nat /\ Len(lh') <= Len(lh) + 1
  <2>1. lh \in Seq(Block) /\ Append(lh, b) \in Seq(Block) /\ Len(lh) \in Nat
        /\ Len(Append(lh, b)) = Len(lh) + 1
    BY <1>4 DEF TypeOK
  <2>2. Range(Append(lh, b)) = Range(lh) \cup {b}
    BY <1>4, <2>1, AppendRange
  <2> QED
    BY <1>5, <2>1, <2>2
<1>7. TypeOK'
  <2>1. brelse(refcnt[b]) \in 0..UintMax /\ brelse(bpin(refcnt[b])) \in 0..UintMax
    BY <1>4, RefcntRange DEF TypeOK
  <2>2. refcnt' \in [Block -> 0..UintMax]
    BY SMTT(40), <1>4, <2>1 DEF LogWrite, TypeOK
  <2>3. wrote' \in [Proc -> SUBSET Block]
    BY <1>4 DEF LogWrite, TypeOK
  <2>4. pc' \in [Proc -> PcStates] /\ bp' \in [Proc -> Block \cup {NoBlock}]
    BY DEF LogWrite, TypeOK, PcStates
  <2> QED
    BY <1>2, <1>6, <2>2, <2>3, <2>4 DEF TypeOK, PcStates
<1>8. WhoInv'
  BY <1>1, <1>2, <1>3, SameRoles
<1>9. LoopInv'
  <2>1. p \in Ops' /\ InOp(p)
    BY <1>1 DEF Ops, InOp
  <2>2. ~committing /\ \A q \in Proc : ~InCommit(q)
    BY <2>1 DEF WhoInv, Ops
  <2>3. \A q \in Proc : pc'[q] \notin {"write_log", "install", "write_head", "end_commit"}
    BY <1>3, <2>2 DEF InCommit
  <2> QED
    BY <1>1, <1>2, <2>1, <2>2, <2>3 DEF LoopInv
<1>10. CallInv'
  <2>1. ASSUME NEW q \in Proc, InOp(q)'
        PROVE  wrote'[q] \subseteq Range(lh')
    BY <1>1, <1>3, <1>4, <1>6, <2>1 DEF CallInv
  <2>2. ASSUME NEW q \in Proc, pc'[q] \in {"log_write", "logging"}
        PROVE  /\ bp'[q] \in Block
               /\ bp'[q] \in wrote'[q] \/ Cardinality(wrote'[q]) < OpBlocks
    <3>1. q \in Proc \ {p}
      BY <1>1, <2>2
    <3> QED
      BY <1>1, <2>2, <3>1 DEF CallInv
  <2> QED
    BY <2>1, <2>2 DEF CallInv
<1>11. Len(lh') + Cardinality(Unspent') <= size - 2
  <2>1. IsFiniteSet(wrote[p]) /\ c \in Nat
    BY LogConstants, FS_Subset, FS_CardinalityType DEF TypeOK
  <2>2. CASE b \in wrote[p]
    <3>1. lh' = lh
      BY <1>4, <1>5, <2>2
    <3>2. wrote' = wrote
      <4>1. wrote[p] \cup {b} = wrote[p]
        BY <2>2
      <4>2. wrote' = [wrote EXCEPT ![p] = wrote[p] \cup {b}]
        BY DEF LogWrite
      <4> QED
        BY <4>1, <4>2 DEF TypeOK
    <3> QED
      BY <1>3, <3>1, <3>2, SameCalls DEF SpaceInv
  <2>3. CASE b \notin wrote[p]
    <3>1. c < OpBlocks /\ Cardinality(wrote'[p]) = c + 1
      BY ZenonT(40), <1>1, <1>4, <2>1, <2>3, FS_AddElement
    <3>2. c + 1 \in 1..OpBlocks /\ c + 1 > c
      BY <2>1, <3>1, ConstantTypes
    <3>3. <<p, c + 1>> \in Unspent
      BY <1>1, <3>2 DEF Unspent, InOp
    <3>4. Unspent' = Unspent \ {<<p, c + 1>>}
      <4>1. ASSUME NEW q \in Proc, NEW i \in 1..OpBlocks
            PROVE  <<q, i>> \in Unspent' <=> <<q, i>> \in Unspent \ {<<p, c + 1>>}
        <5>1. <<q, i>> \in Unspent <=> InOp(q) /\ i > Cardinality(wrote[q])
          BY DEF Unspent
        <5>2. <<q, i>> \in Unspent' <=> InOp(q)' /\ i > Cardinality(wrote'[q])
          BY DEF Unspent
        <5>3. CASE q = p
          <6>1. i > c + 1 <=> i > c /\ i # c + 1
            BY <2>1, ConstantTypes
          <6> QED
            BY <5>1, <5>2, <5>3, <6>1, <1>3, <3>1
        <5>4. CASE q # p
          BY <5>1, <5>2, <5>4, <1>1, <1>3
        <5> QED
          BY <5>3, <5>4
      <4>2. Unspent' \subseteq Proc \X (1..OpBlocks)
            /\ Unspent \subseteq Proc \X (1..OpBlocks)
        BY DEF Unspent
      <4> QED
        BY <4>1, <4>2
    <3>5. Cardinality(Unspent') = Cardinality(Unspent) - 1
      BY SMTT(40), <3>3, <3>4, UnspentCount, FS_RemoveElement
    <3> QED
      BY <1>6, <3>5, UnspentCount, ConstantTypes DEF SpaceInv
  <2> QED
    BY <2>2, <2>3
<1>12. SpaceInv'
  BY <1>2, <1>11 DEF SpaceInv
<1> QED
  BY <1>7, <1>8, <1>9, <1>10, <1>12
-----------------------------------------------------------------------------
(* end_op and commit.                                                      *)

LEMMA EndOpInv ==
  ASSUME SmallCalls, TypeOK, LogInv, NEW p \in Proc, EndOp(p)
  PROVE  TypeOK' /\ LogInv' /\ panicked' = FALSE
<1> USE DEF LogInv
<1>1. p \in Ops /\ ~committing /\ boot = "up" /\ pc[p] = "op"
  BY DEF EndOp, Running, WhoInv, Ops, InOp
<1>2. UNCHANGED <<bp, wrote, lh, tail, cache, refcnt, head, dlog, home, boot,
                  reinstalled, crashes>>
  BY DEF EndOp, memVars, diskVars
<1>3. outstanding' = outstanding - 1 /\ panicked' = FALSE /\ committing = FALSE
  <2>1. committing = FALSE
    BY <1>1, Zenon DEF TypeOK
  <2> QED
    BY <2>1, Zenon DEF EndOp
<1>4. CASE outstanding = 1
  <2>1. committing' = TRUE
        /\ pc' = [pc EXCEPT ![p] = IF Len(lh) > 0 THEN "write_log" ELSE "end_commit"]
    BY <1>1, <1>4 DEF EndOp
  <2>2. /\ pc'[p] = IF Len(lh) > 0 THEN "write_log" ELSE "end_commit"
        /\ \A q \in Proc \ {p} : pc'[q] = pc[q]
        /\ pc' \in [Proc -> PcStates]
    BY <2>1 DEF TypeOK, PcStates
  <2>3. IsFiniteSet(Ops \ {p}) /\ Cardinality(Ops \ {p}) = 0
    <3>1. Cardinality(Ops) = 1 /\ IsFiniteSet(Ops)
      BY <1>4, OpsCount DEF WhoInv
    <3>2. IsFiniteSet(Ops \ {p}) /\ Cardinality(Ops \ {p}) = Cardinality(Ops) - 1
      BY <1>1, <3>1, FS_RemoveElement
    <3> QED
      BY <3>1, <3>2
  <2>4. Ops \ {p} = {}
    BY <2>3, FS_EmptySet
  <2>5. \A q \in Proc \ {p} : ~InOp(q) /\ ~InCommit(q)
    BY <1>1, <2>4 DEF Ops, WhoInv
  <2>6. /\ \A q \in Proc \ {p} : ~InOp(q)' /\ ~InCommit(q)'
        /\ ~InOp(p)' /\ InCommit(p)'
    BY <2>2, <2>5 DEF InOp, InCommit
  <2>7. Ops' = {} /\ Unspent' = {}
    BY <2>6 DEF Ops, Unspent
  <2>8. Cardinality(Ops') = 0 /\ Cardinality(Unspent') = 0
    BY <2>7, FS_EmptySet
  <2>9. TypeOK'
    <3>1. outstanding' \in Int
      BY <1>3 DEF TypeOK
    <3>2. committing' \in BOOLEAN /\ panicked' \in BOOLEAN
      BY <1>3, <2>1, Zenon
    <3> QED
      BY <1>2, <2>2, <3>1, <3>2 DEF TypeOK, PcStates
  <2>10. WhoInv'
    BY <1>1, <1>2, <1>3, <1>4, <2>1, <2>6, <2>7, <2>8 DEF WhoInv
  <2>11. LoopInv'
    <3>1. tail = 0 /\ Len(lh) \in Nat /\ (Len(lh) = 0 => lh = <<>>)
      BY <1>1 DEF LoopInv, TypeOK
    <3>2. \A q \in Proc \ {p} :
            pc'[q] \notin {"write_log", "install", "write_head", "end_commit"}
      BY <2>6 DEF InCommit
    <3>3. committing'
      BY <2>1
    <3> QED
      BY <1>1, <1>2, <2>2, <3>1, <3>2, <3>3 DEF LoopInv
  <2>12. CallInv'
    BY <2>6, NoCallsInv
  <2>13. SpaceInv'
    BY <1>2, <2>8, HeaderFits DEF SpaceInv
  <2> QED
    BY <1>3, <2>9, <2>10, <2>11, <2>12, <2>13
<1>5. CASE outstanding # 1
  <2>1. committing' = committing /\ pc' = Wakeup([pc EXCEPT ![p] = "idle"])
    BY <1>5 DEF EndOp
  <2>2. /\ pc'[p] = "idle"
        /\ \A q \in Proc \ {p} : pc'[q] = IF pc[q] = "sleeping" THEN "begin" ELSE pc[q]
        /\ pc' \in [Proc -> PcStates]
    BY <2>1 DEF TypeOK, PcStates, Wakeup
  <2>3. \A q \in Proc \ {p} : (InOp(q)' <=> InOp(q)) /\ (InCommit(q)' <=> InCommit(q))
    BY <2>2 DEF InOp, InCommit
  <2>4. ~InOp(p)' /\ ~InCommit(p)' /\ ~InCommit(p)
    BY <1>1, <2>2 DEF InOp, InCommit
  <2>5. Ops' = Ops \ {p}
    BY <2>3, <2>4 DEF Ops
  <2>6. /\ IsFiniteSet(Ops') /\ Cardinality(Ops') = Cardinality(Ops) - 1
        /\ outstanding = Cardinality(Ops)
    BY <1>1, <2>5, OpsCount, FS_RemoveElement DEF WhoInv
  <2>7. Ops' # {}
    <3>1. Cardinality(Ops') # 0
      BY <1>5, <2>6, OpsCount
    <3> QED
      BY Zenon, <2>6, <3>1, FS_EmptySet
  <2>8. TypeOK'
    <3>1. outstanding' \in Int
      BY <1>3 DEF TypeOK
    <3>2. committing' \in BOOLEAN /\ panicked' \in BOOLEAN
      BY <1>1, <1>3, <2>1, Zenon
    <3> QED
      BY <1>2, <2>2, <3>1, <3>2 DEF TypeOK, PcStates
  <2>9. WhoInv'
    <3>1. outstanding' = Cardinality(Ops')
      BY <1>3, <2>6
    <3>2. ~committing' /\ boot' = "up"
      BY <1>1, <1>2, <2>1
    <3>3. \A q \in Proc : ~InCommit(q)'
      BY <1>1, <2>3, <2>4 DEF WhoInv
    <3> QED
      BY <3>1, <3>2, <3>3 DEF WhoInv
  <2>10. LoopInv'
    <3>1. tail = 0 /\ boot' = "up"
      BY <1>1, <1>2 DEF LoopInv
    <3>2. \A q \in Proc : ~InCommit(q)'
      BY <1>1, <2>3, <2>4 DEF WhoInv
    <3>3. \A q \in Proc :
            pc'[q] \notin {"write_log", "install", "write_head", "end_commit"}
      BY <3>2 DEF InCommit
    <3> QED
      BY <1>2, <2>7, <3>1, <3>3 DEF LoopInv
  <2>11. CallInv'
    <3>1. \A q \in Proc : pc'[q] \in {"log_write", "logging"} => pc[q] = pc'[q]
      BY <2>2
    <3> QED
      BY <1>2, <2>3, <2>4, <3>1 DEF CallInv
  <2>12. SpaceInv'
    <3>1. Unspent' \in SUBSET Unspent
      BY <1>2, <2>3, <2>4 DEF Unspent
    <3>2. Cardinality(Unspent') \in Nat /\ Cardinality(Unspent') <= Cardinality(Unspent)
      BY <3>1, UnspentCount, FS_Subset, FS_CardinalityType
    <3>3. Len(lh) \in Nat
      BY DEF TypeOK
    <3> QED
      BY <1>2, <3>2, <3>3, UnspentCount, ConstantTypes DEF SpaceInv
  <2> QED
    BY <1>3, <2>8, <2>9, <2>10, <2>11, <2>12
<1> QED
  BY Zenon, <1>4, <1>5

\* What every step of a commit keeps: who commits, and the free space.
LEMMA CommitStep ==
  ASSUME SmallCalls, TypeOK, LogInv, NEW p \in Proc, InCommit(p), InCommit(p)',
         \A q \in Proc \ {p} : pc'[q] = pc[q],
         UNCHANGED <<wrote, boot, outstanding, committing>>,
         Len(lh') \in Nat, Len(lh') <= Len(lh), head' \in {head, lh, <<>>}
  PROVE  /\ WhoInv' /\ CallInv' /\ SpaceInv' /\ committing' /\ boot' = "up"
         /\ \A q \in Proc \ {p} : pc'[q] \notin {"write_log", "install",
                                                 "write_head", "end_commit"}
<1> USE DEF LogInv
<1>1. committing /\ boot = "up"
      /\ (\A q \in Proc : ~InOp(q)) /\ \A q \in Proc \ {p} : ~InCommit(q)
  BY CommitterAlone
<1>2. ~InOp(p)'
  BY DEF InOp, InCommit
<1>3. \A q \in Proc : (InOp(q)' <=> InOp(q)) /\ (InCommit(q)' <=> InCommit(q))
  BY <1>1, <1>2 DEF InOp, InCommit
<1>4. WhoInv'
  BY <1>1, <1>3, SameRoles
<1>5. CallInv'
  BY <1>1, <1>3, NoCallsInv
<1>6. Cardinality(Unspent') = Cardinality(Unspent) /\ Cardinality(Unspent) \in Nat
  BY <1>3, SameCalls, UnspentCount
<1>7. Len(lh) \in Nat /\ Len(lh) <= size - 2 /\ Len(head) \in Nat
  BY HeaderFits DEF TypeOK
<1>8. Len(lh') + Cardinality(Unspent') <= size - 2
  BY <1>6, <1>7, ConstantTypes DEF SpaceInv
<1>9. Len(head') <= size - 2
  <2>1. Len(<<>>) = 0
    OBVIOUS
  <2> QED
    BY <1>7, <2>1, ConstantTypes DEF SpaceInv
<1>10. SpaceInv'
  BY <1>8, <1>9 DEF SpaceInv
<1> QED
  BY <1>1, <1>4, <1>5, <1>10 DEF InCommit

LEMMA WriteLogInv ==
  ASSUME SmallCalls, TypeOK, LogInv, NEW p \in Proc, WriteLog(p)
  PROVE  TypeOK' /\ LogInv'
<1> USE DEF LogInv
<1>1. /\ pc[p] = "write_log" /\ tail < Len(lh)
      /\ \A q \in Proc \ {p} : pc'[q] = pc[q]
      /\ \/ tail' = tail + 1 /\ tail + 1 < Len(lh) /\ pc' = pc
         \/ tail' = 0 /\ pc' = [pc EXCEPT ![p] = "write_head"]
  BY DEF WriteLog, LoopInv, TypeOK
<1>2. UNCHANGED <<bp, wrote, lh, outstanding, committing, refcnt, head, home,
                  boot, reinstalled, panicked, crashes>>
  BY DEF WriteLog, sysVars
<1>3. pc'[p] \in {"write_log", "write_head"} /\ pc' \in [Proc -> PcStates]
  BY SMTT(40), <1>1 DEF TypeOK, PcStates
<1>4. InCommit(p) /\ InCommit(p)'
  BY <1>1, <1>3 DEF InCommit
<1>5. tail \in Nat /\ Len(lh) \in Nat /\ Len(lh) <= LOGSIZE
  BY HeaderFits DEF TypeOK
<1>6. tail + 1 \in 1..Len(lh) /\ tail + 1 \in 1..LOGSIZE
  BY <1>1, <1>5, ConstantTypes
<1>7. TypeOK'
  <2>1. lh[tail + 1] \in Block
    BY <1>6 DEF TypeOK
  <2>2. bread(lh[tail + 1]) \in Val
    BY <2>1 DEF bread, TypeOK
  <2>3. dlog' \in [1..LOGSIZE -> Val] /\ cache' \in [Block -> Val \cup {NotCached}]
    BY SMTT(40), <2>1, <2>2, <1>6 DEF WriteLog, TypeOK
  <2>4. tail' \in 0..LOGSIZE
    BY <1>1, <1>5, <1>6, ConstantTypes
  <2> QED
    BY <1>2, <1>3, <2>3, <2>4 DEF TypeOK, PcStates
<1>8. /\ WhoInv' /\ CallInv' /\ SpaceInv' /\ committing' /\ boot' = "up"
      /\ \A q \in Proc \ {p} : pc'[q] \notin {"write_log", "install",
                                              "write_head", "end_commit"}
  BY <1>1, <1>2, <1>4, <1>5, CommitStep
<1>9. LoopInv'
  <2>1. lh # <<>>
    BY <1>1, <1>5
  <2>2. /\ pc'[p] = "write_log" => tail' < Len(lh)
        /\ pc'[p] = "write_head" => tail' = 0
    BY <1>1 DEF TypeOK
  <2> QED
    BY <1>2, <1>3, <1>8, <2>1, <2>2 DEF LoopInv
<1> QED
  BY <1>7, <1>8, <1>9

LEMMA WriteHeadInv ==
  ASSUME SmallCalls, TypeOK, LogInv, NEW p \in Proc, WriteHead(p)
  PROVE  TypeOK' /\ LogInv'
<1> USE DEF LogInv
<1>1. /\ pc[p] = "write_head" /\ pc'[p] = "install"
      /\ \A q \in Proc \ {p} : pc'[q] = pc[q]
      /\ head' = lh /\ pc' \in [Proc -> PcStates]
  BY DEF WriteHead, TypeOK, PcStates
<1>2. UNCHANGED <<bp, wrote, lh, outstanding, committing, tail, cache, refcnt,
                  dlog, home, boot, reinstalled, panicked, crashes>>
  BY DEF WriteHead, logVars, memVars, sysVars
<1>3. InCommit(p) /\ InCommit(p)'
  BY <1>1 DEF InCommit
<1>4. Len(lh) \in Nat /\ tail = 0 /\ lh # <<>>
  BY <1>1 DEF TypeOK, LoopInv
<1>5. TypeOK'
  BY <1>1, <1>2 DEF TypeOK, PcStates
<1>6. /\ WhoInv' /\ CallInv' /\ SpaceInv' /\ committing' /\ boot' = "up"
      /\ \A q \in Proc \ {p} : pc'[q] \notin {"write_log", "install",
                                              "write_head", "end_commit"}
  BY <1>1, <1>2, <1>3, <1>4, CommitStep
<1>7. LoopInv'
  <2>1. tail' < Len(lh')
    BY <1>2, <1>4 DEF TypeOK
  <2> QED
    BY <1>1, <1>6, <2>1 DEF LoopInv
<1> QED
  BY <1>5, <1>6, <1>7

\* The part of install_trans that commit and recovery share.
LEMMA InstallBlockTypes ==
  ASSUME TypeOK, tail < Len(lh), Len(lh) <= LOGSIZE, InstallBlock
  PROVE  /\ home' \in [Block -> Val]
         /\ cache' \in [Block -> Val \cup {NotCached}]
         /\ refcnt' \in [Block -> 0..UintMax]
         /\ lh[tail + 1] \in Block
         /\ tail + 1 \in 0..LOGSIZE
<1>1. tail \in Nat /\ Len(lh) \in Nat
  BY DEF TypeOK
<1>2. tail + 1 \in 1..Len(lh) /\ tail + 1 \in 1..LOGSIZE /\ tail + 1 \in 0..LOGSIZE
  BY <1>1, ConstantTypes
<1>3. lh[tail + 1] \in Block /\ dlog[tail + 1] \in Val
  BY SMTT(40), <1>2 DEF TypeOK
<1>4. brelse(bunpin(bget(refcnt[lh[tail + 1]]))) \in 0..UintMax
  BY Zenon, <1>3, RefcntRange DEF TypeOK
<1>5. refcnt' \in [Block -> 0..UintMax]
  BY <1>3, <1>4 DEF InstallBlock, TypeOK
<1>6. home' \in [Block -> Val] /\ cache' \in [Block -> Val \cup {NotCached}]
  BY <1>3 DEF InstallBlock, TypeOK
<1> QED
  BY <1>2, <1>3, <1>5, <1>6

LEMMA InstallInv ==
  ASSUME SmallCalls, TypeOK, LogInv, NEW p \in Proc, Install(p)
  PROVE  TypeOK' /\ LogInv'
<1> USE DEF LogInv
<1>1. /\ pc[p] = "install" /\ tail < Len(lh) /\ tail' = tail + 1
      /\ pc' = IF tail + 1 < Len(lh) THEN pc ELSE [pc EXCEPT ![p] = "erase"]
  BY DEF Install, LoopInv
<1>2. UNCHANGED <<bp, wrote, lh, outstanding, committing, head, dlog,
                  boot, reinstalled, panicked, crashes>>
  BY DEF Install, sysVars
<1>3. /\ pc' \in [Proc -> PcStates] /\ \A q \in Proc \ {p} : pc'[q] = pc[q]
      /\ \/ pc'[p] = "install" /\ tail' < Len(lh)
         \/ pc'[p] = "erase"
  BY <1>1 DEF TypeOK, PcStates
<1>4. InCommit(p) /\ InCommit(p)'
  BY <1>1, <1>3 DEF InCommit
<1>5. Len(lh) \in Nat /\ Len(lh) <= LOGSIZE
  BY HeaderFits
<1>6. TypeOK'
  <2>1. InstallBlock
    BY DEF Install
  <2>2. /\ home' \in [Block -> Val]
        /\ cache' \in [Block -> Val \cup {NotCached}]
        /\ refcnt' \in [Block -> 0..UintMax]
        /\ tail' \in 0..LOGSIZE
    BY <1>1, <1>5, <2>1, InstallBlockTypes
  <2> QED
    BY <1>2, <1>3, <2>2 DEF TypeOK, PcStates
<1>7. /\ WhoInv' /\ CallInv' /\ SpaceInv' /\ committing' /\ boot' = "up"
      /\ \A q \in Proc \ {p} : pc'[q] \notin {"write_log", "install",
                                              "write_head", "end_commit"}
  BY <1>2, <1>3, <1>4, <1>5, CommitStep
<1>8. LoopInv'
  BY <1>2, <1>3, <1>7 DEF LoopInv
<1> QED
  BY <1>6, <1>7, <1>8

LEMMA EraseInv ==
  ASSUME SmallCalls, TypeOK, LogInv, NEW p \in Proc, Erase(p)
  PROVE  TypeOK' /\ LogInv'
<1> USE DEF LogInv
<1>1. /\ pc[p] = "erase" /\ pc'[p] = "end_commit"
      /\ \A q \in Proc \ {p} : pc'[q] = pc[q]
      /\ lh' = <<>> /\ head' = <<>> /\ tail' = 0 /\ pc' \in [Proc -> PcStates]
  BY DEF Erase, TypeOK, PcStates
<1>2. UNCHANGED <<bp, wrote, outstanding, committing, cache, refcnt, dlog,
                  home, boot, reinstalled, panicked, crashes>>
  BY DEF Erase, memVars, sysVars
<1>3. InCommit(p) /\ InCommit(p)'
  BY <1>1 DEF InCommit
<1>4. TypeOK'
  <2>1. <<>> \in Seq(Block) /\ 0 \in 0..LOGSIZE
    BY ConstantTypes
  <2> QED
    BY <1>1, <1>2, <2>1 DEF TypeOK, PcStates
<1>5. Len(lh') = 0 /\ Len(lh) \in Nat
  BY <1>1 DEF TypeOK
<1>6. /\ WhoInv' /\ CallInv' /\ SpaceInv' /\ committing' /\ boot' = "up"
      /\ \A q \in Proc \ {p} : pc'[q] \notin {"write_log", "install",
                                              "write_head", "end_commit"}
  BY <1>1, <1>2, <1>3, <1>5, CommitStep
<1>7. LoopInv'
  BY <1>1, <1>6 DEF LoopInv
<1> QED
  BY <1>4, <1>6, <1>7

LEMMA EndCommitInv ==
  ASSUME SmallCalls, TypeOK, LogInv, NEW p \in Proc, EndCommit(p)
  PROVE  TypeOK' /\ LogInv'
<1> USE DEF LogInv
<1>1. /\ pc[p] = "end_commit" /\ pc'[p] = "idle"
      /\ \A q \in Proc \ {p} : pc'[q] = IF pc[q] = "sleeping" THEN "begin" ELSE pc[q]
      /\ committing' = FALSE /\ pc' \in [Proc -> PcStates]
  BY DEF EndCommit, Wakeup, TypeOK, PcStates
<1>2. UNCHANGED <<bp, wrote, lh, outstanding, tail, cache, refcnt,
                  head, dlog, home, boot, reinstalled, panicked, crashes>>
  BY DEF EndCommit, memVars, diskVars, sysVars
<1>3. InCommit(p)
  BY <1>1 DEF InCommit
<1>4. boot = "up" /\ committing
      /\ (\A q \in Proc : ~InOp(q)) /\ \A q \in Proc \ {p} : ~InCommit(q)
  BY <1>3, CommitterAlone
<1>5. \A q \in Proc : ~InOp(q)' /\ ~InCommit(q)'
  BY <1>1, <1>4 DEF InOp, InCommit
<1>6. TypeOK'
  <2>1. committing' \in BOOLEAN
    BY <1>1, Zenon
  <2> QED
    BY <1>1, <1>2, <2>1 DEF TypeOK, PcStates
<1>7. \A q \in Proc : InOp(q)' <=> InOp(q)
  BY <1>4, <1>5
<1>8. Cardinality(Ops') = Cardinality(Ops) /\ Cardinality(Unspent') = Cardinality(Unspent)
  BY <1>2, <1>7, SameCalls
<1>9. WhoInv'
  <2>1. outstanding' = Cardinality(Ops')
    BY <1>2, <1>8 DEF WhoInv
  <2> QED
    BY <1>1, <1>2, <1>4, <1>5, <2>1 DEF WhoInv
<1>10. LoopInv'
  <2>1. tail = 0 /\ lh = <<>>
    BY <1>1 DEF LoopInv
  <2>2. \A q \in Proc : pc'[q] \notin {"write_log", "install", "write_head", "end_commit"}
    BY <1>5 DEF InCommit
  <2> QED
    BY <1>2, <1>4, <2>1, <2>2 DEF LoopInv
<1>11. CallInv'
  BY <1>5, NoCallsInv
<1>12. SpaceInv'
  BY <1>2, <1>8 DEF SpaceInv
<1> QED
  BY <1>6, <1>9, <1>10, <1>11, <1>12
-----------------------------------------------------------------------------
(* Buffer cache, crash and recovery.                                       *)

\* A step that leaves alone everything the invariant mentions.
LEMMA SameLog ==
  ASSUME LogInv, UNCHANGED <<pc, bp, wrote, lh, outstanding, committing, tail,
                             head, boot>>
  PROVE  LogInv'
<1> USE DEF LogInv
<1>1. \A q \in Proc : (InOp(q)' <=> InOp(q)) /\ (InCommit(q)' <=> InCommit(q))
  BY DEF InOp, InCommit
<1>2. /\ Ops' = Ops /\ Cardinality(Ops') = Cardinality(Ops)
      /\ Cardinality(Unspent') = Cardinality(Unspent)
  BY <1>1, SameCalls
<1>3. WhoInv'
  BY <1>1, <1>2 DEF WhoInv
<1>4. LoopInv'
  BY <1>2 DEF LoopInv
<1>5. CallInv'
  BY <1>1 DEF CallInv
<1>6. SpaceInv'
  BY <1>2 DEF SpaceInv
<1> QED
  BY <1>3, <1>4, <1>5, <1>6

\* Readers and bget touch the cache only.
LEMMA CacheInv ==
  ASSUME TypeOK, LogInv, NEW b \in Block, Read(b) \/ Recycle(b)
  PROVE  TypeOK' /\ LogInv'
<1>1. UNCHANGED <<pc, bp, wrote, lh, outstanding, committing, tail, head,
                  refcnt, dlog, home, boot, reinstalled, panicked, crashes>>
  BY DEF Read, Recycle, procVars, logVars, diskVars, sysVars
<1>2. cache' \in [Block -> Val \cup {NotCached}]
  BY Zenon DEF Read, Recycle, TypeOK
<1>3. TypeOK'
  BY <1>1, <1>2 DEF TypeOK
<1>4. LogInv'
  BY <1>1, SameLog
<1> QED
  BY <1>3, <1>4

\* Until the boot process is done every process is idle.
Booting ==
  /\ \A p \in Proc : pc[p] = "idle"
  /\ outstanding = 0
  /\ committing = FALSE
  /\ Len(lh) \in Nat /\ Len(lh) <= size - 2 /\ Len(head) <= size - 2
  /\ boot = "up" => lh = <<>> /\ tail = 0
  /\ boot = "install" => tail < Len(lh)
  /\ boot = "read_head" => tail = 0

LEMMA BootInv == Booting => LogInv
<1> SUFFICES ASSUME Booting PROVE LogInv
  OBVIOUS
<1> USE DEF Booting
<1>1. \A p \in Proc : ~InOp(p) /\ ~InCommit(p)
  BY DEF InOp, InCommit
<1>2. Ops = {} /\ Unspent = {}
  BY <1>1 DEF Ops, Unspent
<1>3. Cardinality(Ops) = 0 /\ Cardinality(Unspent) = 0
  BY <1>2, FS_EmptySet
<1>4. WhoInv
  BY <1>1, <1>3 DEF WhoInv
<1>5. LoopInv
  BY DEF LoopInv
<1>6. CallInv
  BY <1>1 DEF CallInv, InOp
<1>7. SpaceInv
  BY <1>3 DEF SpaceInv
<1> QED
  BY <1>4, <1>5, <1>6, <1>7 DEF LogInv

LEMMA InitInv ==
  ASSUME SmallCalls, Init
  PROVE  TypeOK /\ LogInv
<1> USE DEF Init
<1>1. TypeOK
  <2>1. dlog \in [1..LOGSIZE -> Val] /\ home \in [Block -> Val]
    BY LogConstants
  <2>2. <<>> \in Seq(Block) /\ 0 \in 0..LOGSIZE /\ 0 \in 0..UintMax
    BY ConstantTypes
  <2>3. refcnt \in [Block -> 0..UintMax]
    BY <2>2
  <2>4. committing \in BOOLEAN /\ panicked \in BOOLEAN
    BY Zenon
  <2> QED
    BY <2>1, <2>2, <2>3, <2>4 DEF TypeOK
<1>2. Len(lh) = 0 /\ Len(head) = 0 /\ 0 <= size - 2
  BY ConstantTypes DEF SmallCalls
<1>3. LogInv
  BY <1>2, BootInv DEF Booting
<1> QED
  BY <1>1, <1>3

LEMMA CrashInv ==
  ASSUME SmallCalls, TypeOK, LogInv, Crash
  PROVE  TypeOK' /\ LogInv'
<1>1. TypeOK'
  <2> USE DEF Crash, diskVars
  <2>1. <<>> \in Seq(Block) /\ 0 \in 0..LOGSIZE /\ 0 \in 0..UintMax
    BY ConstantTypes
  <2>2. refcnt' \in [Block -> 0..UintMax]
    BY <2>1
  <2>3. crashes' \in Nat
    BY DEF TypeOK
  <2>4. committing' \in BOOLEAN /\ panicked' \in BOOLEAN
    BY Zenon
  <2> QED
    BY <2>1, <2>2, <2>3, <2>4 DEF TypeOK
<1>2. (\A p \in Proc : pc[p] = "idle")' /\ outstanding' = 0 /\ committing' = FALSE
      /\ tail' = 0 /\ boot' = "read_head" /\ lh' = <<>> /\ head' = head
  BY DEF Crash, diskVars
<1>3. Len(lh') = 0 /\ 0 <= size - 2 /\ Len(head') <= size - 2
  BY <1>2, ConstantTypes DEF SmallCalls, LogInv, SpaceInv
<1>4. LogInv'
  <2>1. Booting'
    BY <1>2, <1>3 DEF Booting
  <2> QED
    BY <2>1, BootInv, PTL
<1> QED
  BY <1>1, <1>4

LEMMA RecoverInv ==
  ASSUME SmallCalls, TypeOK, LogInv, Recover
  PROVE  TypeOK' /\ LogInv'
<1>1. UNCHANGED <<pc, bp, wrote, outstanding, committing, dlog, panicked, crashes>>
  BY DEF Recover, ReadHead, RecoverBlock, ClearLog, procVars, memVars, diskVars
<1>2. boot # "up"
  BY DEF Recover, ReadHead, RecoverBlock, ClearLog
<1>3. /\ \A q \in Proc : pc'[q] = "idle"
      /\ committing' = FALSE
  <2>1. ~committing' /\ \A q \in Proc : pc'[q] = "idle"
    BY <1>1, <1>2 DEF LogInv, WhoInv
  <2>2. committing' = FALSE
    BY <1>1, <2>1, Zenon DEF TypeOK
  <2> QED
    BY <2>1, <2>2
<1>4. outstanding' = 0
  <2>1. Ops = {}
    BY <1>1, <1>3 DEF Ops, InOp
  <2> QED
    BY <1>1, <2>1, FS_EmptySet DEF LogInv, WhoInv
<1>5. /\ Len(lh) \in Nat /\ Len(lh) <= size - 2 /\ Len(lh) <= LOGSIZE
      /\ Len(head) \in Nat /\ Len(head) <= size - 2
  BY HeaderFits DEF TypeOK, LogInv, SpaceInv
<1>6. CASE ReadHead
  <2>1. /\ lh' = head /\ head' = head /\ tail' = 0 /\ tail = 0
        /\ boot' = IF Len(head) > 0 THEN "install" ELSE "clear"
        /\ UNCHANGED <<cache, refcnt, home, reinstalled>>
    BY <1>6 DEF ReadHead, memVars, diskVars, LogInv, LoopInv
  <2>2. TypeOK'
    BY <1>1, <2>1 DEF TypeOK
  <2>3. LogInv'
    <3>1. Booting'
      BY <1>3, <1>4, <1>5, <2>1 DEF Booting
    <3> QED
      BY <3>1, BootInv, PTL
  <2> QED
    BY <2>2, <2>3
<1>7. CASE RecoverBlock
  <2>1. /\ lh' = lh /\ head' = head /\ tail' = tail + 1 /\ tail < Len(lh)
        /\ boot' = IF tail + 1 < Len(lh) THEN "install" ELSE "clear"
        /\ reinstalled' = reinstalled \cup {lh[tail + 1]} /\ InstallBlock
    BY <1>7 DEF RecoverBlock, LogInv, LoopInv
  <2>2. /\ home' \in [Block -> Val]
        /\ cache' \in [Block -> Val \cup {NotCached}]
        /\ refcnt' \in [Block -> 0..UintMax]
        /\ lh[tail + 1] \in Block
        /\ tail' \in 0..LOGSIZE
    BY <1>5, <2>1, InstallBlockTypes
  <2>3. TypeOK'
    BY <1>1, <2>1, <2>2 DEF TypeOK
  <2>4. LogInv'
    <3>1. Booting'
      BY <1>3, <1>4, <1>5, <2>1 DEF Booting
    <3> QED
      BY <3>1, BootInv, PTL
  <2> QED
    BY <2>3, <2>4
<1>8. CASE ClearLog
  <2>1. /\ lh' = <<>> /\ head' = <<>> /\ tail' = 0 /\ boot' = "up"
        /\ UNCHANGED <<cache, refcnt, home, reinstalled>>
    BY <1>8 DEF ClearLog, memVars
  <2>2. Len(lh') = 0 /\ Len(head') = 0 /\ 0 <= size - 2
    BY <2>1, ConstantTypes DEF SmallCalls
  <2>3. <<>> \in Seq(Block) /\ 0 \in 0..LOGSIZE
    BY ConstantTypes
  <2>4. TypeOK'
    BY <1>1, <2>1, <2>3 DEF TypeOK
  <2>5. LogInv'
    <3>1. Booting'
      BY <1>3, <1>4, <2>1, <2>2 DEF Booting
    <3> QED
      BY <3>1, BootInv, PTL
  <2> QED
    BY <2>4, <2>5
<1> QED
  BY <1>6, <1>7, <1>8 DEF Recover
-----------------------------------------------------------------------------
(* The theorems.                                                           *)

LEMMA StepInv ==
  ASSUME SmallCalls, TypeOK, LogInv, [Next]_vars
  PROVE  TypeOK' /\ LogInv'
<1>1. ASSUME NEW p \in Proc, CallStep(p)
      PROVE  TypeOK' /\ LogInv'
  BY Zenon, <1>1, BeginWaitInv, BeginOpInv, ModifyInv, LogWriteTestsInv, LogWriteInv,
     EndOpInv, WriteLogInv, WriteHeadInv, InstallInv, EraseInv, EndCommitInv
     DEF CallStep, Commit
<1>2. ASSUME NEW b \in Block, Read(b) \/ Recycle(b)
      PROVE  TypeOK' /\ LogInv'
  BY <1>2, CacheInv
<1>3. CASE Recover
  BY <1>3, RecoverInv
<1>4. CASE Crash
  BY <1>4, CrashInv
<1>5. CASE UNCHANGED vars
  <2>1. UNCHANGED <<pc, bp, wrote, lh, outstanding, committing, tail, cache,
                    head, refcnt, dlog, home, boot, reinstalled, panicked, crashes>>
    BY <1>5 DEF vars, procVars, logVars, memVars, diskVars, sysVars
  <2>2. TypeOK'
    BY <2>1 DEF TypeOK
  <2> QED
    BY <2>1, <2>2, SameLog
<1> QED
  BY <1>1, <1>2, <1>3, <1>4, <1>5 DEF Next, Core

\* The variables keep their types and the counting argument holds in every
\* reachable state, through any number of crashes and recoveries.
THEOREM LogInvariant ==
  ASSUME SmallCalls
  PROVE  Spec => [](TypeOK /\ LogInv)
<1>1. Init => TypeOK /\ LogInv
  BY InitInv
<1>2. (TypeOK /\ LogInv) /\ [Next]_vars => (TypeOK /\ LogInv)'
  BY StepInv
<1> QED
  BY <1>1, <1>2, PTL DEF Spec

LEMMA NoPanicStep ==
  ASSUME SmallCalls, TypeOK, LogInv, NoPanic, [Next]_vars
  PROVE  NoPanic'
<1> USE DEF NoPanic
<1>1. ASSUME NEW p \in Proc, LogWriteTests(p)
      PROVE  panicked' = panicked
  BY <1>1, LogWriteTestsPass
<1>2. ASSUME NEW p \in Proc, CallStep(p), ~LogWriteTests(p), ~EndOp(p)
      PROVE  panicked' = panicked
  BY <1>2 DEF CallStep, Commit, BeginWait, BeginOp, Modify, LogWrite, WriteLog,
     WriteHead, Install, Erase, EndCommit, sysVars
<1>3. ASSUME NEW p \in Proc, EndOp(p)
      PROVE  ~panicked'
  BY Zenon, <1>3, EndOpInv
<1>4. ASSUME NEW b \in Block, Read(b) \/ Recycle(b)
      PROVE  panicked' = panicked
  BY <1>4 DEF Read, Recycle, sysVars
<1>5. Recover => panicked' = panicked
  BY DEF Recover, ReadHead, RecoverBlock, ClearLog
<1>6. Crash => ~panicked'
  BY DEF Crash
<1>7. UNCHANGED vars => panicked' = panicked
  BY DEF vars, sysVars
<1> QED
  BY <1>1, <1>2, <1>3, <1>4, <1>5, <1>6, <1>7 DEF Next, Core

\* log_write and end_op never panic: the space begin_op reserves for a call
\* is there when the call's blocks come, whatever the interleaving.
THEOREM LogNeverPanics ==
  ASSUME SmallCalls
  PROVE  Spec => []NoPanic
<1>1. Init => NoPanic
  BY DEF Init, NoPanic
<1>2. TypeOK /\ LogInv /\ NoPanic /\ [Next]_vars => NoPanic'
  BY NoPanicStep
<1> QED
  BY <1>1, <1>2, LogInvariant, PTL DEF Spec

LEMMA SleeperStep ==
  ASSUME SmallCalls, TypeOK, LogInv, SleeperHasReason, [Next]_vars
  PROVE  SleeperHasReason'
<1>1. outstanding \in Nat /\ Len(lh) \in Nat
  BY OpsCount DEF LogInv, WhoInv, TypeOK
<1>2. ASSUME NEW p \in Proc, BeginWait(p)
      PROVE  SleeperHasReason'
  BY <1>2 DEF BeginWait, SleeperHasReason, NoSpace, logVars, TypeOK
<1>3. ASSUME NEW p \in Proc, BeginOp(p)
      PROVE  SleeperHasReason'
  <2>1. (outstanding + 1 + 1) * MAXOPBLOCKS
          = (outstanding + 1) * MAXOPBLOCKS + MAXOPBLOCKS
    BY <1>1, ConstantTypes
  <2>2. (outstanding + 1) * MAXOPBLOCKS \in Nat
    BY <1>1, ConstantTypes
  <2>3. NoSpace => NoSpace'
    BY <1>1, <1>3, <2>1, <2>2, ConstantTypes DEF NoSpace, BeginOp
  <2> QED
    BY <1>3, <2>3 DEF BeginOp, SleeperHasReason, TypeOK
<1>4. ASSUME NEW p \in Proc, NEW b \in Block, NEW v \in Val, Modify(p, b, v)
      PROVE  SleeperHasReason'
  BY <1>4 DEF Modify, SleeperHasReason, NoSpace, logVars, TypeOK
<1>5. ASSUME NEW p \in Proc, LogWriteTests(p)
      PROVE  SleeperHasReason'
  BY <1>5 DEF LogWriteTests, SleeperHasReason, NoSpace, logVars, TypeOK
<1>6. ASSUME NEW p \in Proc, LogWrite(p)
      PROVE  SleeperHasReason'
  <2>1. Len(lh') \in Nat /\ Len(lh) <= Len(lh')
    <3>1. bp[p] \in Block
      BY <1>6 DEF LogWrite, LogInv, CallInv
    <3>2. Len(Append(lh, bp[p])) = Len(lh) + 1
      BY <3>1 DEF TypeOK
    <3> QED
      BY <1>1, <1>6, <3>2 DEF LogWrite
  <2>2. (outstanding + 1) * MAXOPBLOCKS \in Nat
    BY <1>1, ConstantTypes
  <2>3. NoSpace => NoSpace'
    BY <1>1, <1>6, <2>1, <2>2, ConstantTypes DEF NoSpace, LogWrite
  <2> QED
    BY <1>6, <2>3 DEF LogWrite, SleeperHasReason, TypeOK
<1>7. ASSUME NEW p \in Proc, EndOp(p)
      PROVE  SleeperHasReason'
  BY SMTT(40), <1>7 DEF EndOp, Wakeup, SleeperHasReason, TypeOK
<1>8. ASSUME NEW p \in Proc, Commit(p)
      PROVE  SleeperHasReason'
  <2>1. committing
    BY <1>8 DEF Commit, WriteLog, WriteHead, Install, Erase, LogInv, WhoInv, InCommit
  <2>2. committing' = committing
    BY <1>8 DEF Commit, WriteLog, WriteHead, Install, Erase, logVars
  <2> QED
    BY <2>1, <2>2 DEF SleeperHasReason
<1>9. ASSUME NEW p \in Proc, EndCommit(p)
      PROVE  SleeperHasReason'
  BY <1>9 DEF EndCommit, Wakeup, SleeperHasReason, TypeOK
<1>10. ASSUME NEW b \in Block, Read(b) \/ Recycle(b)
       PROVE  SleeperHasReason'
  BY SMTT(40), <1>10 DEF Read, Recycle, SleeperHasReason, NoSpace, procVars, logVars
<1>11. CASE Recover
  <2>1. \A p \in Proc : pc'[p] = "idle"
    BY <1>11 DEF Recover, ReadHead, RecoverBlock, ClearLog, LogInv, WhoInv,
       procVars
  <2> QED
    BY <2>1 DEF SleeperHasReason
<1>12. CASE Crash
  BY <1>12 DEF Crash, SleeperHasReason
<1>13. CASE UNCHANGED vars
  BY <1>13 DEF vars, procVars, logVars, SleeperHasReason, NoSpace
<1> QED
  BY <1>2, <1>3, <1>4, <1>5, <1>6, <1>7, <1>8, <1>9, <1>10, <1>11, <1>12, <1>13
     DEF Next, Core, CallStep

\* begin_op's sleepers are never forgotten: whoever sleeps on &log still
\* has a commit or a full log to wait for.
THEOREM SleepersHaveReasons ==
  ASSUME SmallCalls
  PROVE  Spec => []SleeperHasReason
<1>1. Init => SleeperHasReason
  BY DEF Init, SleeperHasReason
<1>2. TypeOK /\ LogInv /\ SleeperHasReason /\ [Next]_vars => SleeperHasReason'
  BY SleeperStep
<1> QED
  BY <1>1, <1>2, LogInvariant, PTL DEF Spec
=============================================================================
