--------------------------- MODULE BufCacheProof ----------------------------
(***************************************************************************)
(* The buffer cache keeps its promises for any number of processes,        *)
(* buffers and blocks.  The argument: a reference belongs to a process or  *)
(* to a pin, so a buffer that bget recycles is used by nobody and its      *)
(* contents are on disk; and if none can be recycled, every buffer is in   *)
(* use or pinned.                                                          *)
(***************************************************************************)
EXTENDS BufCache, FiniteSetTheorems, WellFoundedInduction, TLAPS

\* The list as a permutation of the buffers.
Permutes(s) ==
  /\ s \in [Buf -> Buf]
  /\ \A i, j \in Buf : i # j => s[i] # s[j]
  /\ \A b \in Buf : \E i \in Buf : s[i] = b

\* The types but for the bound on refcnt, which follows from RefInv.
Types ==
  /\ Permutes(order)
  /\ blk \in [Buf -> Block \cup {NoBlock}] /\ valid \in [Buf -> BOOLEAN]
  /\ refcnt \in [Buf -> Int]
  /\ data \in [Buf -> Value] /\ lock \in [Buf -> User \cup {NoProc}]
  /\ disk \in [Block -> Value] /\ latest \in [Block -> Value]
  /\ pc \in [User -> {"idle", "wait", "read", "hold", "dirty", "drop"}]
  /\ buf \in [User -> Buf] /\ want \in [User -> Block \cup {NoBlock}]
  /\ pinned \subseteq Buf /\ panic \in BOOLEAN

Inv ==
  /\ Types /\ UseInv /\ RefInv /\ CleanInv
  /\ OneBufferPerBlock /\ Coherent

\* The users are finitely many.
LEMMA UserFinite ==
  ASSUME ConstantsOK
  PROVE  IsFiniteSet(User) /\ Cardinality(User) \in Nat
<1>1. IsFiniteSet({1} \cup {2}) /\ {1} \cup {2} = {1, 2}
  BY FS_Singleton, FS_AddElement, Zenon
<1>2. IsFiniteSet(Proc \X {1, 2})
  BY <1>1, FS_Product, Zenon DEF ConstantsOK
<1> QED
  BY <1>2, FS_CardinalityType DEF User

\* The users of a buffer are finitely many.
LEMMA UsingFinite ==
  ASSUME ConstantsOK, NEW b \in Buf
  PROVE  /\ IsFiniteSet(Using(b)) /\ Cardinality(Using(b)) \in Nat
         /\ Cardinality(Using(b)) <= Cardinality(User) /\ Cardinality(User) \in Nat
<1>1. Using(b) \in SUBSET User
  BY DEF Using
<1>2. IsFiniteSet(User)
  BY UserFinite
<1>3. IsFiniteSet(Using(b)) /\ Cardinality(Using(b)) <= Cardinality(User)
  BY <1>1, <1>2, FS_Subset
<1> QED
  BY <1>2, <1>3, FS_CardinalityType

\* The types of the model are those of the proof.
LEMMA TypesAre ==
  ASSUME ConstantsOK, Types, RefInv
  PROVE  TypeOK /\ ListInv
<1>1. order \in Injection(Buf, Buf) /\ order \in Surjection(Buf, Buf)
  BY DEF Types, Permutes, Injection, IsInjective, Surjection
<1>2. order \in Bijection(Buf, Buf)
  BY <1>1 DEF Bijection
<1>3. \A b \in Buf : refcnt[b] \in 0..Cardinality(User) + 1
  <2> TAKE b \in Buf
  <2>1. Cardinality(Using(b)) \in Nat /\ Cardinality(Using(b)) <= Cardinality(User)
        /\ Cardinality(User) \in Nat
    BY UsingFinite
  <2>2. refcnt[b] = Cardinality(Using(b)) + (IF b \in pinned THEN 1 ELSE 0)
    BY DEF RefInv
  <2> QED
    BY <2>1, <2>2
<1>4. refcnt \in [Buf -> 0..Cardinality(User) + 1]
  BY <1>3 DEF Types
<1> QED
  BY <1>2, <1>4 DEF Types, Permutes, TypeOK, ListInv

\* Moving a buffer to the front of the list leaves every buffer on it once.
LEMMA MoveToFrontPermutes ==
  ASSUME ConstantsOK, Permutes(order), NEW b \in Buf
  PROVE  Permutes(MoveToFront(b))
<1> DEFINE at == CHOOSE i \in DOMAIN order : order[i] = b
           s == MoveToFront(b)
<1>1. DOMAIN order = Buf /\ at \in Buf /\ order[at] = b
  BY DEF Permutes
<1>2. s = [i \in Buf |-> IF i = 1 THEN b ELSE IF i <= at THEN order[i - 1] ELSE order[i]]
  BY <1>1 DEF MoveToFront
<1> HIDE DEF at, s
<1>3. NBUF \in Nat /\ NBUF >= 1 /\ Buf = 1..NBUF
  BY DEF ConstantsOK, Buf
<1>4. \A i \in Buf : order[i] \in Buf
  BY DEF Permutes
<1>5. s \in [Buf -> Buf]
  <2> SUFFICES ASSUME NEW i \in Buf
               PROVE  (IF i = 1 THEN b ELSE IF i <= at THEN order[i - 1] ELSE order[i]) \in Buf
    BY <1>2
  <2>1. i # 1 => i - 1 \in Buf
    BY <1>3
  <2> QED
    BY <1>4, <2>1
<1>6. \A i, j \in Buf : i # j => s[i] # s[j]
  <2> SUFFICES ASSUME NEW i \in Buf, NEW j \in Buf, i < j PROVE s[i] # s[j]
    BY <1>3
  <2>1. \A x, y \in Buf : x # y => order[x] # order[y]
    BY DEF Permutes
  <2>2. s[i] = IF i = 1 THEN order[at] ELSE IF i <= at THEN order[i - 1] ELSE order[i]
    BY <1>1, <1>2
  <2>3. s[j] = IF j <= at THEN order[j - 1] ELSE order[j]
    BY <1>2, <1>3
  <2> QED
    BY <1>1, <1>3, <2>1, <2>2, <2>3
<1>7. \A c \in Buf : \E i \in Buf : s[i] = c
  <2> TAKE c \in Buf
  <2>1. PICK i \in Buf : order[i] = c
    BY DEF Permutes
  <2>2. CASE i < at
    <3>1. i + 1 \in Buf /\ i + 1 # 1 /\ i + 1 <= at /\ (i + 1) - 1 = i
      BY <1>1, <1>3, <2>2
    <3> QED
      BY <1>2, <2>1, <3>1
  <2>3. CASE i = at
    BY <1>1, <1>2, <1>3, <2>1, <2>3
  <2>4. CASE i > at
    <3>1. i # 1 /\ ~(i <= at)
      BY <1>1, <1>3, <2>4
    <3> QED
      BY <1>2, <2>1, <3>1
  <2> QED
    BY <1>1, <1>3, <2>2, <2>3, <2>4
<1> QED
  BY Zenon, <1>5, <1>6, <1>7 DEF Permutes, s

\* When bget finds no buffer to recycle, every buffer is referenced: the
\* search from the end of the list misses none.
LEMMA NoVictimAllUsed ==
  ASSUME ConstantsOK, Types, \A b \in Buf : ~Victim(b)
  PROVE  \A b \in Buf : refcnt[b] # 0
<1> SUFFICES ASSUME NEW b \in Buf, refcnt[b] = 0 PROVE FALSE
  OBVIOUS
<1> DEFINE Free == {i \in Buf : refcnt[order[i]] = 0}
           T == {k \in Nat : \E i \in Free : k = NBUF - i}
<1>1. NBUF \in Nat /\ Buf = 1..NBUF /\ DOMAIN order = Buf /\ \A i \in Buf : order[i] \in Buf
  BY Zenon DEF ConstantsOK, Buf, Types, Permutes
<1>2. PICK i \in Buf : order[i] = b
  BY DEF Types, Permutes
<1>3. NBUF - i \in T
  BY <1>1, <1>2
<1>4. T \subseteq Nat /\ T # {}
  BY <1>3
<1> HIDE DEF T
<1>5. PICK k \in T : \A m \in T : ~(<<m, k>> \in OpToRel(<, Nat))
  BY <1>4, WFMin, NatLessThanWellFounded, Zenon
<1>6. \A m \in T : ~(m < k)
  BY <1>4, <1>5, Zenon DEF OpToRel
<1>7. PICK h \in Free : k = NBUF - h
  BY Zenon, <1>5 DEF T
<1>8. \A j \in DOMAIN order : j > h => refcnt[order[j]] # 0
  <2> SUFFICES ASSUME NEW j \in Buf, j > h, refcnt[order[j]] = 0 PROVE FALSE
    BY Zenon, <1>1
  <2>1. NBUF - j \in Nat /\ NBUF - j < k
    BY <1>1, <1>7
  <2>2. NBUF - j \in T
    BY <2>1 DEF T
  <2> QED
    BY <1>6, <2>1, <2>2
<1>9. Victim(order[h])
  BY Zenon, <1>1, <1>7, <1>8 DEF Victim
<1> QED
  BY <1>1, <1>7, <1>9

-----------------------------------------------------------------------------
(***************************************************************************)
(* How the references of a step change.                                    *)
(***************************************************************************)

\* A step that changes neither who uses a buffer nor the pins keeps RefInv.
LEMMA RefUnchanged ==
  ASSUME RefInv, UNCHANGED <<refcnt, pinned>>, \A b \in Buf : Using(b)' = Using(b)
  PROVE  RefInv'
BY DEF RefInv

\* bget gives its caller one reference.
LEMMA RefTaken ==
  ASSUME ConstantsOK, Types, RefInv, NEW p \in User, NEW a \in Buf, pc[p] = "idle",
         pc' = [pc EXCEPT ![p] = "wait"], buf' = [buf EXCEPT ![p] = a],
         refcnt' = [refcnt EXCEPT ![a] = refcnt[a] + 1], UNCHANGED pinned
  PROVE  RefInv'
<1>1. SUFFICES ASSUME NEW b \in Buf
               PROVE  refcnt'[b] = Cardinality(Using(b)') + (IF b \in pinned THEN 1 ELSE 0)
  BY DEF RefInv
<1>2. IsFiniteSet(Using(b)) /\ Cardinality(Using(b)) \in Nat
  BY UsingFinite
<1>3. refcnt[b] = Cardinality(Using(b)) + (IF b \in pinned THEN 1 ELSE 0)
  BY DEF RefInv
<1>4. CASE b = a
  <2>1. Using(b)' = Using(b) \cup {p} /\ p \notin Using(b)
    BY <1>4 DEF Using, Types
  <2>2. Cardinality(Using(b)') = Cardinality(Using(b)) + 1
    BY Zenon, <1>2, <2>1, FS_AddElement
  <2>3. refcnt'[b] = refcnt[b] + 1
    BY <1>4 DEF Types
  <2> QED
    BY <1>2, <1>3, <2>2, <2>3
<1>5. CASE b # a
  <2>1. Using(b)' = Using(b) /\ refcnt'[b] = refcnt[b]
    BY <1>5 DEF Using, Types
  <2> QED
    BY <1>3, <2>1
<1> QED
  BY <1>4, <1>5

\* brelse gives it back.
LEMMA RefDropped ==
  ASSUME ConstantsOK, Types, RefInv, NEW p \in User, pc[p] = "drop",
         pc' = [pc EXCEPT ![p] = "idle"], buf' = [buf EXCEPT ![p] = 1],
         refcnt' = [refcnt EXCEPT ![buf[p]] = refcnt[buf[p]] - 1], UNCHANGED pinned
  PROVE  RefInv'
<1>1. SUFFICES ASSUME NEW b \in Buf
               PROVE  refcnt'[b] = Cardinality(Using(b)') + (IF b \in pinned THEN 1 ELSE 0)
  BY DEF RefInv
<1>2. IsFiniteSet(Using(b)) /\ Cardinality(Using(b)) \in Nat
  BY UsingFinite
<1>3. refcnt[b] = Cardinality(Using(b)) + (IF b \in pinned THEN 1 ELSE 0)
  BY DEF RefInv
<1>4. CASE b = buf[p]
  <2>1. Using(b)' = Using(b) \ {p} /\ p \in Using(b)
    BY <1>4 DEF Using, Types
  <2>2. Cardinality(Using(b)') = Cardinality(Using(b)) - 1
    BY Zenon, <1>2, <2>1, FS_RemoveElement
  <2>3. refcnt'[b] = refcnt[b] - 1
    BY <1>4 DEF Types
  <2> QED
    BY <1>2, <1>3, <2>2, <2>3
<1>5. CASE b # buf[p]
  <2>1. Using(b)' = Using(b) /\ refcnt'[b] = refcnt[b]
    BY <1>5 DEF Using, Types
  <2> QED
    BY <1>3, <2>1
<1> QED
  BY <1>4, <1>5

-----------------------------------------------------------------------------
(***************************************************************************)
(* Every step keeps the invariant.                                         *)
(***************************************************************************)

\* A buffer that somebody uses, or that is pinned, has a reference.
LEMMA UsedHasRef ==
  ASSUME ConstantsOK, Types, RefInv, NEW b \in Buf, refcnt[b] = 0
  PROVE  b \notin pinned /\ \A q \in User : pc[q] # "idle" => buf[q] # b
<1>1. IsFiniteSet(Using(b)) /\ Cardinality(Using(b)) \in Nat
  BY UsingFinite
<1>2. refcnt[b] = Cardinality(Using(b)) + (IF b \in pinned THEN 1 ELSE 0)
  BY DEF RefInv
<1>3. b \notin pinned /\ Cardinality(Using(b)) = 0
  BY <1>1, <1>2
<1>4. Using(b) = {}
  BY <1>1, <1>3, FS_EmptySet
<1> QED
  BY <1>3, <1>4 DEF Using

\* bget finds the block in the cache.
LEMMA BGetHit ==
  ASSUME ConstantsOK, Inv, NEW p \in User, NEW n \in Block, pc[p] = "idle",
         want' = [want EXCEPT ![p] = n], NEW b \in Cached(n),
         refcnt' = [refcnt EXCEPT ![b] = @ + 1],
         buf' = [buf EXCEPT ![p] = b], Goto(p, "wait"),
         UNCHANGED <<blk, valid, panic, order, data, lock, disk, pinned, latest>>
  PROVE  Inv'
<1> USE DEF Goto
<1>1. b \in Buf /\ blk[b] = n
  BY DEF Cached
<1>2. Types'
  BY <1>1 DEF Inv, Types
<1>3. UseInv'
  BY <1>1 DEF Inv, Types, UseInv, Owns
<1>4. RefInv'
  BY Zenon, <1>1, RefTaken DEF Inv
<1>5. CleanInv'
  <2> SUFFICES ASSUME NEW a \in Buf, valid[a]
               PROVE  /\ blk[a] \in Block
                      /\ a \in pinned \/ (\E q \in User : pc'[q] = "dirty" /\ buf'[q] = a)
                                      \/ data[a] = disk[blk[a]]
    BY DEF CleanInv
  <2>1. \A q \in User : pc[q] = "dirty" => pc'[q] = "dirty" /\ buf'[q] = buf[q]
    BY DEF Inv, Types
  <2> QED
    BY <2>1 DEF Inv, CleanInv
<1>6. OneBufferPerBlock' /\ Coherent'
  BY DEF Inv, OneBufferPerBlock, Coherent, Cached
<1> QED
  BY <1>2, <1>3, <1>4, <1>5, <1>6 DEF Inv

\* bget recycles a buffer that nobody uses: its block is on disk.
LEMMA BGetRecycle ==
  ASSUME ConstantsOK, Inv, NEW p \in User, NEW n \in Block, pc[p] = "idle",
         want' = [want EXCEPT ![p] = n], Cached(n) = {}, NEW b \in Buf, Victim(b),
         blk' = [blk EXCEPT ![b] = n], valid' = [valid EXCEPT ![b] = FALSE],
         refcnt' = [refcnt EXCEPT ![b] = 1],
         buf' = [buf EXCEPT ![p] = b], Goto(p, "wait"),
         UNCHANGED <<panic, order, data, lock, disk, pinned, latest>>
  PROVE  Inv'
<1> USE DEF Goto
<1>1. refcnt[b] = 0
  BY DEF Victim
<1>2. b \notin pinned /\ \A q \in User : pc[q] # "idle" => buf[q] # b
  BY <1>1, UsedHasRef DEF Inv
<1>3. \A a \in Buf : blk[a] # n
  BY DEF Cached
<1>4. Types'
  BY DEF Inv, Types
<1>5. UseInv'
  BY <1>2 DEF Inv, Types, UseInv, Owns
<1>6. RefInv'
  <2>1. refcnt' = [refcnt EXCEPT ![b] = refcnt[b] + 1]
    BY <1>1
  <2> QED
    BY Zenon, <2>1, RefTaken DEF Inv
<1>7. \A q \in User : pc[q] = "dirty" => pc'[q] = "dirty" /\ buf'[q] = buf[q]
  BY DEF Inv, Types
<1>8. CleanInv'
  <2> SUFFICES ASSUME NEW a \in Buf, valid'[a]
               PROVE  /\ blk'[a] \in Block
                      /\ a \in pinned \/ (\E q \in User : pc'[q] = "dirty" /\ buf'[q] = a)
                                      \/ data[a] = disk[blk'[a]]
    BY DEF CleanInv
  <2>1. a # b /\ valid[a] /\ blk'[a] = blk[a]
    BY DEF Inv, Types
  <2> QED
    BY <1>7, <2>1 DEF Inv, CleanInv
<1>9. OneBufferPerBlock'
  BY <1>3 DEF Inv, Types, OneBufferPerBlock
<1>10. Coherent'
  <2> SUFFICES ASSUME NEW m \in Block
               PROVE  IF \E a \in Buf : blk'[a] = m /\ valid'[a]
                      THEN \A a \in Buf : blk'[a] = m /\ valid'[a] => data[a] = latest[m]
                      ELSE disk[m] = latest[m]
    BY DEF Coherent, Cached
  <2>1. IF \E a \in Buf : blk[a] = m /\ valid[a]
        THEN \A a \in Buf : blk[a] = m /\ valid[a] => data[a] = latest[m]
        ELSE disk[m] = latest[m]
    BY DEF Inv, Coherent, Cached
  <2>2. \A a \in Buf : (blk'[a] = m /\ valid'[a]) <=> (a # b /\ blk[a] = m /\ valid[a])
    BY DEF Inv, Types
  <2>3. blk[b] = m /\ valid[b] => data[b] = disk[m]
    BY <1>2 DEF Inv, CleanInv
  <2>4. \A a \in Buf : blk[a] = m /\ blk[b] = m => a = b
    BY DEF Inv, OneBufferPerBlock, ConstantsOK
  <2> QED
    BY <2>1, <2>2, <2>3, <2>4
<1> QED
  BY <1>4, <1>5, <1>6, <1>8, <1>9, <1>10 DEF Inv

\* bget panics.
LEMMA BGetPanic ==
  ASSUME ConstantsOK, Inv, NEW p \in User, NEW n \in Block, pc[p] = "idle",
         want' = [want EXCEPT ![p] = n], \A b \in Buf : ~Victim(b), panic' = TRUE,
         UNCHANGED <<blk, valid, refcnt, buf, pc, order, data, lock, disk, pinned, latest>>
  PROVE  Inv'
<1>1. Types'
  BY DEF Inv, Types
<1>2. UseInv'
  BY DEF Inv, Types, UseInv, Owns
<1>3. RefInv'
  <2>1. \A b \in Buf : Using(b)' = Using(b)
    BY DEF Using
  <2> QED
    BY <2>1, RefUnchanged DEF Inv
<1>4. CleanInv' /\ OneBufferPerBlock' /\ Coherent'
  BY DEF Inv, CleanInv, OneBufferPerBlock, Coherent, Cached
<1> QED
  BY <1>1, <1>2, <1>3, <1>4 DEF Inv

\* A process that stays between bget and brelse keeps its reference.
LEMMA UsingKept ==
  ASSUME Types, NEW p \in User, NEW l, pc[p] # "idle", l # "idle", Goto(p, l), UNCHANGED buf
  PROVE  \A b \in Buf : Using(b)' = Using(b)
BY DEF Using, Goto, Types

\* acquiresleep in bget.
LEMMA LockStep ==
  ASSUME ConstantsOK, Inv, NEW p \in User, Lock(p)
  PROVE  Inv'
<1> DEFINE l == IF valid[buf[p]] THEN "hold" ELSE "read"
<1>1. /\ pc[p] = "wait" /\ lock[buf[p]] = NoProc /\ pc' = [pc EXCEPT ![p] = l]
      /\ lock' = [lock EXCEPT ![buf[p]] = p]
      /\ UNCHANGED <<order, blk, refcnt, valid, data, disk, buf, want, pinned, latest, panic>>
  BY DEF Lock, Goto, meta
<1>2. l \in {"hold", "read"} /\ (valid[buf[p]] <=> l # "read")
  OBVIOUS
<1> HIDE DEF l
<1>3. Types'
  BY <1>1, <1>2 DEF Inv, Types
<1>4. UseInv'
  <2> SUFFICES ASSUME NEW q \in User
               PROVE  /\ pc'[q] # "idle" => want[q] \in Block /\ blk[buf[q]] = want[q]
                      /\ pc'[q] \in {"read", "hold", "dirty"} =>
                           lock'[buf[q]] = q /\ (valid[buf[q]] <=> pc'[q] # "read")
    BY <1>1 DEF UseInv, Owns
  <2>1. CASE q = p
    BY <1>1, <1>2, <2>1 DEF Inv, Types, UseInv, Owns
  <2>2. CASE q # p
    <3>1. pc'[q] = pc[q]
      BY <1>1, <2>2 DEF Inv, Types
    <3>2. pc[q] \in {"read", "hold", "dirty"} => buf[q] # buf[p]
      BY <1>1 DEF Inv, UseInv, Owns, ConstantsOK
    <3> QED
      BY <1>1, <3>1, <3>2 DEF Inv, Types, UseInv, Owns
  <2> QED
    BY <2>1, <2>2
<1>5. RefInv'
  <2>1. \A b \in Buf : Using(b)' = Using(b)
    BY <1>1, <1>2 DEF Using, Inv, Types
  <2> QED
    BY <1>1, <2>1, RefUnchanged DEF Inv
<1>6. CleanInv'
  <2>1. \A q \in User : pc[q] = "dirty" => pc'[q] = "dirty"
    BY <1>1 DEF Inv, Types
  <2> QED
    BY <1>1, <2>1 DEF Inv, CleanInv
<1>7. OneBufferPerBlock' /\ Coherent'
  BY <1>1 DEF Inv, OneBufferPerBlock, Coherent, Cached
<1> QED
  BY <1>3, <1>4, <1>5, <1>6, <1>7 DEF Inv

\* What the holder of a buffer's sleep-lock knows: the buffer is of the block
\* it asked for, no other buffer is, and nobody else holds it.
LEMMA HolderKnows ==
  ASSUME ConstantsOK, Inv, NEW p \in User, Owns(p)
  PROVE  /\ buf[p] \in Buf /\ want[p] \in Block /\ blk[buf[p]] = want[p]
         /\ \A a \in Buf : a # buf[p] => blk[a] # want[p]
         /\ \A q \in User : q # p /\ Owns(q) => buf[q] # buf[p]
         /\ valid[buf[p]] <=> pc[p] # "read"
BY DEF Inv, Types, UseInv, Owns, OneBufferPerBlock, ConstantsOK

\* bread reads the disk into the buffer.
LEMMA BReadStep ==
  ASSUME ConstantsOK, Inv, NEW p \in User, BRead(p)
  PROVE  Inv'
<1>1. /\ pc[p] = "read" /\ pc' = [pc EXCEPT ![p] = "hold"]
      /\ data' = [data EXCEPT ![buf[p]] = disk[blk[buf[p]]]]
      /\ valid' = [valid EXCEPT ![buf[p]] = TRUE]
      /\ UNCHANGED <<order, blk, refcnt, lock, disk, buf, want, pinned, latest, panic>>
  BY DEF BRead, Goto, meta
<1> DEFINE b == buf[p]
           n == want[p]
<1>2. /\ b \in Buf /\ n \in Block /\ blk[b] = n /\ ~valid[b]
      /\ \A a \in Buf : a # b => blk[a] # n
      /\ \A q \in User : q # p /\ Owns(q) => buf[q] # b
  BY <1>1, HolderKnows DEF Owns
<1>3. Types'
  BY <1>1, <1>2 DEF Inv, Types
<1>4. UseInv'
  BY <1>1, <1>2 DEF Inv, Types, UseInv, Owns
<1>5. RefInv'
  <2>1. \A a \in Buf : Using(a)' = Using(a)
    BY Zenon, <1>1, UsingKept DEF Inv, Goto
  <2> QED
    BY <1>1, <2>1, RefUnchanged DEF Inv
<1>6. CleanInv'
  <2> SUFFICES ASSUME NEW a \in Buf, valid'[a]
               PROVE  /\ blk[a] \in Block
                      /\ a \in pinned \/ (\E q \in User : pc'[q] = "dirty" /\ buf[q] = a)
                                      \/ data'[a] = disk[blk[a]]
    BY <1>1 DEF CleanInv
  <2>1. CASE a = b
    BY <1>1, <1>2, <2>1 DEF Inv, Types
  <2>2. CASE a # b
    <3>1. valid[a] /\ data'[a] = data[a]
      BY <1>1, <2>2 DEF Inv, Types
    <3>2. \A q \in User : pc[q] = "dirty" => pc'[q] = "dirty"
      BY <1>1 DEF Inv, Types
    <3> QED
      BY <3>1, <3>2 DEF Inv, CleanInv
  <2> QED
    BY <2>1, <2>2
<1>7. Coherent'
  <2> SUFFICES ASSUME NEW m \in Block
               PROVE  IF \E a \in Buf : blk[a] = m /\ valid'[a]
                      THEN \A a \in Buf : blk[a] = m /\ valid'[a] => data'[a] = latest[m]
                      ELSE disk[m] = latest[m]
    BY <1>1 DEF Coherent, Cached
  <2>1. IF \E a \in Buf : blk[a] = m /\ valid[a]
        THEN \A a \in Buf : blk[a] = m /\ valid[a] => data[a] = latest[m]
        ELSE disk[m] = latest[m]
    BY DEF Inv, Coherent, Cached
  <2>2. \A a \in Buf : a # b => valid'[a] = valid[a] /\ data'[a] = data[a]
    BY <1>1 DEF Inv, Types
  <2>3. valid'[b] /\ data'[b] = disk[n]
    BY <1>1, <1>2 DEF Inv, Types
  <2> QED
    BY <1>2, <2>1, <2>2, <2>3
<1>8. OneBufferPerBlock'
  BY <1>1 DEF Inv, OneBufferPerBlock
<1> QED
  BY <1>3, <1>4, <1>5, <1>6, <1>7, <1>8 DEF Inv

\* The holder changes the block.
LEMMA ModifyStep ==
  ASSUME ConstantsOK, Inv, NEW p \in User, NEW v \in Value, Modify(p, v)
  PROVE  Inv'
<1>1. /\ pc[p] = "hold" /\ pc' = [pc EXCEPT ![p] = "dirty"]
      /\ data' = [data EXCEPT ![buf[p]] = v] /\ latest' = [latest EXCEPT ![want[p]] = v]
      /\ UNCHANGED <<order, blk, refcnt, valid, lock, disk, buf, want, pinned, panic>>
  BY DEF Modify, Goto, meta
<1> DEFINE b == buf[p]
           n == want[p]
<1>2. /\ b \in Buf /\ n \in Block /\ blk[b] = n /\ valid[b]
      /\ \A a \in Buf : a # b => blk[a] # n
  BY <1>1, HolderKnows DEF Owns
<1>3. Types'
  BY <1>1, <1>2 DEF Inv, Types
<1>4. UseInv'
  BY <1>1, <1>2 DEF Inv, Types, UseInv, Owns
<1>5. RefInv'
  <2>1. \A a \in Buf : Using(a)' = Using(a)
    BY Zenon, <1>1, UsingKept DEF Inv, Goto
  <2> QED
    BY <1>1, <2>1, RefUnchanged DEF Inv
<1>6. CleanInv'
  <2> SUFFICES ASSUME NEW a \in Buf, valid[a]
               PROVE  /\ blk[a] \in Block
                      /\ a \in pinned \/ (\E q \in User : pc'[q] = "dirty" /\ buf[q] = a)
                                      \/ data'[a] = disk[blk[a]]
    BY <1>1 DEF CleanInv
  <2>1. pc'[p] = "dirty" /\ \A q \in User : pc[q] = "dirty" => pc'[q] = "dirty"
    BY <1>1 DEF Inv, Types
  <2>2. a # b => data'[a] = data[a]
    BY <1>1 DEF Inv, Types
  <2> QED
    BY <1>2, <2>1, <2>2 DEF Inv, CleanInv
<1>7. Coherent'
  <2> SUFFICES ASSUME NEW m \in Block
               PROVE  IF \E a \in Buf : blk[a] = m /\ valid[a]
                      THEN \A a \in Buf : blk[a] = m /\ valid[a] => data'[a] = latest'[m]
                      ELSE disk[m] = latest'[m]
    BY <1>1 DEF Coherent, Cached
  <2>1. IF \E a \in Buf : blk[a] = m /\ valid[a]
        THEN \A a \in Buf : blk[a] = m /\ valid[a] => data[a] = latest[m]
        ELSE disk[m] = latest[m]
    BY DEF Inv, Coherent, Cached
  <2>2. /\ \A a \in Buf : a # b => data'[a] = data[a]
        /\ data'[b] = v /\ latest'[n] = v /\ (m # n => latest'[m] = latest[m])
    BY <1>1, <1>2 DEF Inv, Types
  <2> QED
    BY <1>2, <2>1, <2>2
<1>8. OneBufferPerBlock'
  BY <1>1 DEF Inv, OneBufferPerBlock
<1> QED
  BY <1>3, <1>4, <1>5, <1>6, <1>7, <1>8 DEF Inv

\* log_write pins the buffer, once.
LEMMA BPinStep ==
  ASSUME ConstantsOK, Inv, NEW p \in User, BPin(p)
  PROVE  Inv'
<1>1. /\ pc[p] = "dirty" /\ pc' = [pc EXCEPT ![p] = "hold"]
      /\ refcnt' = [refcnt EXCEPT ![buf[p]] = IF buf[p] \in pinned THEN @ ELSE @ + 1]
      /\ pinned' = pinned \cup {buf[p]}
      /\ UNCHANGED <<order, blk, valid, data, lock, disk, buf, want, latest, panic>>
  BY DEF BPin, Goto
<1> DEFINE b == buf[p]
<1>2. b \in Buf /\ valid[b]
  BY <1>1, HolderKnows DEF Owns
<1>3. Types'
  BY <1>1, <1>2 DEF Inv, Types
<1>4. UseInv'
  BY <1>1, <1>2 DEF Inv, Types, UseInv, Owns
<1>5. RefInv'
  <2>1. \A a \in Buf : Using(a)' = Using(a)
    BY Zenon, <1>1, UsingKept DEF Inv, Goto
  <2> SUFFICES ASSUME NEW a \in Buf
               PROVE  refcnt'[a] = Cardinality(Using(a)) + (IF a \in pinned' THEN 1 ELSE 0)
    BY <1>1, <2>1 DEF RefInv
  <2>2. refcnt[a] = Cardinality(Using(a)) + (IF a \in pinned THEN 1 ELSE 0)
    BY DEF Inv, RefInv
  <2>3. Cardinality(Using(a)) \in Nat
    BY UsingFinite
  <2>4. CASE a = b
    <3>1. refcnt'[a] = (IF a \in pinned THEN refcnt[a] ELSE refcnt[a] + 1) /\ a \in pinned'
      BY <1>1, <2>4 DEF Inv, Types
    <3> QED
      BY <2>2, <2>3, <3>1
  <2>5. CASE a # b
    <3>1. refcnt'[a] = refcnt[a] /\ (a \in pinned' <=> a \in pinned)
      BY <1>1, <2>5 DEF Inv, Types
    <3> QED
      BY <2>2, <3>1
  <2> QED
    BY <2>4, <2>5
<1>6. CleanInv'
  <2> SUFFICES ASSUME NEW a \in Buf, valid[a]
               PROVE  /\ blk[a] \in Block
                      /\ a \in pinned' \/ (\E q \in User : pc'[q] = "dirty" /\ buf[q] = a)
                                       \/ data[a] = disk[blk[a]]
    BY <1>1 DEF CleanInv
  <2>1. \A q \in User : pc[q] = "dirty" /\ q # p => pc'[q] = "dirty"
    BY <1>1 DEF Inv, Types
  <2> QED
    BY <1>1, <2>1 DEF Inv, CleanInv
<1>7. OneBufferPerBlock' /\ Coherent'
  BY <1>1 DEF Inv, OneBufferPerBlock, Coherent, Cached
<1> QED
  BY <1>3, <1>4, <1>5, <1>6, <1>7 DEF Inv

\* The newest contents are put on disk; the buffer is no longer pinned.
LEMMA WriteBack ==
  ASSUME ConstantsOK, Inv, NEW p \in User,
         pc[p] \in {"hold", "dirty"}, pc' = [pc EXCEPT ![p] = "hold"],
         disk' = [disk EXCEPT ![blk[buf[p]]] = data[buf[p]]],
         refcnt' = [refcnt EXCEPT ![buf[p]] = IF buf[p] \in pinned THEN @ - 1 ELSE @],
         pinned' = pinned \ {buf[p]},
         UNCHANGED <<order, blk, valid, data, lock, buf, want, latest, panic>>
  PROVE  Inv'
<1>1. /\ pc[p] \in {"hold", "dirty"} /\ pc' = [pc EXCEPT ![p] = "hold"]
      /\ disk' = [disk EXCEPT ![blk[buf[p]]] = data[buf[p]]]
      /\ refcnt' = [refcnt EXCEPT ![buf[p]] = IF buf[p] \in pinned THEN @ - 1 ELSE @]
      /\ pinned' = pinned \ {buf[p]}
      /\ UNCHANGED <<order, blk, valid, data, lock, buf, want, latest, panic>>
  OBVIOUS
<1> DEFINE b == buf[p]
           n == want[p]
<1>2. /\ b \in Buf /\ n \in Block /\ blk[b] = n /\ valid[b]
      /\ \A a \in Buf : a # b => blk[a] # n
  BY <1>1, HolderKnows DEF Owns
<1>3. Types'
  BY <1>1, <1>2 DEF Inv, Types
<1>4. UseInv'
  BY <1>1, <1>2 DEF Inv, Types, UseInv, Owns
<1>5. RefInv'
  <2>1. \A a \in Buf : Using(a)' = Using(a)
    BY Zenon, <1>1, UsingKept DEF Inv, Goto
  <2> SUFFICES ASSUME NEW a \in Buf
               PROVE  refcnt'[a] = Cardinality(Using(a)) + (IF a \in pinned' THEN 1 ELSE 0)
    BY <1>1, <2>1 DEF RefInv
  <2>2. refcnt[a] = Cardinality(Using(a)) + (IF a \in pinned THEN 1 ELSE 0)
    BY DEF Inv, RefInv
  <2>3. Cardinality(Using(a)) \in Nat
    BY UsingFinite
  <2>4. CASE a = b
    <3>1. refcnt'[a] = (IF a \in pinned THEN refcnt[a] - 1 ELSE refcnt[a]) /\ a \notin pinned'
      BY <1>1, <2>4 DEF Inv, Types
    <3> QED
      BY <2>2, <2>3, <3>1
  <2>5. CASE a # b
    <3>1. refcnt'[a] = refcnt[a] /\ (a \in pinned' <=> a \in pinned)
      BY <1>1, <2>5 DEF Inv, Types
    <3> QED
      BY <2>2, <3>1
  <2> QED
    BY <2>4, <2>5
<1>6. /\ disk'[n] = data[b]
      /\ \A m \in Block : m # n => disk'[m] = disk[m]
  BY <1>1, <1>2 DEF Inv, Types
<1>7. CleanInv'
  <2> SUFFICES ASSUME NEW a \in Buf, valid[a]
               PROVE  /\ blk[a] \in Block
                      /\ a \in pinned' \/ (\E q \in User : pc'[q] = "dirty" /\ buf[q] = a)
                                       \/ data[a] = disk'[blk[a]]
    BY <1>1 DEF CleanInv
  <2>1. CASE a = b
    BY <1>2, <1>6, <2>1
  <2>2. CASE a # b
    <3>1. \A q \in User : pc[q] = "dirty" /\ q # p => pc'[q] = "dirty"
      BY <1>1 DEF Inv, Types
    <3>2. blk[a] \in Block /\ disk'[blk[a]] = disk[blk[a]]
      BY <1>2, <1>6, <2>2 DEF Inv, CleanInv
    <3> QED
      BY <1>1, <2>2, <3>1, <3>2 DEF Inv, CleanInv
  <2> QED
    BY <2>1, <2>2
<1>8. Coherent'
  <2> SUFFICES ASSUME NEW m \in Block
               PROVE  IF \E a \in Buf : blk[a] = m /\ valid[a]
                      THEN \A a \in Buf : blk[a] = m /\ valid[a] => data[a] = latest[m]
                      ELSE disk'[m] = latest[m]
    BY <1>1 DEF Coherent, Cached
  <2>1. IF \E a \in Buf : blk[a] = m /\ valid[a]
        THEN \A a \in Buf : blk[a] = m /\ valid[a] => data[a] = latest[m]
        ELSE disk[m] = latest[m]
    BY DEF Inv, Coherent, Cached
  <2> QED
    BY <1>2, <1>6, <2>1
<1>9. OneBufferPerBlock'
  BY <1>1 DEF Inv, OneBufferPerBlock
<1> QED
  BY <1>3, <1>4, <1>5, <1>7, <1>8, <1>9 DEF Inv

\* bwrite outside a transaction.
LEMMA BWriteStep ==
  ASSUME ConstantsOK, Inv, NEW p \in User, BWrite(p)
  PROVE  Inv'
<1>1. /\ pc[p] = "dirty" /\ buf[p] \notin pinned /\ pc' = [pc EXCEPT ![p] = "hold"]
      /\ disk' = [disk EXCEPT ![blk[buf[p]]] = data[buf[p]]]
      /\ UNCHANGED <<order, blk, refcnt, valid, data, lock, buf, want, pinned, latest, panic>>
  BY DEF BWrite, Goto, meta
<1>2. /\ refcnt' = [refcnt EXCEPT ![buf[p]] = IF buf[p] \in pinned THEN @ - 1 ELSE @]
      /\ pinned' = pinned \ {buf[p]}
  BY <1>1 DEF Inv, Types
<1> QED
  BY Zenon, <1>1, <1>2, WriteBack

\* install_trans writes the block and unpins the buffer.
LEMMA InstallStep ==
  ASSUME ConstantsOK, Inv, NEW p \in User, Install(p)
  PROVE  Inv'
<1>1. /\ pc[p] = "hold" /\ buf[p] \in pinned
      /\ disk' = [disk EXCEPT ![blk[buf[p]]] = data[buf[p]]]
      /\ refcnt' = [refcnt EXCEPT ![buf[p]] = @ - 1]
      /\ pinned' = pinned \ {buf[p]}
      /\ UNCHANGED <<order, blk, valid, data, lock, pc, buf, want, latest, panic>>
  BY DEF Install
<1>2. pc' = [pc EXCEPT ![p] = "hold"]
  BY <1>1 DEF Inv, Types
<1> QED
  BY Zenon, <1>1, <1>2, WriteBack

\* releasesleep in brelse.
LEMMA UnlockStep ==
  ASSUME ConstantsOK, Inv, NEW p \in User, Unlock(p)
  PROVE  Inv'
<1>1. /\ pc[p] = "hold" /\ pc' = [pc EXCEPT ![p] = "drop"]
      /\ lock' = [lock EXCEPT ![buf[p]] = NoProc]
      /\ UNCHANGED <<order, blk, refcnt, valid, data, disk, buf, want, pinned, latest, panic>>
  BY DEF Unlock, Goto, meta
<1>2. /\ buf[p] \in Buf
      /\ \A q \in User : q # p /\ Owns(q) => buf[q] # buf[p]
  BY <1>1, HolderKnows DEF Owns
<1>3. Types'
  BY <1>1, <1>2 DEF Inv, Types
<1>4. UseInv'
  BY <1>1, <1>2 DEF Inv, Types, UseInv, Owns
<1>5. RefInv'
  <2>1. \A a \in Buf : Using(a)' = Using(a)
    BY Zenon, <1>1, UsingKept DEF Inv, Goto
  <2> QED
    BY <1>1, <2>1, RefUnchanged DEF Inv
<1>6. CleanInv'
  <2>1. \A q \in User : pc[q] = "dirty" => pc'[q] = "dirty"
    BY <1>1 DEF Inv, Types
  <2> QED
    BY <1>1, <2>1 DEF Inv, CleanInv
<1>7. OneBufferPerBlock' /\ Coherent'
  BY <1>1 DEF Inv, OneBufferPerBlock, Coherent, Cached
<1> QED
  BY <1>3, <1>4, <1>5, <1>6, <1>7 DEF Inv

\* brelse drops the reference; the last one moves the buffer to the front.
LEMMA BRelseStep ==
  ASSUME ConstantsOK, Inv, NEW p \in User, BRelse(p)
  PROVE  Inv'
<1>1. /\ pc[p] = "drop" /\ pc' = [pc EXCEPT ![p] = "idle"]
      /\ refcnt' = [refcnt EXCEPT ![buf[p]] = refcnt[buf[p]] - 1]
      /\ order' = order \/ order' = MoveToFront(buf[p])
      /\ buf' = [buf EXCEPT ![p] = 1] /\ want' = [want EXCEPT ![p] = NoBlock]
      /\ UNCHANGED <<blk, valid, data, lock, disk, pinned, latest, panic>>
  BY DEF BRelse, Drop, Goto
<1>2. buf[p] \in Buf /\ 1 \in Buf
  BY DEF Inv, Types, ConstantsOK, Buf
<1>3. Permutes(order')
  BY SMTT(40), <1>1, <1>2, MoveToFrontPermutes DEF Inv, Types
<1>4. Types'
  <2>1. refcnt' \in [Buf -> Int]
    BY <1>1, <1>2 DEF Inv, Types
  <2>2. Permutes(order)'
    BY <1>3 DEF Permutes
  <2> QED
    BY <1>1, <1>2, <2>1, <2>2 DEF Inv, Types
<1>5. UseInv'
  BY <1>1 DEF Inv, Types, UseInv, Owns
<1>6. RefInv'
  BY Zenon, <1>1, RefDropped DEF Inv
<1>7. CleanInv'
  <2>1. \A q \in User : pc[q] = "dirty" => pc'[q] = "dirty" /\ buf'[q] = buf[q]
    BY <1>1 DEF Inv, Types
  <2> SUFFICES ASSUME NEW a \in Buf, valid[a]
               PROVE  /\ blk[a] \in Block
                      /\ a \in pinned \/ (\E q \in User : pc'[q] = "dirty" /\ buf'[q] = a)
                                      \/ data[a] = disk[blk[a]]
    BY <1>1, Zenon DEF CleanInv
  <2> QED
    BY <2>1 DEF Inv, CleanInv
<1>8. OneBufferPerBlock' /\ Coherent'
  BY <1>1 DEF Inv, OneBufferPerBlock, Coherent, Cached
<1> QED
  BY SMTT(40), <1>4, <1>5, <1>6, <1>7, <1>8 DEF Inv
-----------------------------------------------------------------------------
\* binit establishes the invariant.
LEMMA InitInv ==
  ASSUME ConstantsOK, Init
  PROVE  Inv
<1> USE DEF Init
<1>1. NBUF \in Nat /\ Buf = 1..NBUF /\ 1 \in Buf
  BY DEF ConstantsOK, Buf
<1>2. Permutes(order)
  <2>1. order = [i \in Buf |-> (NBUF + 1) - i]
    BY <1>1
  <2>2. order \in [Buf -> Buf]
    BY <1>1, <2>1
  <2>3. \A i, j \in Buf : i # j => order[i] # order[j]
    BY <1>1, <2>1
  <2>4. \A b \in Buf : \E i \in Buf : order[i] = b
    <3> TAKE b \in Buf
    <3>1. (NBUF + 1) - b \in Buf /\ order[(NBUF + 1) - b] = b
      BY <1>1, <2>1
    <3> QED
      BY <3>1
  <2> QED
    BY <2>2, <2>3, <2>4 DEF Permutes
<1>3. Types
  <2>1. Zero \in Value
    BY DEF ConstantsOK
  <2>2. valid \in [Buf -> BOOLEAN] /\ panic \in BOOLEAN
    BY Zenon
  <2>3. refcnt \in [Buf -> Int]
    OBVIOUS
  <2>4. /\ blk \in [Buf -> Block \cup {NoBlock}] /\ lock \in [Buf -> User \cup {NoProc}]
        /\ want \in [User -> Block \cup {NoBlock}] /\ buf \in [User -> Buf]
    BY <1>1
  <2>5. /\ data \in [Buf -> Value] /\ disk \in [Block -> Value] /\ latest \in [Block -> Value]
    BY <2>1
  <2>6. pc \in [User -> {"idle", "wait", "read", "hold", "dirty", "drop"}] /\ pinned \subseteq Buf
    OBVIOUS
  <2> QED
    BY <1>2, <2>2, <2>3, <2>4, <2>5, <2>6 DEF Types
<1>4. UseInv
  BY DEF UseInv, Owns
<1>5. RefInv
  <2>1. \A b \in Buf : Using(b) = {}
    BY DEF Using
  <2>2. Cardinality({}) = 0
    BY FS_EmptySet
  <2>4. \A b \in Buf : refcnt[b] = 0 /\ b \notin pinned
    OBVIOUS
  <2> QED
    BY SMTT(40), <2>1, <2>2, <2>4 DEF RefInv
<1>6. CleanInv /\ OneBufferPerBlock /\ Coherent
  BY DEF CleanInv, OneBufferPerBlock, Coherent, Cached
<1> QED
  BY <1>3, <1>4, <1>5, <1>6 DEF Inv

\* Every step keeps it.
LEMMA InvStep ==
  ASSUME ConstantsOK, Inv, [Next]_vars
  PROVE  Inv'
<1>1. CASE UNCHANGED vars
  BY <1>1 DEF vars, Inv, Types, UseInv, Owns, RefInv, Using, CleanInv,
              OneBufferPerBlock, Coherent, Cached, Permutes
<1>2. CASE Next
  <2>1. PICK p \in User : Step(p)
    BY <1>2 DEF Next
  <2>2. ASSUME NEW n \in Block, BGet(p, n) PROVE Inv'
    <3> USE <2>2 DEF BGet
    <3>1. CASE \E b \in Cached(n) :
                 /\ refcnt' = [refcnt EXCEPT ![b] = @ + 1]
                 /\ buf' = [buf EXCEPT ![p] = b] /\ Goto(p, "wait")
                 /\ UNCHANGED <<blk, valid, panic>>
      BY Zenon, <3>1, BGetHit
    <3>2. CASE /\ Cached(n) = {}
               /\ \E b \in Buf :
                    /\ Victim(b)
                    /\ blk' = [blk EXCEPT ![b] = n]
                    /\ valid' = [valid EXCEPT ![b] = FALSE]
                    /\ refcnt' = [refcnt EXCEPT ![b] = 1]
                    /\ buf' = [buf EXCEPT ![p] = b] /\ Goto(p, "wait")
                    /\ UNCHANGED panic
      BY Zenon, <3>2, BGetRecycle
    <3>3. CASE /\ Cached(n) = {} /\ \A b \in Buf : ~Victim(b)
               /\ panic' = TRUE /\ UNCHANGED <<blk, valid, refcnt, buf, pc>>
      BY Zenon, <3>3, BGetPanic
    <3> QED
      BY Zenon, <3>1, <3>2, <3>3
  <2> QED
    BY <2>1, <2>2, ModifyStep, LockStep, BReadStep, BPinStep, BWriteStep, InstallStep,
       UnlockStep, BRelseStep DEF Step
<1> QED
  BY <1>1, <1>2

\* A panic of bget finds every buffer in use or pinned.
LEMMA PanicStep ==
  ASSUME ConstantsOK, Inv, PanicMeansFull, [Next]_vars
  PROVE  PanicMeansFull'
<1>1. CASE UNCHANGED vars
  BY <1>1 DEF vars, PanicMeansFull, Using
<1>2. CASE Next
  <2>1. SUFFICES ASSUME panic' PROVE PanicMeansFull'
    BY DEF PanicMeansFull
  <2>2. PICK p \in User : Step(p)
    BY <1>2 DEF Next
  <2>3. ~panic
    BY <1>2 DEF Next
  <2>4. PICK n \in Block : BGet(p, n)
    BY ZenonT(40), <2>1, <2>2, <2>3 DEF Step, Lock, BRead, Modify, BPin, BWrite, Install,
        Unlock, BRelse, Drop
  <2>5. (\A b \in Buf : ~Victim(b)) /\ UNCHANGED <<refcnt, buf, pc, pinned>>
    BY Zenon, <2>1, <2>3, <2>4 DEF BGet
  <2>6. \A b \in Buf : refcnt[b] # 0
    BY <2>5, NoVictimAllUsed DEF Inv
  <2>7. \A b \in Buf : b \in pinned \/ Using(b) # {}
    <3> SUFFICES ASSUME NEW b \in Buf, b \notin pinned, Using(b) = {} PROVE FALSE
      OBVIOUS
    <3>1. Cardinality(Using(b)) = 0
      BY FS_EmptySet
    <3>2. refcnt[b] = Cardinality(Using(b)) + 0
      BY DEF Inv, RefInv
    <3> QED
      BY <2>6, <3>1, <3>2
  <2>8. \A b \in Buf : Using(b)' = Using(b)
    BY <2>5 DEF Using
  <2> QED
    BY <2>5, <2>7, <2>8 DEF PanicMeansFull
<1> QED
  BY <1>1, <1>2

\* bio.c, for any number of processes, each with up to two buffers, and any
\* number of buffers and blocks: a block has at most one buffer, whoever reads
\* it next sees what the last writer left through every recycling, pin and
\* write-back, and bget panics only when every buffer is in use or pinned.
THEOREM CacheIsRight ==
  ASSUME ConstantsOK
  PROVE  Spec => []CacheRight
<1>1. Init => Inv /\ PanicMeansFull
  BY Zenon, InitInv DEF Init, PanicMeansFull
<1>2. Inv /\ PanicMeansFull /\ [Next]_vars => Inv' /\ PanicMeansFull'
  BY InvStep, PanicStep
<1>3. Inv /\ PanicMeansFull => CacheRight
  BY TypesAre DEF Inv, CacheRight
<1> QED
  BY <1>1, <1>2, <1>3, PTL DEF Spec
=============================================================================
