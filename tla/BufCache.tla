------------------------------ MODULE BufCache ------------------------------
(***************************************************************************)
(* The buffer cache of kernel/bio.c: a list of NBUF buffers in order of    *)
(* last use, looked up and recycled under bcache.lock, each used under its *)
(* own sleep-lock.  Callers keep the rule of the log: what they modify     *)
(* they write, or pin until it is installed, before they release it (but   *)
(* for a failed copyin of writei, see FileData).  A process may hold two   *)
(* buffers: bmap and itrunc take others while they hold an indirect block, *)
(* write_log and install_trans while they hold a block of the log.         *)
(***************************************************************************)
EXTENDS Integers, FiniteSets, Functions

CONSTANTS Proc, NoProc,
          NBUF,       \* the buffers are 1..NBUF
          Block, NoBlock, Value, Zero,
          Inside,     \* <<m, n>>: n may be asked for by the holder of m
          Written     \* bound: the blocks that callers change

Buf == 1..NBUF
\* What a process holds: its first buffer, and one it takes inside.
User == Proc \X {1, 2}
Other(u) == <<u[1], 3 - u[2]>>

ConstantsOK ==
  /\ IsFiniteSet(Proc) /\ NoProc \notin User /\ NoBlock \notin Block
  /\ NBUF \in Nat \ {0} /\ Zero \in Value

VARIABLES order,    \* bcache.head.next, .next.next, ...: most recent first
          blk, valid, refcnt, data, lock,   \* the fields of struct buf
          disk,     \* the blocks on disk
          pc, buf,  \* where a user is and with which buffer
          want,     \* the blockno it asked for
          pinned,   \* buffers of the transaction that is not installed yet
          latest,   \* the newest contents of a block, as the last writer left it
          panic     \* bget found no buffer

meta == <<order, blk, refcnt>>
vars == <<order, blk, valid, refcnt, data, lock, disk, pc, buf, want, pinned, latest, panic>>

Goto(p, l) == pc' = [pc EXCEPT ![p] = l]

Cached_valid_only(n) == {b \in Buf : blk[b] = n /\ valid[b]}
\* Buffers that hold block n already.
Cached(n) == {b \in Buf : blk[b] = n}

\* b is the last buffer of the list that nobody uses.
Victim(b) ==
  \E i \in DOMAIN order :
    /\ order[i] = b /\ refcnt[b] = 0
    /\ \A j \in DOMAIN order : j > i => refcnt[order[j]] # 0

\* The process asks for its first buffer, or for one inside the first.
MayGet(p, n) ==
  IF p[2] = 1 THEN pc[Other(p)] = "idle"
  ELSE pc[Other(p)] \in {"hold", "dirty"} /\ <<want[Other(p)], n>> \in Inside

\* bget up to the release of bcache.lock.
BGet(p, n) ==
  /\ pc[p] = "idle" /\ MayGet(p, n)
  /\ want' = [want EXCEPT ![p] = n]
  /\ \/ \E b \in Cached(n) :
          /\ refcnt' = [refcnt EXCEPT ![b] = @ + 1]
          /\ buf' = [buf EXCEPT ![p] = b] /\ Goto(p, "wait")
          /\ UNCHANGED <<blk, valid, panic>>
     \/ /\ Cached(n) = {}
        /\ \E b \in Buf :
             /\ Victim(b)
             /\ blk' = [blk EXCEPT ![b] = n]
             /\ valid' = [valid EXCEPT ![b] = FALSE]
             /\ refcnt' = [refcnt EXCEPT ![b] = 1]
             /\ buf' = [buf EXCEPT ![p] = b] /\ Goto(p, "wait")
             /\ UNCHANGED panic
     \/ /\ Cached(n) = {} /\ \A b \in Buf : ~Victim(b)
        /\ panic' = TRUE
        /\ UNCHANGED <<blk, valid, refcnt, buf, pc>>
  /\ UNCHANGED <<order, data, lock, disk, pinned, latest>>

\* The acquiresleep of bget.
Lock(p) ==
  /\ pc[p] = "wait" /\ lock[buf[p]] = NoProc
  /\ lock' = [lock EXCEPT ![buf[p]] = p]
  /\ Goto(p, IF valid[buf[p]] THEN "hold" ELSE "read")
  /\ UNCHANGED <<meta, valid, data, disk, buf, want, pinned, latest, panic>>

\* bread reads the block from the disk.
BRead(p) ==
  /\ pc[p] = "read"
  /\ data' = [data EXCEPT ![buf[p]] = disk[blk[buf[p]]]]
  /\ valid' = [valid EXCEPT ![buf[p]] = TRUE]
  /\ Goto(p, "hold")
  /\ UNCHANGED <<meta, lock, disk, buf, want, pinned, latest, panic>>

\* The caller changes the block it asked for.
Modify(p, v) ==
  /\ pc[p] = "hold" /\ want[p] \in Written
  /\ data' = [data EXCEPT ![buf[p]] = v]
  /\ latest' = [latest EXCEPT ![want[p]] = v]
  /\ Goto(p, "dirty")
  /\ UNCHANGED <<meta, valid, lock, disk, buf, want, pinned, panic>>

\* log_write pins a block once per transaction.
BPin(p) ==
  /\ pc[p] = "dirty"
  /\ refcnt' = [refcnt EXCEPT ![buf[p]] = IF buf[p] \in pinned THEN @ ELSE @ + 1]
  /\ pinned' = pinned \cup {buf[p]}
  /\ Goto(p, "hold")
  /\ UNCHANGED <<order, blk, valid, data, lock, disk, buf, want, latest, panic>>

\* bwrite of a block that is not the transaction's.
BWrite(p) ==
  /\ pc[p] = "dirty" /\ buf[p] \notin pinned
  /\ disk' = [disk EXCEPT ![blk[buf[p]]] = data[buf[p]]]
  /\ Goto(p, "hold")
  /\ UNCHANGED <<meta, valid, data, lock, buf, want, pinned, latest, panic>>

\* install_trans: bwrite and bunpin.  In a commit its blocks are the pinned
\* ones (in recovery, where none is, the bunpin goes wrong: see Log).
Install(p) ==
  /\ pc[p] = "hold" /\ buf[p] \in pinned
  /\ disk' = [disk EXCEPT ![blk[buf[p]]] = data[buf[p]]]
  /\ refcnt' = [refcnt EXCEPT ![buf[p]] = @ - 1]
  /\ pinned' = pinned \ {buf[p]}
  /\ UNCHANGED <<order, blk, valid, data, lock, pc, buf, want, latest, panic>>

\* brelse: the sleep-lock first, then the count and the list.
Unlock(p) ==
  /\ pc[p] = "hold"
  /\ lock' = [lock EXCEPT ![buf[p]] = NoProc]
  /\ Goto(p, "drop")
  /\ UNCHANGED <<meta, valid, data, disk, buf, want, pinned, latest, panic>>

\* The list after b is unlinked and put behind bcache.head.
MoveToFront(b) ==
  LET at == CHOOSE i \in DOMAIN order : order[i] = b
  IN  [i \in DOMAIN order |-> IF i = 1 THEN b ELSE IF i <= at THEN order[i - 1] ELSE order[i]]

Drop(p, less) ==
  /\ pc[p] = "drop"
  /\ refcnt' = [refcnt EXCEPT ![buf[p]] = @ - less]
  /\ order' = IF refcnt'[buf[p]] = 0 THEN MoveToFront(buf[p]) ELSE order
  /\ Goto(p, "idle")
  /\ buf' = [buf EXCEPT ![p] = 1] /\ want' = [want EXCEPT ![p] = NoBlock]
  /\ UNCHANGED <<blk, valid, data, lock, disk, pinned, latest, panic>>

BRelse(p) == Drop(p, 1)
-----------------------------------------------------------------------------
\* binit puts each buffer at the front of the list.
Init ==
  /\ order = [i \in Buf |-> NBUF + 1 - i]
  /\ blk = [b \in Buf |-> NoBlock]
  /\ valid = [b \in Buf |-> FALSE] /\ refcnt = [b \in Buf |-> 0]
  /\ lock = [b \in Buf |-> NoProc]
  /\ disk = [n \in Block |-> Zero] /\ latest = disk
  /\ data = [b \in Buf |-> Zero]
  /\ pc = [p \in User |-> "idle"]
  /\ buf = [p \in User |-> 1] /\ want = [p \in User |-> NoBlock]
  /\ pinned = {} /\ panic = FALSE

\* A process is in the middle of one call at a time.
Step(p) ==
  /\ pc[Other(p)] \in {"idle", "hold", "dirty"}
  /\ \/ \E n \in Block : BGet(p, n)
     \/ \E v \in Value : Modify(p, v)
     \/ Lock(p) \/ BRead(p) \/ BPin(p) \/ BWrite(p) \/ Install(p) \/ Unlock(p) \/ BRelse(p)

Next == ~panic /\ \E p \in User : Step(p)

Spec == Init /\ [][Next]_vars
-----------------------------------------------------------------------------
Using(b) == {p \in User : pc[p] # "idle" /\ buf[p] = b}

TypeOK ==
  /\ order \in Bijection(Buf, Buf)
  /\ blk \in [Buf -> Block \cup {NoBlock}] /\ valid \in [Buf -> BOOLEAN]
  /\ refcnt \in [Buf -> 0..Cardinality(User) + 1]
  /\ data \in [Buf -> Value] /\ lock \in [Buf -> User \cup {NoProc}]
  /\ disk \in [Block -> Value] /\ latest \in [Block -> Value]
  /\ pc \in [User -> {"idle", "wait", "read", "hold", "dirty", "drop"}]
  /\ buf \in [User -> Buf] /\ want \in [User -> Block \cup {NoBlock}]
  /\ pinned \subseteq Buf /\ panic \in BOOLEAN

\* Two callers of bget never get two buffers for one block: the lookup and
\* the recycling are one critical section.
OneBufferPerBlock ==
  \A a, b \in Buf : a # b /\ blk[a] # NoBlock => blk[a] # blk[b]

\* Whoever reads a block next sees what the last writer left, through every
\* recycling, pin and write-back.
Coherent ==
  \A n \in Block :
    IF \E b \in Cached(n) : valid[b]
    THEN \A b \in Cached(n) : valid[b] => data[b] = latest[n]
    ELSE disk[n] = latest[n]

\* bget panics only when every buffer is in use or pinned: the search for one
\* to recycle misses none, and no reference is left behind.
PanicMeansFull ==
  panic => \A b \in Buf : b \in pinned \/ Using(b) # {}

\* Processes that hold a buffer and wait for another do not wait for each
\* other: the order of Inside is that of the code.
Waits(p, q) == \E u, w \in User : u[1] = p /\ w[1] = q /\ pc[u] = "wait" /\ lock[buf[u]] = w
NoWaitCycle ==
  \A S \in SUBSET Proc \ {{}} : \E p \in S : \A q \in S : ~Waits(p, q)

\* What bio.c promises.
CacheRight == TypeOK /\ OneBufferPerBlock /\ Coherent /\ PanicMeansFull
-----------------------------------------------------------------------------
(***************************************************************************)
(* The inductive invariant.  A reference belongs to a process between bget *)
(* and the end of brelse, or to the transaction that pinned the buffer, so *)
(* a buffer that bget may recycle is one whose contents are on disk.       *)
(***************************************************************************)
Owns(p) == pc[p] \in {"read", "hold", "dirty"}

\* A referenced buffer keeps its block; its sleep-lock is its user's; bread
\* returns it valid.
UseInv ==
  \A p \in User :
    /\ pc[p] # "idle" => want[p] \in Block /\ blk[buf[p]] = want[p]
    /\ Owns(p) => lock[buf[p]] = p /\ (valid[buf[p]] <=> pc[p] # "read")

\* refcnt counts the users of the buffer, and the pin.
RefInv ==
  \A b \in Buf : refcnt[b] = Cardinality(Using(b)) + (IF b \in pinned THEN 1 ELSE 0)

\* What is neither pinned nor in the hands of its writer is on disk.
CleanInv ==
  \A b \in Buf : valid[b] =>
    /\ blk[b] \in Block
    /\ b \in pinned \/ (\E p \in User : pc[p] = "dirty" /\ buf[p] = b) \/ data[b] = disk[blk[b]]

\* Every buffer is on the list.
ListInv == \A b \in Buf : \E i \in Buf : order[i] = b

CacheInv == UseInv /\ RefInv /\ CleanInv /\ ListInv
=============================================================================
