-------------------------------- MODULE Log ---------------------------------
(***************************************************************************)
(* The redo log of kernel/log.c: begin_op, log_write, end_op with group    *)
(* commit, and recovery at boot, together with what it needs of the buffer *)
(* cache (a cached copy and a reference count per block) and of the disk   *)
(* (single-block writes are atomic and survive a crash).                   *)
(*                                                                         *)
(* Each critical section under log.lock is one action.  The tests of       *)
(* log_write that run before the lock is taken are an action of their own. *)
(* Every write of a disk block is a separate action, so that a crash can   *)
(* fall between any two of them.                                           *)
(***************************************************************************)
EXTENDS Integers, Sequences, FiniteSets, Functions

CONSTANTS Proc,         \* processes that make file-system calls
          Block,        \* home block numbers
          Val,          \* block contents
          Zero,         \* the contents mkfs wipes every block with
          NotCached,    \* no buffer of the cache holds the block
          NoBlock,      \* the process has no buffer locked
          MAXOPBLOCKS,  \* blocks begin_op reserves per call (param.h:9)
          LOGSIZE,      \* capacity of logheader.block[] (param.h:10)
          size,         \* log.size: blocks of the on-disk log, header included
          OpBlocks,     \* distinct blocks a call really writes, at most
          UintMax,      \* largest value of a C unsigned int
          MaxCrashes    \* bound: crashes in a behaviour

ASSUME LogConstants ==
  /\ IsFiniteSet(Proc) /\ IsFiniteSet(Block)
  /\ NotCached \notin Val
  /\ NoBlock \notin Block
  /\ Zero \in Val
  /\ {MAXOPBLOCKS, LOGSIZE, size, OpBlocks, UintMax} \subseteq Nat \ {0}
  /\ MaxCrashes \in Nat
  /\ MAXOPBLOCKS < LOGSIZE
  /\ size <= LOGSIZE
  /\ UintMax > 2

VARIABLES
  pc,           \* pc[p]: where process p is in begin_op/log_write/end_op
  bp,           \* bp[p]: the buffer p has locked, as a block number
  wrote,        \* wrote[p]: the blocks p's current call has logged
  lh,           \* log.lh: the block numbers logged and not yet installed
  outstanding,  \* log.outstanding
  committing,   \* log.committing
  tail,         \* loop counter of write_log and install_trans
  cache,        \* b->data of the buffer of each block, or NotCached
  refcnt,       \* b->refcnt of the buffer of each block
  head,         \* on disk: the header block, as the list block[0..n-1]
  dlog,         \* on disk: the log blocks log.start+1, log.start+2, ...
  home,         \* on disk: the home blocks
  boot,         \* progress of initlog(); "up" once it returned
  reinstalled,  \* the blocks this boot's recovery copied from the log
  panicked,     \* panic() was called
  crashes       \* number of crashes so far

procVars == <<pc, bp, wrote>>
logVars  == <<lh, outstanding, committing, tail>>
memVars  == <<cache, refcnt>>
diskVars == <<head, dlog, home>>
sysVars  == <<boot, reinstalled, panicked, crashes>>
vars     == <<procVars, logVars, memVars, diskVars, sysVars>>
-----------------------------------------------------------------------------
(* Buffer cache, as the log uses it.                                       *)

\* What bread(b) returns: the cached copy, or the disk's when there is none.
bread(b) == IF cache[b] = NotCached THEN home[b] ELSE cache[b]

\* refcnt is an unsigned int: below zero it wraps around.
Wrap(n) == n % (UintMax + 1)

bget(n)   == Wrap(n + 1)

bpin_forgotten(n) == n
bpin(n)   == Wrap(n + 1)

bunpin(n) == Wrap(n - 1)

brelse(n) == Wrap(n - 1)

\* A reader outside any transaction (readi, ilock) fills the cache.
Read(b) ==
  /\ boot = "up" /\ ~panicked
  /\ cache[b] = NotCached
  /\ cache' = [cache EXCEPT ![b] = home[b]]
  /\ UNCHANGED <<procVars, logVars, refcnt, diskVars, sysVars>>

\* bget gives the buffer of b to another block.  It looks only at refcnt.  A
\* count that has wrapped in recovery can be zero while a process has the
\* buffer locked; recycling it then would change b->blockno under log_write.
\* The guard on bp leaves that case out: LoggedStaysCached fails without it,
\* and a count that has not wrapped is never zero while the buffer is locked.
Recycle(b) ==
  /\ boot = "up" /\ ~panicked
  /\ cache[b] # NotCached
  /\ refcnt[b] = 0
  /\ \A p \in Proc : bp[p] # b
  /\ cache' = [cache EXCEPT ![b] = NotCached]
  /\ UNCHANGED <<procVars, logVars, refcnt, diskVars, sysVars>>
-----------------------------------------------------------------------------
(* begin_op and log_write.                                                 *)

Running(p) == boot = "up" /\ ~panicked /\ p \in Proc

NoSpace_for_itself == Len(lh) + outstanding * MAXOPBLOCKS > LOGSIZE

\* The admission test of begin_op.
NoSpace == Len(lh) + (outstanding + 1) * MAXOPBLOCKS > LOGSIZE

Wakeup_lost(f) == f

\* wakeup(&log): every process asleep in begin_op tries again.
Wakeup(f) == [q \in Proc |-> IF f[q] = "sleeping" THEN "begin" ELSE f[q]]

BeginWait(p) ==
  /\ Running(p) /\ pc[p] \in {"idle", "begin"}
  /\ committing \/ NoSpace
  /\ pc' = [pc EXCEPT ![p] = "sleeping"]
  /\ UNCHANGED <<bp, wrote, logVars, memVars, diskVars, sysVars>>

BeginOp_during_commit(p) ==
  /\ Running(p) /\ pc[p] \in {"idle", "begin"}
  /\ ~NoSpace
  /\ outstanding' = outstanding + 1
  /\ pc' = [pc EXCEPT ![p] = "op"]
  /\ wrote' = [wrote EXCEPT ![p] = {}]
  /\ UNCHANGED <<bp, lh, committing, tail, memVars, diskVars, sysVars>>

BeginOp(p) ==
  /\ Running(p) /\ pc[p] \in {"idle", "begin"}
  /\ ~committing /\ ~NoSpace
  /\ outstanding' = outstanding + 1
  /\ pc' = [pc EXCEPT ![p] = "op"]
  /\ wrote' = [wrote EXCEPT ![p] = {}]
  /\ UNCHANGED <<bp, lh, committing, tail, memVars, diskVars, sysVars>>

\* The caller's bp = bread(b) and its change to bp->data.
Modify(p, b, v) ==
  /\ Running(p) /\ pc[p] = "op"
  /\ \A q \in Proc : bp[q] # b
  /\ b \in wrote[p] \/ Cardinality(wrote[p]) < OpBlocks
  /\ bp' = [bp EXCEPT ![p] = b]
  /\ cache' = [cache EXCEPT ![b] = v]
  /\ refcnt' = [refcnt EXCEPT ![b] = bget(@)]
  /\ pc' = [pc EXCEPT ![p] = "log_write"]
  /\ UNCHANGED <<wrote, logVars, diskVars, sysVars>>

\* The two panic tests of log_write, made before log.lock is acquired.
LogWriteTests(p) ==
  /\ Running(p) /\ pc[p] = "log_write"
  /\ IF Len(lh) >= LOGSIZE \/ Len(lh) >= size - 1 \/ outstanding < 1
       THEN panicked' = TRUE /\ UNCHANGED pc
       ELSE pc' = [pc EXCEPT ![p] = "logging"] /\ UNCHANGED panicked
  /\ UNCHANGED <<bp, wrote, logVars, memVars, diskVars,
                 boot, reinstalled, crashes>>

\* The rest of log_write (absorption, or bpin and append), then brelse.
LogWrite(p) ==
  /\ Running(p) /\ pc[p] = "logging"
  /\ LET b == bp[p] IN
       /\ IF b \in Range(lh)
            THEN /\ lh' = lh
                 /\ refcnt' = [refcnt EXCEPT ![b] = brelse(@)]
            ELSE /\ lh' = Append(lh, b)
                 /\ refcnt' = [refcnt EXCEPT ![b] = brelse(bpin(@))]
       /\ wrote' = [wrote EXCEPT ![p] = @ \cup {b}]
  /\ bp' = [bp EXCEPT ![p] = NoBlock]
  /\ pc' = [pc EXCEPT ![p] = "op"]
  /\ UNCHANGED <<outstanding, committing, tail, cache, diskVars, sysVars>>
-----------------------------------------------------------------------------
(* end_op and commit.                                                      *)

\* First critical section of end_op.  The last open call will commit.
EndOp(p) ==
  /\ Running(p) /\ pc[p] = "op"
  /\ outstanding' = outstanding - 1
  /\ panicked' = committing
  /\ IF outstanding = 1 /\ ~committing
       THEN /\ committing' = TRUE
            /\ pc' = [pc EXCEPT ![p] = IF Len(lh) > 0 THEN "write_log"
                                                    ELSE "end_commit"]
       ELSE /\ UNCHANGED committing
            /\ pc' = Wakeup([pc EXCEPT ![p] = "idle"])
  /\ UNCHANGED <<bp, wrote, lh, tail, memVars, diskVars,
                 boot, reinstalled, crashes>>

\* One iteration of write_log: the cached block goes to its log block.
WriteLog(p) ==
  /\ Running(p) /\ pc[p] = "write_log"
  /\ LET b == lh[tail + 1] IN
       /\ dlog' = [dlog EXCEPT ![tail + 1] = bread(b)]
       /\ cache' = [cache EXCEPT ![b] = bread(b)]
  /\ IF tail + 1 < Len(lh)
       THEN tail' = tail + 1 /\ UNCHANGED pc
       ELSE tail' = 0 /\ pc' = [pc EXCEPT ![p] = "write_head"]
  /\ UNCHANGED <<bp, wrote, lh, outstanding, committing, refcnt, head, home,
                 sysVars>>

\* write_head: the header reaches the disk.  This is the commit.
WriteHead(p) ==
  /\ Running(p) /\ pc[p] = "write_head"
  /\ head' = lh
  /\ pc' = [pc EXCEPT ![p] = "install"]
  /\ UNCHANGED <<bp, wrote, logVars, memVars, dlog, home, sysVars>>

InstallBlock_unwritten ==
  LET b == lh[tail + 1] IN
    /\ home' = home
    /\ cache' = [cache EXCEPT ![b] = dlog[tail + 1]]
    /\ refcnt' = [refcnt EXCEPT ![b] = brelse(bunpin(bget(@)))]

\* One iteration of install_trans: log block to home block, then bunpin.
InstallBlock ==
  LET b == lh[tail + 1] IN
    /\ home' = [home EXCEPT ![b] = dlog[tail + 1]]
    /\ cache' = [cache EXCEPT ![b] = dlog[tail + 1]]
    /\ refcnt' = [refcnt EXCEPT ![b] = brelse(bunpin(bget(@)))]

Install(p) ==
  /\ Running(p) /\ pc[p] = "install"
  /\ InstallBlock
  /\ tail' = tail + 1
  /\ pc' = IF tail + 1 < Len(lh) THEN pc ELSE [pc EXCEPT ![p] = "erase"]
  /\ UNCHANGED <<bp, wrote, lh, outstanding, committing, head, dlog, sysVars>>

Erase_in_memory_only(p) ==
  /\ Running(p) /\ pc[p] = "erase"
  /\ lh' = <<>>
  /\ tail' = 0
  /\ pc' = [pc EXCEPT ![p] = "end_commit"]
  /\ UNCHANGED <<bp, wrote, outstanding, committing, memVars, diskVars, sysVars>>

\* log.lh.n = 0 and the second write_head.
Erase(p) ==
  /\ Running(p) /\ pc[p] = "erase"
  /\ lh' = <<>>
  /\ head' = <<>>
  /\ tail' = 0
  /\ pc' = [pc EXCEPT ![p] = "end_commit"]
  /\ UNCHANGED <<bp, wrote, outstanding, committing, memVars, dlog, home,
                 sysVars>>

\* Last critical section of end_op.
EndCommit(p) ==
  /\ Running(p) /\ pc[p] = "end_commit"
  /\ committing' = FALSE
  /\ pc' = Wakeup([pc EXCEPT ![p] = "idle"])
  /\ UNCHANGED <<bp, wrote, lh, outstanding, tail, memVars, diskVars, sysVars>>
-----------------------------------------------------------------------------
(* Crash, and recovery by initlog before any process makes a call.         *)

Crash ==
  /\ crashes < MaxCrashes
  /\ crashes' = crashes + 1
  /\ pc' = [p \in Proc |-> "idle"]
  /\ bp' = [p \in Proc |-> NoBlock]
  /\ wrote' = [p \in Proc |-> {}]
  /\ lh' = <<>>
  /\ outstanding' = 0
  /\ committing' = FALSE
  /\ tail' = 0
  /\ cache' = [b \in Block |-> NotCached]
  /\ refcnt' = [b \in Block |-> 0]
  /\ boot' = "read_head"
  /\ reinstalled' = {}
  /\ panicked' = FALSE
  /\ UNCHANGED diskVars

ReadHead ==
  /\ boot = "read_head"
  /\ lh' = head
  /\ boot' = IF Len(head) > 0 THEN "install" ELSE "clear"
  /\ UNCHANGED <<procVars, outstanding, committing, tail, memVars, diskVars,
                 reinstalled, panicked, crashes>>

RecoverBlock ==
  /\ boot = "install"
  /\ InstallBlock
  /\ reinstalled' = reinstalled \cup {lh[tail + 1]}
  /\ tail' = tail + 1
  /\ boot' = IF tail + 1 < Len(lh) THEN "install" ELSE "clear"
  /\ UNCHANGED <<procVars, lh, outstanding, committing, head, dlog,
                 panicked, crashes>>

ClearLog ==
  /\ boot = "clear"
  /\ lh' = <<>>
  /\ head' = <<>>
  /\ tail' = 0
  /\ boot' = "up"
  /\ UNCHANGED <<procVars, outstanding, committing, memVars, dlog, home,
                 reinstalled, panicked, crashes>>
-----------------------------------------------------------------------------
\* mkfs writes an empty header; the first boot recovers nothing.
Init ==
  /\ pc = [p \in Proc |-> "idle"]
  /\ bp = [p \in Proc |-> NoBlock]
  /\ wrote = [p \in Proc |-> {}]
  /\ lh = <<>>
  /\ outstanding = 0
  /\ committing = FALSE
  /\ tail = 0
  /\ cache = [b \in Block |-> NotCached]
  /\ refcnt = [b \in Block |-> 0]
  /\ boot = "read_head"
  /\ reinstalled = {}
  /\ panicked = FALSE
  /\ head = <<>>
  /\ dlog = [i \in 1..LOGSIZE |-> Zero]
  /\ home = [b \in Block |-> Zero]
  /\ crashes = 0

Commit(p) == WriteLog(p) \/ WriteHead(p) \/ Install(p) \/ Erase(p)

CallStep(p) ==
  \/ BeginWait(p) \/ BeginOp(p)
  \/ \E b \in Block, v \in Val : Modify(p, b, v)
  \/ LogWriteTests(p) \/ LogWrite(p)
  \/ EndOp(p)
  \/ Commit(p) \/ EndCommit(p)

Recover == ReadHead \/ RecoverBlock \/ ClearLog

\* Everything but the recycling of buffers.
Core == \/ \E p \in Proc : CallStep(p)
        \/ \E b \in Block : Read(b)
        \/ Recover
        \/ Crash

Next == Core \/ \E b \in Block : Recycle(b)

Spec == Init /\ [][Next]_vars

\* The cache has room to keep the buffers that recovery went through.
RoomyNext == Core \/ \E b \in Block \ reinstalled : Recycle(b)

RoomySpec == Init /\ [][RoomyNext]_vars
-----------------------------------------------------------------------------
(* Properties.                                                             *)

InOp(p) == pc[p] \in {"op", "log_write", "logging"}

InCommit(p) ==
  pc[p] \in {"write_log", "write_head", "install", "erase", "end_commit"}

TypeOK ==
  /\ pc \in [Proc -> {"idle", "begin", "sleeping", "op", "log_write",
                      "logging", "write_log", "write_head", "install",
                      "erase", "end_commit"}]
  /\ bp \in [Proc -> Block \cup {NoBlock}]
  /\ wrote \in [Proc -> SUBSET Block]
  /\ lh \in Seq(Block)
  /\ outstanding \in Int
  /\ committing \in BOOLEAN
  /\ tail \in 0..LOGSIZE
  /\ cache \in [Block -> Val \cup {NotCached}]
  /\ refcnt \in [Block -> 0..UintMax]
  /\ head \in Seq(Block)
  /\ dlog \in [1..LOGSIZE -> Val]
  /\ home \in [Block -> Val]
  /\ boot \in {"read_head", "install", "clear", "up"}
  /\ reinstalled \in SUBSET Block
  /\ panicked \in BOOLEAN
  /\ crashes \in Nat

\* No file-system call panics in the log: the space begin_op reserves is
\* enough for what the admitted calls write, although log_write tests it
\* without the lock, and no call ends while another one commits.
NoPanic == ~panicked

\* A process sleeps in begin_op only while the reason for it lasts: a commit
\* is running or the log has no room for one more call.  A wakeup that
\* end_op forgets leaves a sleeper without a reason.
SleeperHasReason ==
  \A p \in Proc : pc[p] = "sleeping" => committing \/ NoSpace

\* A block in the in-memory header that install_trans has not reached stays
\* in the buffer cache: log_write pinned it, and write_log relies on it.
LoggedStaysCached ==
  \A i \in DOMAIN lh :
    boot = "up" /\ (\A p \in Proc : pc[p] \notin {"install", "erase"})
      => cache[lh[i]] # NotCached

\* When no call is open and no commit runs, nothing is left in the log and
\* what the file system sees is what the home blocks on disk hold.
QuietMeansDurable ==
  boot = "up" /\ outstanding = 0 /\ ~committing
    => /\ head = <<>> /\ lh = <<>>
       /\ \A b \in Block : bread(b) = home[b]

-----------------------------------------------------------------------------
(* The inductive invariant behind NoPanic and SleeperHasReason.            *)

Ops == {p \in Proc : InOp(p)}

\* One element for every block an open call may still add to the log.
Unspent == {t \in Proc \X (1..OpBlocks) :
              InOp(t[1]) /\ t[2] > Cardinality(wrote[t[1]])}

\* log.outstanding and log.committing say who is in a call and who commits.
WhoInv ==
  /\ outstanding = Cardinality(Ops)
  /\ \A p \in Proc : InCommit(p) => committing
  /\ committing => Ops = {}
  /\ \A p, q \in Proc : InCommit(p) /\ InCommit(q) => p = q
  /\ boot # "up" => ~committing /\ \A p \in Proc : pc[p] = "idle"

\* The loops over the header stay inside it, and between commits it is empty.
LoopInv ==
  /\ boot = "up" /\ Ops = {} /\ ~committing => lh = <<>>
  /\ boot = "up" /\ ~committing => tail = 0
  /\ boot = "install" => tail < Len(lh)
  /\ boot = "read_head" => tail = 0
  /\ \A p \in Proc :
       /\ pc[p] \in {"write_log", "install"} => tail < Len(lh)
       /\ pc[p] = "write_head" => tail = 0 /\ lh # <<>>
       /\ pc[p] = "end_commit" => tail = 0 /\ lh = <<>>

\* What a call has logged is in the header, and it keeps to its quota.
CallInv ==
  \A p \in Proc :
    /\ InOp(p) => wrote[p] \subseteq Range(lh)
    /\ pc[p] \in {"log_write", "logging"} =>
         /\ bp[p] \in Block
         /\ bp[p] \in wrote[p] \/ Cardinality(wrote[p]) < OpBlocks

\* What is logged plus what may still be logged leaves a log block free.
SpaceInv ==
  /\ Len(lh) + Cardinality(Unspent) <= size - 2
  /\ Len(head) <= size - 2

LogInv == WhoInv /\ LoopInv /\ CallInv /\ SpaceInv
-----------------------------------------------------------------------------
(* The inductive invariant behind atomicity.                               *)

Installing == \E p \in Proc : pc[p] \in {"install", "erase"}

\* The blocks log_write pinned and install_trans has not come to.
Pinned == {lh[i] : i \in {j \in DOMAIN lh : boot = "up" /\ (Installing => j > tail)}}

\* The blocks whose buffer a process has locked: it is about to log them.
Held == {b \in Block : \E p \in Proc : bp[p] = b}

\* The header on disk is empty, or the one in memory is its copy; a block is
\* in it once.
HeaderInv ==
  /\ IsInjective(lh) /\ IsInjective(head)
  /\ boot = "up" => head = IF Installing THEN lh ELSE <<>>
  /\ boot \in {"install", "clear"} => lh = head

\* A buffer is locked by one process at a time, from bread to brelse.
LockInv ==
  \A p \in Proc :
    /\ bp[p] # NoBlock <=> pc[p] \in {"log_write", "logging"}
    /\ \A q \in Proc : bp[p] = bp[q] /\ bp[p] # NoBlock => p = q

\* How far the loops of write_log and install_trans have come.
CopyInv ==
  /\ \A p \in Proc :
       /\ pc[p] = "write_log" => \A i \in 1..tail : dlog[i] = bread(lh[i])
       /\ pc[p] \in {"write_head", "install", "erase"} =>
            \A i \in DOMAIN lh : dlog[i] = bread(lh[i])
       /\ pc[p] \in {"install", "erase"} => \A i \in 1..tail : home[lh[i]] = dlog[i]
       /\ pc[p] = "erase" => tail = Len(lh)
  /\ boot = "install" => \A i \in 1..tail : home[lh[i]] = dlog[i]
  /\ boot = "clear" => \A i \in DOMAIN lh : home[lh[i]] = dlog[i]

\* A block that is not in the log has the same contents in memory and at home.
CleanInv ==
  \A b \in Block :
    boot # "up" \/ b \notin Range(lh) \cup Held => bread(b) = home[b]

\* A count is what pins and locks make it, but for the blocks recovery went
\* through: their count has wrapped, and their buffers stay.
PinInv ==
  \A b \in Block :
    /\ b \in Pinned \cup Held => cache[b] # NotCached
    /\ IF b \in reinstalled THEN cache[b] # NotCached
       ELSE refcnt[b] = (IF b \in Pinned THEN 1 ELSE 0) + (IF b \in Held THEN 1 ELSE 0)

DataInv == HeaderInv /\ LockInv /\ CopyInv /\ CleanInv /\ PinInv
-----------------------------------------------------------------------------
(* Atomicity, as a refinement.                                             *)

\* What the disk holds after recovery, whatever the moment of the crash.
Recovered ==
  [b \in Block |-> IF b \in Range(head)
                    THEN dlog[CHOOSE i \in DOMAIN head : head[i] = b]
                    ELSE home[b]]

View == IF boot = "up" THEN [b \in Block |-> bread(b)] ELSE Recovered

AD == INSTANCE AtomicDisk
        WITH mem <- View, durable <- Recovered, active <- {p \in Proc : InOp(p)}

\* The log makes file-system calls atomic across crashes: it implements
\* AtomicDisk, with write_head as the moment of commit.
CallsAreAtomic == AD!Spec
=============================================================================
