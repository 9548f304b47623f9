----------------------------- MODULE InodeCache -----------------------------
(***************************************************************************)
(* The inode cache of kernel/fs.c: ialloc, iget, ilock, iupdate, iunlock   *)
(* and iput, interleaved at every icache.lock, sleep-lock and block.       *)
(* Directories appear as the number of entries that name an inode: create  *)
(* and unlink change it with the inode locked, link after it has counted   *)
(* the new name and let go of the inode.                                   *)
(***************************************************************************)
EXTENDS Integers, FiniteSets

CONSTANTS Proc, NoProc,
          NINODE,     \* entries of icache.inode
          NInodes,    \* inode numbers 1..NInodes
          MaxLinks    \* bound: links to an inode

Slot   == 1..NINODE
NoSlot == 0
Inum   == 1..NInodes

VARIABLES
  inum, ref, valid, type, nlink, lock,  \* the fields of struct inode, by slot
  dtype, dnlink,                        \* struct dinode: allocated?, link count
  entries,                              \* directory entries naming an inode
  pc, ip, want,                         \* a process, its inode, the number it wants
  reused,                               \* inodes ialloc gave out while their iput was under way
  panic                                 \* iget found no entry

cache == <<inum, ref, valid>>
copy  == <<type, nlink>>
disk  == <<dtype, dnlink>>
vars  == <<cache, copy, lock, disk, entries, pc, ip, want, reused, panic>>

Goto(p, l) == pc' = [pc EXCEPT ![p] = l]

\* The first entry that nobody refers to.
Empty(s) == ref[s] = 0 /\ \A t \in 1..s - 1 : ref[t] > 0

Full(i) == \A s \in Slot : ref[s] > 0 /\ inum[s] # i

\* iget: the entry of inode i, or the first empty one recycled for it; its
\* caller goes on at l.
IGet(p, i, l) ==
  \/ /\ Full(i) /\ panic' = TRUE
     /\ UNCHANGED <<cache, ip, pc>>
  \/ \E s \in Slot :
       /\ \/ ref[s] > 0 /\ inum[s] = i /\ UNCHANGED <<inum, valid>>
          \/ /\ Empty(s) /\ ~\E t \in Slot : ref[t] > 0 /\ inum[t] = i
             /\ inum' = [inum EXCEPT ![s] = i]
             /\ valid' = [valid EXCEPT ![s] = FALSE]
       /\ ref' = [ref EXCEPT ![s] = @ + 1]
       /\ ip' = [ip EXCEPT ![p] = s] /\ Goto(p, l)
       /\ UNCHANGED panic

\* dirlookup finds an entry; the directory is locked, so it stays until iget.
Lookup(p, i) ==
  /\ pc[p] = "idle" /\ entries[i] > 0
  /\ IGet(p, i, "ref")
  /\ UNCHANGED <<copy, lock, disk, entries, want, reused>>

\* ialloc: the first free inode is marked on disk, then iget is called.
IAlloc(p) ==
  /\ pc[p] = "idle"
  /\ \E i \in Inum :
       /\ ~dtype[i] /\ \A j \in 1..i - 1 : dtype[j]
       /\ dtype' = [dtype EXCEPT ![i] = TRUE]
       /\ dnlink' = [dnlink EXCEPT ![i] = 0]
       /\ want' = [want EXCEPT ![p] = i]
  /\ Goto(p, "alloc")
  /\ UNCHANGED <<cache, copy, lock, entries, ip, reused, panic>>

IAllocGet(p) ==
  /\ pc[p] = "alloc"
  /\ IGet(p, want[p], "new")
  /\ reused' = IF \E q \in Proc : pc[q] \in {"freed", "drop"} /\ inum[ip[q]] = want[p]
               THEN reused \cup {want[p]} ELSE reused \ {want[p]}
  /\ want' = [want EXCEPT ![p] = IF panic' THEN @ ELSE 1]
  /\ UNCHANGED <<copy, lock, disk, entries>>

\* idup, for a second process (fork, or chdir and open).
IDup(p, q) ==
  /\ pc[p] = "ref" /\ pc[q] = "idle"
  /\ ref' = [ref EXCEPT ![ip[p]] = @ + 1]
  /\ ip' = [ip EXCEPT ![q] = ip[p]] /\ Goto(q, "ref")
  /\ UNCHANGED <<inum, valid, copy, lock, disk, entries, want, reused, panic>>

\* ilock: acquiresleep, then read the inode if it is not valid.
ILock(p) ==
  /\ pc[p] \in {"ref", "new", "linking"} /\ lock[ip[p]] = NoProc
  /\ lock' = [lock EXCEPT ![ip[p]] = p]
  /\ Goto(p, [ref |-> "load", new |-> "loadnew", linking |-> "loadbad"][pc[p]])
  /\ UNCHANGED <<cache, copy, disk, entries, ip, want, reused, panic>>

Load(p) ==
  /\ pc[p] \in {"load", "loadnew", "loadbad"}
  /\ LET s == ip[p]  i == inum[s] IN
       /\ type' = [type EXCEPT ![s] = IF valid[s] THEN @ ELSE dtype[i]]
       /\ nlink' = [nlink EXCEPT ![s] = IF valid[s] THEN @ ELSE dnlink[i]]
       /\ valid' = [valid EXCEPT ![s] = TRUE]
  /\ Goto(p, [load |-> "locked", loadnew |-> "fresh", loadbad |-> "bad"][pc[p]])
  /\ UNCHANGED <<inum, ref, lock, disk, entries, ip, want, reused, panic>>

\* With the inode locked: change its links by d, iupdate.
Relink(p, d) ==
  LET s == ip[p]  i == inum[s] IN
  /\ nlink' = [nlink EXCEPT ![s] = @ + d]
  /\ dnlink' = [dnlink EXCEPT ![i] = nlink[s] + d]
  /\ dtype' = [dtype EXCEPT ![i] = type[s]]
  /\ UNCHANGED <<cache, type, ip, want, reused, panic>>
Rename(p, d) == entries' = [entries EXCEPT ![inum[ip[p]]] = @ + d]

\* create: the new inode's only link, and dirlink.
Create(p) ==
  /\ pc[p] = "fresh"
  /\ Relink(p, 1) /\ Rename(p, 1) /\ Goto(p, "locked") /\ UNCHANGED lock

\* unlink, whose name stays because its directory is locked.
Unlink(p) ==
  /\ pc[p] = "locked" /\ entries[inum[ip[p]]] >= 1
  /\ Relink(p, -1) /\ Rename(p, -1) /\ UNCHANGED <<lock, pc>>

\* link: count the name and unlock; later make it, or take the count back.
Link(p) ==
  /\ pc[p] = "locked" /\ nlink[ip[p]] < MaxLinks
  /\ Relink(p, 1)
  /\ lock' = [lock EXCEPT ![ip[p]] = NoProc] /\ Goto(p, "linking") /\ UNCHANGED entries

LinkName(p) ==
  /\ pc[p] = "linking"
  /\ Rename(p, 1) /\ Goto(p, "ref")
  /\ UNCHANGED <<cache, copy, lock, disk, ip, want, reused, panic>>

LinkBad(p) ==
  /\ pc[p] = "bad"
  /\ Relink(p, -1) /\ Goto(p, "locked") /\ UNCHANGED <<lock, entries>>

IUnlock(p) ==
  /\ pc[p] = "locked"
  /\ lock' = [lock EXCEPT ![ip[p]] = NoProc]
  /\ Goto(p, "ref")
  /\ UNCHANGED <<cache, copy, disk, entries, ip, want, reused, panic>>
-----------------------------------------------------------------------------
(* iput.                                                                   *)

Unref(p, n) ==
  /\ ref' = [ref EXCEPT ![ip[p]] = @ - n]
  /\ ip' = [ip EXCEPT ![p] = NoSlot] /\ Goto(p, "idle")

DropRef(p) == Unref(p, 1)

LastRef(s) == ref[s] = 1 /\ valid[s] /\ nlink[s] = 0

IPut(p) ==
  /\ pc[p] = "ref"
  /\ IF LastRef(ip[p])
     THEN lock' = [lock EXCEPT ![ip[p]] = p] /\ Goto(p, "free") /\ UNCHANGED <<ref, ip>>
     ELSE DropRef(p) /\ UNCHANGED lock
  /\ UNCHANGED <<inum, valid, copy, disk, entries, want, reused, panic>>

\* itrunc, type = 0, iupdate: from here ialloc may hand the number out again.
Free(p) ==
  /\ pc[p] = "free"
  /\ type' = [type EXCEPT ![ip[p]] = FALSE]
  /\ dtype' = [dtype EXCEPT ![inum[ip[p]]] = FALSE]
  /\ Goto(p, "freed")
  /\ UNCHANGED <<cache, nlink, lock, dnlink, entries, ip, want, reused, panic>>

FreedPut_keeps_valid(p) ==
  /\ pc[p] = "freed"
  /\ lock' = [lock EXCEPT ![ip[p]] = NoProc]
  /\ Goto(p, "drop")
  /\ UNCHANGED <<cache, copy, disk, entries, ip, want, reused, panic>>

FreedPut(p) ==
  /\ pc[p] = "freed"
  /\ valid' = [valid EXCEPT ![ip[p]] = FALSE]
  /\ lock' = [lock EXCEPT ![ip[p]] = NoProc]
  /\ Goto(p, "drop")
  /\ UNCHANGED <<inum, ref, copy, disk, entries, ip, want, reused, panic>>

Drop(p) ==
  /\ pc[p] = "drop" /\ DropRef(p)
  /\ UNCHANGED <<inum, valid, copy, lock, disk, entries, want, reused, panic>>
-----------------------------------------------------------------------------
\* iinit; the disk holds one file.
Init ==
  /\ inum = [s \in Slot |-> 1] /\ ref = [s \in Slot |-> 0]
  /\ valid = [s \in Slot |-> FALSE]
  /\ type = [s \in Slot |-> FALSE] /\ nlink = [s \in Slot |-> 0]
  /\ lock = [s \in Slot |-> NoProc]
  /\ dtype = [i \in Inum |-> i = 1]
  /\ dnlink = [i \in Inum |-> IF i = 1 THEN 1 ELSE 0]
  /\ entries = dnlink
  /\ pc = [p \in Proc |-> "idle"]
  /\ ip = [p \in Proc |-> NoSlot]
  /\ want = [p \in Proc |-> 1] /\ reused = {} /\ panic = FALSE

Step(p) ==
  \/ \E i \in Inum : Lookup(p, i)
  \/ \E q \in Proc \ {p} : IDup(p, q)
  \/ IAlloc(p) \/ IAllocGet(p) \/ ILock(p) \/ Load(p) \/ IUnlock(p)
  \/ Create(p) \/ Unlink(p) \/ Link(p) \/ LinkName(p) \/ LinkBad(p)
  \/ IPut(p) \/ Free(p) \/ FreedPut(p) \/ Drop(p)

Next == ~panic /\ \E p \in Proc : Step(p)

Spec == Init /\ [][Next]_vars
-----------------------------------------------------------------------------
TypeOK ==
  /\ inum \in [Slot -> Inum] /\ ref \in [Slot -> 0..Cardinality(Proc)]
  /\ valid \in [Slot -> BOOLEAN] /\ type \in [Slot -> BOOLEAN]
  /\ nlink \in [Slot -> 0..MaxLinks] /\ lock \in [Slot -> Proc \cup {NoProc}]
  /\ dtype \in [Inum -> BOOLEAN] /\ dnlink \in [Inum -> 0..MaxLinks]
  /\ entries \in [Inum -> 0..MaxLinks]
  /\ pc \in [Proc -> {"idle", "alloc", "new", "ref", "load", "loadnew", "loadbad", "fresh",
                      "locked", "linking", "bad", "free", "freed", "drop"}]
  /\ ip \in [Proc -> Slot \cup {NoSlot}] /\ want \in [Proc -> Inum]
  /\ reused \subseteq Inum /\ panic \in BOOLEAN

\* Two processes that use one inode share its cache entry, so that its
\* sleep-lock excludes them.
OneEntryPerInode ==
  \A s, t \in Slot : s # t /\ ref[s] > 0 /\ ref[t] > 0 => inum[s] # inum[t]

\* Whoever has an inode locked sees what is on disk: an inode that was freed
\* and allocated again while its entry stayed cached is read again.
LockedIsCurrent ==
  \A p \in Proc : pc[p] \in {"fresh", "locked", "bad"} =>
    LET s == ip[p] IN
    /\ valid[s] /\ type[s] /\ dtype[inum[s]]
    /\ nlink[s] = dnlink[inum[s]]

\* iput: "ip->ref == 1 means no other process can have ip locked, so this
\* acquiresleep() won't block (or deadlock)" under icache.lock.
IputDoesNotBlock ==
  \A p \in Proc : pc[p] = "ref" /\ ref[ip[p]] = 1 => lock[ip[p]] = NoProc

\* Calls of link that have counted a name of i and not made it.
Linking(i) == {p \in Proc : pc[p] \in {"linking", "loadbad", "bad"} /\ inum[ip[p]] = i}

\* What a directory names is allocated, and the links on disk are the names
\* and those that link is about to make: so the count never falls to zero
\* under a name, and unlink's panic on nlink < 1 does not happen.
NoDangling ==
  \A i \in Inum :
    IF dtype[i] THEN dnlink[i] = entries[i] + Cardinality(Linking(i))
    ELSE entries[i] = 0 /\ Linking(i) = {}

InUse(i) ==
  \E p \in Proc : pc[p] # "idle" /\ (IF pc[p] = "alloc" THEN want[p] ELSE inum[ip[p]]) = i

\* "iput() frees if the reference and link counts have fallen to zero": an
\* inode that nothing names is free, or somebody uses it and will free it.
\* That goes wrong for an inode that ialloc gives out before the iput that
\* freed it has given up its reference (lines 351 to 353): the later iput of
\* its new user, after an unlink, sees two references, and nobody frees it.
UnusedIsFreed ==
  \A i \in Inum \ reused : dtype[i] /\ entries[i] = 0 => InUse(i)

\* iget panics only when every entry is in use by another inode.
PanicMeansFull ==
  panic => (\A s \in Slot : ref[s] > 0) /\ Cardinality({inum[s] : s \in Slot}) = NINODE

\* What the inode cache promises.
InodesRight ==
  /\ TypeOK /\ OneEntryPerInode /\ LockedIsCurrent
  /\ IputDoesNotBlock /\ NoDangling /\ UnusedIsFreed /\ PanicMeansFull
=============================================================================
