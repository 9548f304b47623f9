------------------------------- MODULE FsTree -------------------------------
(***************************************************************************)
(* The directory tree: path lookup (namex, dirlookup, dirlink of           *)
(* kernel/fs.c) and the calls that change names and links (kernel/         *)
(* sysfile.c: link, unlink, open, mkdir, mknod, chdir), by processes that  *)
(* interleave wherever one of them may have to wait for an inode's lock.   *)
(* A stretch with one inode locked is one step; unlink keeps the directory *)
(* locked while it waits for the inode in it.  An inode's in-memory        *)
(* references are counted; the last iput of one without links frees it.    *)
(***************************************************************************)
EXTENDS Integers, Sequences, FiniteSets, Functions

CONSTANTS Proc, NoProc,
          NInodes,    \* inodes 1..NInodes; create is not called when none is free
          Name,       \* names of files
          Paths,      \* what calls are given: [abs |-> ..., elems |-> ...]
          Ops         \* the calls that are made

Root == 1
Inum == 1..NInodes
Entry == Name \cup {".", ".."}
Empty == [n \in Entry |-> 0]
None == [op |-> "none", parent |-> FALSE, path |-> <<>>, new |-> <<>>, ip |-> 0, dp |-> 0, old |-> 0]

VARIABLES type, nlink, ents,    \* inodes: type, links, directory contents
          ref, lock,            \* icache: references, sleep-locks
          cwd, file,            \* p->cwd, and the inode a process has open
          pc, call,             \* where a process is in which call
          ghost,                \* a name was made in a directory without links
          panic                 \* ilock met an inode without a type, or unlink one without links

inodes == <<type, nlink, ents, ref>>
vars == <<inodes, lock, cwd, file, pc, call, ghost, panic>>

Is(i, ty) == type[i] = ty
Free == {i \in Inum : type[i] = "none"}

\* iput once for each inode in the sequence s, applied to inodes with link
\* counts nl, types ty, contents en and counts rf.
Put(s, ty, nl, en, rf) ==
  LET n(i) == Len(SelectSeq(s, LAMBDA j : j = i))
      left(i) == rf[i] - n(i)
      gone(i) == n(i) > 0 /\ left(i) = 0 /\ nl[i] = 0
  IN  /\ ref' = [i \in Inum |-> left(i)]
      /\ type' = [i \in Inum |-> IF gone(i) THEN "none" ELSE ty[i]]
      /\ ents' = [i \in Inum |-> IF gone(i) THEN Empty ELSE en[i]]
      /\ nlink' = nl
IPut(s) == Put(s, type, nlink, ents, ref)

Finish(p) == pc' = [pc EXCEPT ![p] = "idle"] /\ call' = [call EXCEPT ![p] = None]
Goto(p, l, c) == pc' = [pc EXCEPT ![p] = l] /\ call' = [call EXCEPT ![p] = c]

\* ilock(i) finds no type.
Panic(p, i) ==
  /\ type[i] = "none" /\ panic' = TRUE
  /\ Goto(p, "dead", call[p])
  /\ UNCHANGED <<inodes, lock, cwd, file, ghost>>
Quiet == UNCHANGED <<ghost, panic>>
Same == UNCHANGED <<lock, cwd, file>>
-----------------------------------------------------------------------------
(* System calls begin, and namex.                                          *)

Begin(p, c, path) ==
  LET start == IF path.abs THEN Root ELSE cwd[p] IN
  /\ ref' = [ref EXCEPT ![start] = @ + 1]
  /\ Goto(p, "walk", [c EXCEPT !.path = path.elems, !.ip = start])

Call(p) ==
  /\ pc[p] = "idle"
  /\ \E op \in Ops, path \in Paths :
     \E new \in IF op = "link" THEN {<<q>> : q \in Paths} ELSE {<<>>} :
       /\ op \in {"open", "creat"} => file[p] = 0
       /\ Begin(p, [None EXCEPT !.op = op, !.new = new,
                      !.parent = op \in {"creat", "mkdir", "mknod", "unlink"}], path)
  /\ UNCHANGED <<type, nlink, ents>> /\ Same /\ Quiet

\* A failed lookup: link takes its count back, the others return -1.
NotFound(p) ==
  IF call[p].old # 0 THEN Goto(p, "bad", [call[p] EXCEPT !.ip = call[p].old]) ELSE Finish(p)

\* One round of namex's loop: ip is locked, looked at and let go.
WalkOn(p, giveup) ==
  LET c == call[p]  ip == c.ip IN
  /\ pc[p] = "walk" /\ c.path # <<>> /\ lock[ip] = NoProc /\ type[ip] # "none"
  /\ LET next == ents[ip][Head(c.path)] IN
     IF c.parent /\ Len(c.path) = 1 /\ Is(ip, "dir")
     THEN Goto(p, "at", [c EXCEPT !.dp = ip, !.ip = 0]) /\ UNCHANGED inodes
     ELSE IF ~Is(ip, "dir") \/ next = 0 THEN IPut(giveup) /\ NotFound(p)
     ELSE /\ Put(<<ip>>, type, nlink, ents, [ref EXCEPT ![next] = @ + 1])
          /\ Goto(p, "walk", [c EXCEPT !.ip = next, !.path = Tail(@)])
  /\ Same /\ Quiet

Walk(p) == WalkOn(p, <<call[p].ip>>)

WalkEnd(p) ==
  LET c == call[p] IN
  /\ pc[p] = "walk" /\ c.path = <<>>
  /\ IF c.parent THEN IPut(<<c.ip>>) /\ NotFound(p)
                 ELSE Goto(p, "got", c) /\ UNCHANGED inodes
  /\ Same /\ Quiet

\* An ilock in namex or of what it found.
Lock(p) == pc[p] \in {"walk", "got", "exists"} /\ lock[call[p].ip] = NoProc
LockFails(p) ==
  /\ Lock(p) /\ ~(pc[p] = "walk" /\ call[p].path = <<>>)
  /\ Panic(p, call[p].ip)

Ready(p, op) == pc[p] = "got" /\ Lock(p) /\ call[p].op = op /\ type[call[p].ip] # "none"
-----------------------------------------------------------------------------
(* chdir, open without O_CREATE, close.                                    *)

Chdir(p) ==
  LET ip == call[p].ip IN
  /\ Ready(p, "chdir") /\ Finish(p)
  /\ IF Is(ip, "dir") THEN IPut(<<cwd[p]>>) /\ cwd' = [cwd EXCEPT ![p] = ip]
                      ELSE IPut(<<ip>>) /\ UNCHANGED cwd
  /\ UNCHANGED <<lock, file>> /\ Quiet

\* With the inode found or made: a file, or no room in a table.  A directory
\* opens only for reading, and a device only with a known major number.
OpenFile(p) ==
  LET ip == call[p].ip IN
  /\ \/ Ready(p, "open")
     \/ pc[p] = "exists" /\ Lock(p) /\ type[ip] # "none"
  /\ Finish(p)
  /\ \/ /\ pc[p] = "got" \/ (call[p].op = "creat" /\ ~Is(ip, "dir"))
        /\ file' = [file EXCEPT ![p] = ip] /\ UNCHANGED inodes
     \/ IPut(<<ip>>) /\ UNCHANGED file
  /\ UNCHANGED <<lock, cwd>> /\ Quiet

Close(p) ==
  /\ pc[p] = "idle" /\ file[p] # 0
  /\ IPut(<<file[p]>>) /\ file' = [file EXCEPT ![p] = 0]
  /\ UNCHANGED <<lock, cwd, pc, call>> /\ Quiet
-----------------------------------------------------------------------------
(* create: open with O_CREATE, mkdir, mknod.                               *)

At(p, ops) == pc[p] = "at" /\ call[p].op \in ops /\ lock[call[p].dp] = NoProc

CreateExists(p) ==
  LET c == call[p]  ip == ents[c.dp][c.path[1]] IN
  /\ At(p, {"creat", "mkdir", "mknod"}) /\ ip # 0
  /\ Put(<<c.dp>>, type, nlink, ents, [ref EXCEPT ![ip] = @ + 1])
  /\ Goto(p, "exists", [c EXCEPT !.ip = ip, !.dp = 0])
  /\ Same /\ Quiet

MakeInode(p, parentlinks) ==
  LET c == call[p]  dp == c.dp
      i == CHOOSE j \in Free : \A k \in Free : j <= k
      dir == c.op = "mkdir"
      ty == [creat |-> "file", mkdir |-> "dir", mknod |-> "dev"][c.op]
  IN
  /\ At(p, {"creat", "mkdir", "mknod"}) /\ ents[dp][c.path[1]] = 0 /\ Free # {}
  /\ \E opened \in BOOLEAN :
       /\ opened => c.op = "creat"
       /\ file' = [file EXCEPT ![p] = IF opened THEN i ELSE @]
       /\ Put(IF opened THEN <<dp>> ELSE <<dp, i>>,
              [type EXCEPT ![i] = ty],
              [nlink EXCEPT ![i] = 1, ![dp] = IF dir THEN @ + parentlinks ELSE @],
              [ents EXCEPT ![dp][c.path[1]] = i,
                           ![i] = IF dir THEN [Empty EXCEPT !["."] = i, ![".."] = dp] ELSE Empty],
              [ref EXCEPT ![i] = @ + 1])
  /\ ghost' = (ghost \/ nlink[dp] = 0)
  /\ Finish(p)
  /\ UNCHANGED <<lock, cwd, panic>>

CreateNew(p) == MakeInode(p, 1)
-----------------------------------------------------------------------------
(* link and unlink.                                                        *)

\* link raises the count of the old file and looks for the new directory.
LinkOld(p) ==
  LET c == call[p]  ip == c.ip IN
  /\ Ready(p, "link")
  /\ IF Is(ip, "dir") THEN IPut(<<ip>>) /\ Finish(p)
     ELSE /\ nlink' = [nlink EXCEPT ![ip] = @ + 1]
          /\ Begin(p, [c EXCEPT !.old = ip, !.parent = TRUE, !.new = <<>>], c.new[1])
          /\ UNCHANGED <<type, ents>>
  /\ Same /\ Quiet

LinkNew(p) ==
  LET c == call[p] IN
  /\ At(p, {"link"})
  /\ IF ents[c.dp][c.path[1]] # 0
     THEN /\ IPut(<<c.dp>>) /\ Goto(p, "bad", [c EXCEPT !.ip = c.old, !.dp = 0])
          /\ UNCHANGED ghost
     ELSE /\ Put(<<c.dp, c.old>>, type, nlink, [ents EXCEPT ![c.dp][c.path[1]] = c.old], ref)
          /\ ghost' = (ghost \/ nlink[c.dp] = 0)
          /\ Finish(p)
  /\ Same /\ UNCHANGED panic

\* link takes the count back.
TakeBack(p, d) ==
  LET ip == call[p].ip IN
  /\ pc[p] = "bad" /\ lock[ip] = NoProc
  /\ Put(<<ip>>, type, [nlink EXCEPT ![ip] = @ - d], ents, ref)
  /\ Finish(p) /\ Same /\ Quiet

LinkBad_forgets(p) == TakeBack(p, 0)
LinkBad(p) == TakeBack(p, 1)

\* Names unlink refuses.
Forbidden == {".", ".."}

UnlinkFind(p) ==
  LET c == call[p]  n == c.path[1]  ip == ents[c.dp][n] IN
  /\ At(p, {"unlink"})
  /\ IF n \in Forbidden \/ ip = 0 THEN IPut(<<c.dp>>) /\ Finish(p) /\ UNCHANGED lock
     ELSE /\ ref' = [ref EXCEPT ![ip] = @ + 1]
          /\ lock' = [lock EXCEPT ![c.dp] = p]
          /\ Goto(p, "unlink", [c EXCEPT !.ip = ip])
          /\ UNCHANGED <<type, nlink, ents>>
  /\ UNCHANGED <<cwd, file>> /\ Quiet

IsDirEmpty(d) == \A n \in Name : ents[d][n] = 0

\* The ilock of the inode, or the check of its links, would panic.
UnlinkPanics(p) == pc[p] = "unlink" /\ (type[call[p].ip] = "none" \/ nlink[call[p].ip] < 1)

Unlink(p) ==
  LET c == call[p]  ip == c.ip  dp == c.dp  dir == Is(ip, "dir") IN
  /\ pc[p] = "unlink" /\ lock[ip] = NoProc
  /\ IF UnlinkPanics(p) THEN panic' = TRUE /\ Goto(p, "dead", c) /\ UNCHANGED <<inodes, lock>>
     ELSE /\ IF dir /\ ~IsDirEmpty(ip) THEN IPut(<<ip, dp>>)
             ELSE Put(<<dp, ip>>, type,
                      [i \in Inum |-> nlink[i] - (IF i = ip \/ (i = dp /\ dir) THEN 1 ELSE 0)],
                      [ents EXCEPT ![dp][c.path[1]] = 0], ref)
          /\ lock' = [lock EXCEPT ![dp] = NoProc]
          /\ Finish(p) /\ UNCHANGED panic
  /\ UNCHANGED <<cwd, file, ghost>>
-----------------------------------------------------------------------------
\* The root directory of mkfs; every process is in it.
Init ==
  /\ type = [i \in Inum |-> IF i = Root THEN "dir" ELSE "none"]
  /\ nlink = [i \in Inum |-> IF i = Root THEN 1 ELSE 0]
  /\ ents = [i \in Inum |-> IF i = Root THEN [Empty EXCEPT !["."] = Root, ![".."] = Root] ELSE Empty]
  /\ ref = [i \in Inum |-> IF i = Root THEN Cardinality(Proc) ELSE 0]
  /\ lock = [i \in Inum |-> NoProc]
  /\ cwd = [p \in Proc |-> Root] /\ file = [p \in Proc |-> 0]
  /\ pc = [p \in Proc |-> "idle"] /\ call = [p \in Proc |-> None]
  /\ ghost = FALSE /\ panic = FALSE

Step(p) ==
  \/ Walk(p) \/ WalkEnd(p) \/ LockFails(p) \/ Chdir(p) \/ OpenFile(p)
  \/ CreateExists(p) \/ CreateNew(p) \/ LinkOld(p) \/ LinkNew(p) \/ LinkBad(p)
  \/ UnlinkFind(p) \/ Unlink(p)

Next == \E p \in Proc : Call(p) \/ Close(p) \/ Step(p)

Spec == Init /\ [][Next]_vars
-----------------------------------------------------------------------------
TypeOK ==
  /\ type \in [Inum -> {"none", "dir", "file", "dev"}]
  /\ nlink \in [Inum -> Nat] /\ ref \in [Inum -> Nat]
  /\ ents \in [Inum -> [Entry -> 0..NInodes]]
  /\ lock \in [Inum -> Proc \cup {NoProc}]
  /\ cwd \in [Proc -> Inum] /\ file \in [Proc -> 0..NInodes]
  /\ {ghost, panic} \subseteq BOOLEAN

\* Entries other than dots that name i, as <<directory, name>>.
Naming(i) == {e \in Inum \X Name : ents[e[1]][e[2]] = i}

\* Calls of link that have raised the count of i and not made the name yet.
Linking(i) == {p \in Proc : call[p].old = i}

Subdirs(d) == {i \in Inum : type[i] = "dir" /\ \E n \in Name : ents[d][n] = i}

\* Every call gives back exactly the references it took, on every path
\* through it: ref counts the pointers that exist.
RefsExact ==
  \A i \in Inum :
    ref[i] = Cardinality({p \in Proc : cwd[p] = i}) + Cardinality({p \in Proc : file[p] = i})
             + Cardinality({p \in Proc : call[p].ip = i})
             + Cardinality({p \in Proc : call[p].dp = i})
             + Cardinality({p \in Proc : pc[p] # "bad" /\ call[p].old = i})

\* Link counts are the names there are, while calls of link are under way and
\* when they fail, unless a name was made in a directory already removed.
LinksExact ==
  ghost \/ \A i \in Inum :
    CASE type[i] \in {"file", "dev"} -> nlink[i] = Cardinality(Naming(i)) + Cardinality(Linking(i))
      [] type[i] = "dir" /\ i # Root -> nlink[i] = Cardinality(Naming(i)) + Cardinality(Subdirs(i))
      [] OTHER -> Naming(i) = {}

\* An inode that unlink finds by a name has a type and a link, also in a
\* directory already removed: its panics do not happen.
UnlinkFindsLinks == \A p \in Proc : ~UnlinkPanics(p)

\* The directories form a tree: each one but the root has one name, in its
\* parent, and is removed only when it is empty.
IsTree ==
  ghost \/ \A d \in Inum \ {Root} : type[d] = "dir" =>
    IF nlink[d] = 0 THEN Naming(d) = {} /\ IsDirEmpty(d)
    ELSE \E n \in Name : Naming(d) = {<<ents[d][".."], n>>}

\* No set of calls wait for each other's inode locks, or one for its own:
\* unlink is the only call that waits for a lock while it holds another, and
\* it goes from a directory to what is in it.
NoLockCycle ==
  \A S \in SUBSET Proc \ {{}} :
    \E p \in S : ~(pc[p] = "unlink" /\ lock[call[p].ip] \in S)

=============================================================================
