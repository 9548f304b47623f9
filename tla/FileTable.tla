----------------------------- MODULE FileTable ------------------------------
(***************************************************************************)
(* Open files: the file table of kernel/file.c, the descriptors of         *)
(* kernel/sysfile.c, pipealloc of kernel/pipe.c, and what fork and exit do *)
(* with them.  A descriptor table belongs to one process, so only the      *)
(* sections under ftable.lock interleave: fileclose frees the table entry  *)
(* first and closes the inode or the pipe behind it afterwards (Behind).   *)
(***************************************************************************)
EXTENDS Integers, Sequences, FiniteSetsExt

CONSTANTS Proc, NFILE, NOFILE, Inode, Pipe, NoPipe

ConstantsOK ==
  /\ IsFiniteSet(Proc) /\ NFILE \in Nat /\ NOFILE \in Nat
  /\ Inode \cap Pipe = {} /\ NoPipe \notin Inode \cup Pipe
  /\ \A e \in SUBSET BOOLEAN : e # NoPipe

File == 1..NFILE
Fd == 0..NOFILE - 1

VARIABLES
  file,    \* ftable.file: ref, type, the object behind it, writable
  ofile,   \* p->ofile; 0 is a null pointer
  iref,    \* references of open files to inodes
  ends,    \* the open ends of a pipe, or NoPipe
  pend,    \* objects that a process's fileclose calls have yet to close
  mine,    \* entries that a call of p has allocated and not yet put in a descriptor
  pc,      \* where p is: see TypeOK; "dup" is between fdalloc and filedup
  cur,     \* the struct file that a call of p works on
  nfd,     \* the descriptor that fdalloc gave to p's dup
  panic

vars == <<file, ofile, iref, ends, pend, mine, pc, cur, nfd, panic>>

None == [ref |-> 0, type |-> "none", obj |-> NoPipe, w |-> FALSE]

Unused(t) == {f \in File : t[f].ref = 0}
\* filealloc: the first unused entry; the other fields keep their values.
FileAlloc(t) == [t EXCEPT ![Min(Unused(t))].ref = 1]
FdAlloc(o) == {fd \in Fd : o[fd] = 0}

FileDup(t, f) == [t EXCEPT ![f].ref = @ + 1]

\* The part of fileclose under ftable.lock (the stale fields, which only a
\* type makes meaningful, are cleared here) ...
FileClose(t, f) ==
  [t EXCEPT ![f].ref = @ - 1, ![f].type = IF t[f].ref = 1 THEN "none" ELSE @,
            ![f].obj = IF t[f].ref = 1 THEN NoPipe ELSE @, ![f].w = t[f].ref > 1 /\ @]
\* ... and what it leaves to close when that was the last reference.
Behind(t, f) == IF t[f].ref = 1 /\ t[f].type # "none" THEN <<t[f]>> ELSE <<>>

InUser(p) == pc[p] = "user" /\ pend[p] = <<>>
-----------------------------------------------------------------------------
\* filealloc, for the call that continues at then, or without an entry at else.
Alloc(p, then, else) ==
  IF Unused(file) = {} THEN pc' = [pc EXCEPT ![p] = else] /\ UNCHANGED <<file, mine>>
  ELSE /\ file' = FileAlloc(file)
       /\ mine' = [mine EXCEPT ![p] = Append(@, Min(Unused(file)))]
       /\ pc' = [pc EXCEPT ![p] = then]

\* sys_open from filealloc on.
SysOpen(p) ==
  /\ InUser(p) /\ Alloc(p, "open", "user")
  /\ UNCHANGED <<ofile, iref, ends, pend, cur, nfd, panic>>

\* namei has taken a reference to the inode, which the open file keeps, or
\* which iunlockput gives back.
OpenFd(p, i) ==
  LET f == Head(mine[p]) IN
  /\ pc[p] = "open"
  /\ IF FdAlloc(ofile[p]) = {}
     THEN pc' = [pc EXCEPT ![p] = "undo"] /\ UNCHANGED <<file, ofile, iref, mine>>
     ELSE /\ file' = [file EXCEPT ![f].type = "inode", ![f].obj = i, ![f].w = TRUE]
          /\ ofile' = [ofile EXCEPT ![p][Min(FdAlloc(ofile[p]))] = f]
          /\ iref' = [iref EXCEPT ![i] = @ + 1]
          /\ mine' = [mine EXCEPT ![p] = <<>>]
          /\ pc' = [pc EXCEPT ![p] = "user"]
  /\ UNCHANGED <<ends, pend, cur, nfd, panic>>

\* sys_pipe: the two filealloc calls of pipealloc ...
SysPipe(p) ==
  /\ InUser(p) /\ Alloc(p, "pipe", "user")
  /\ UNCHANGED <<ofile, iref, ends, pend, cur, nfd, panic>>

PipeSecond(p) ==
  /\ pc[p] = "pipe" /\ Alloc(p, "ends", "undo")
  /\ UNCHANGED <<ofile, iref, ends, pend, cur, nfd, panic>>

\* ... its page, if kalloc has one, and the two descriptors, if there are two
\* and both copyouts succeed.
PipeEnds(p, pi, copies) ==
  LET r == mine[p][1]
      w == mine[p][2]
      fd0 == Min(FdAlloc(ofile[p]))
      fd1 == Min(FdAlloc(ofile[p]) \ {fd0})
  IN
  /\ pc[p] = "ends" /\ (pi # NoPipe => ends[pi] = NoPipe)
  /\ IF pi = NoPipe THEN UNCHANGED <<file, ends>>
     ELSE /\ ends' = [ends EXCEPT ![pi] = {TRUE, FALSE}]
          /\ file' = [file EXCEPT ![r].type = "pipe", ![r].obj = pi, ![r].w = FALSE,
                                  ![w].type = "pipe", ![w].obj = pi, ![w].w = TRUE]
  /\ IF pi = NoPipe \/ Cardinality(FdAlloc(ofile[p])) < 2 \/ ~copies
     THEN pc' = [pc EXCEPT ![p] = "undo"] /\ UNCHANGED <<ofile, mine>>
     ELSE /\ ofile' = [ofile EXCEPT ![p][fd0] = r, ![p][fd1] = w]
          /\ mine' = [mine EXCEPT ![p] = <<>>] /\ pc' = [pc EXCEPT ![p] = "user"]
  /\ UNCHANGED <<iref, pend, cur, nfd, panic>>

Undo_all(p) ==
  /\ pc[p] = "undo" /\ pend[p] = <<>>
  /\ file' = FileClose(file, Head(mine[p]))
  /\ pend' = [pend EXCEPT ![p] = Behind(file, Head(mine[p]))]
  /\ mine' = [mine EXCEPT ![p] = <<>>]
  /\ pc' = [pc EXCEPT ![p] = "user"]
  /\ UNCHANGED <<ofile, iref, ends, cur, nfd, panic>>

\* The error paths of sys_open, sys_pipe and pipealloc: fileclose on each entry.
Undo(p) ==
  LET f == Head(mine[p]) IN
  /\ pc[p] = "undo" /\ pend[p] = <<>>
  /\ panic' = (panic \/ file[f].ref < 1)
  /\ file' = FileClose(file, f)
  /\ pend' = [pend EXCEPT ![p] = Behind(file, f)]
  /\ mine' = [mine EXCEPT ![p] = Tail(@)]
  /\ pc' = [pc EXCEPT ![p] = IF Len(mine[p]) = 1 THEN "user" ELSE "undo"]
  /\ UNCHANGED <<ofile, iref, ends, cur, nfd>>

\* sys_dup puts the file in a second slot before it takes the reference.
SysDup(p, fd) ==
  /\ InUser(p) /\ ofile[p][fd] # 0
  /\ IF FdAlloc(ofile[p]) = {} THEN UNCHANGED <<ofile, pc, cur, nfd>>
     ELSE /\ ofile' = [ofile EXCEPT ![p][Min(FdAlloc(ofile[p]))] = ofile[p][fd]]
          /\ cur' = [cur EXCEPT ![p] = ofile[p][fd]]
          /\ nfd' = [nfd EXCEPT ![p] = Min(FdAlloc(ofile[p]))]
          /\ pc' = [pc EXCEPT ![p] = "dup"]
  /\ UNCHANGED <<file, iref, ends, pend, mine, panic>>

DupRef(p) ==
  /\ pc[p] = "dup"
  /\ panic' = (panic \/ file[cur[p]].ref < 1)
  /\ file' = FileDup(file, cur[p])
  /\ cur' = [cur EXCEPT ![p] = 0] /\ nfd' = [nfd EXCEPT ![p] = 0]
  /\ pc' = [pc EXCEPT ![p] = "user"]
  /\ UNCHANGED <<ofile, iref, ends, pend, mine>>

CloseFd(p, fd) ==
  LET f == ofile[p][fd] IN
  /\ f # 0
  /\ panic' = (panic \/ file[f].ref < 1)
  /\ pend' = [pend EXCEPT ![p] = Behind(file, f)]
  /\ file' = FileClose(file, f)
  /\ ofile' = [ofile EXCEPT ![p][fd] = 0]

SysClose(p, fd) == InUser(p) /\ CloseFd(p, fd) /\ UNCHANGED <<mine, iref, ends, pc, cur, nfd>>

\* pipeclose: the page is freed with the second end.
PipeClose(e, w) == IF e \ {w} = {} THEN NoPipe ELSE e \ {w}

\* The rest of fileclose: pipeclose, or iput in a transaction.
CloseBehind(p) ==
  LET b == Head(pend[p]) IN
  /\ pend[p] # <<>>
  /\ pend' = [pend EXCEPT ![p] = Tail(@)]
  /\ IF b.type = "pipe"
     THEN /\ panic' = (panic \/ ends[b.obj] = NoPipe)
          /\ ends' = [ends EXCEPT ![b.obj] = IF @ = NoPipe THEN NoPipe ELSE PipeClose(@, b.w)]
          /\ UNCHANGED iref
     ELSE /\ panic' = (panic \/ iref[b.obj] < 1)
          /\ iref' = [iref EXCEPT ![b.obj] = @ - 1]
          /\ UNCHANGED ends
  /\ UNCHANGED <<mine, file, ofile, pc, cur, nfd>>

\* sys_read, sys_write and sys_fstat: argfd takes no reference for the call.
Call(p, fd) ==
  /\ InUser(p) /\ ofile[p][fd] # 0
  /\ cur' = [cur EXCEPT ![p] = ofile[p][fd]] /\ pc' = [pc EXCEPT ![p] = "call"]
  /\ UNCHANGED <<file, ofile, iref, ends, pend, mine, nfd, panic>>

Return(p) ==
  /\ pc[p] = "call"
  /\ panic' = (panic \/ file[cur[p]].type = "none")
  /\ cur' = [cur EXCEPT ![p] = 0] /\ pc' = [pc EXCEPT ![p] = "user"]
  /\ UNCHANGED <<file, ofile, iref, ends, pend, mine, nfd>>

\* How often fork's loop calls filedup for f.
Shared(p, f) == Cardinality({fd \in Fd : ofile[p][fd] = f})

ForkFiles(p, q) ==
  /\ InUser(p) /\ pc[q] = "unused"
  /\ file' = [f \in File |-> [file[f] EXCEPT !.ref = @ + Shared(p, f)]]
  /\ ofile' = [ofile EXCEPT ![q] = ofile[p]]
  /\ pc' = [pc EXCEPT ![q] = "user"]
  /\ UNCHANGED <<iref, ends, pend, mine, cur, nfd, panic>>

\* exit's loop over the descriptors; the last process (init) does not exit.
ExitBegin(p) ==
  /\ InUser(p) /\ \E q \in Proc \ {p} : pc[q] \notin {"exit", "unused"}
  /\ pc' = [pc EXCEPT ![p] = "exit"]
  /\ UNCHANGED <<file, ofile, iref, ends, pend, mine, cur, nfd, panic>>

ExitClose(p) ==
  /\ pc[p] = "exit" /\ pend[p] = <<>>
  /\ IF \A fd \in Fd : ofile[p][fd] = 0
     THEN pc' = [pc EXCEPT ![p] = "unused"] /\ UNCHANGED <<file, ofile, pend, panic>>
     ELSE CloseFd(p, Min({fd \in Fd : ofile[p][fd] # 0})) /\ UNCHANGED pc
  /\ UNCHANGED <<mine, iref, ends, cur, nfd>>

Init ==
  /\ file = [f \in File |-> None] /\ ofile = [p \in Proc |-> [fd \in Fd |-> 0]]
  /\ iref = [i \in Inode |-> 0] /\ ends = [pi \in Pipe |-> NoPipe]
  /\ pend = [p \in Proc |-> <<>>] /\ mine = [p \in Proc |-> <<>>]
  /\ cur = [p \in Proc |-> 0] /\ nfd = [p \in Proc |-> 0]
  /\ \E p \in Proc : pc = [q \in Proc |-> IF q = p THEN "user" ELSE "unused"]
  /\ panic = FALSE

Step(p) ==
  \/ SysOpen(p) \/ SysPipe(p) \/ PipeSecond(p) \/ Undo(p)
  \/ \E i \in Inode : OpenFd(p, i)
  \/ \E pi \in Pipe \cup {NoPipe}, copies \in BOOLEAN : PipeEnds(p, pi, copies)
  \/ DupRef(p) \/ CloseBehind(p) \/ Return(p) \/ ExitBegin(p) \/ ExitClose(p)
  \/ \E fd \in Fd : SysDup(p, fd) \/ SysClose(p, fd) \/ Call(p, fd)
  \/ \E q \in Proc : ForkFiles(p, q)

Next == \E p \in Proc : Step(p)
Spec == Init /\ [][Next]_vars
-----------------------------------------------------------------------------
Closing == [ref : {1}, type : {"inode", "pipe"}, obj : Inode \cup Pipe, w : BOOLEAN]

TypeOK ==
  /\ file \in [File -> [ref : Nat, type : {"none", "inode", "pipe"},
                         obj : Inode \cup Pipe \cup {NoPipe}, w : BOOLEAN]]
  /\ ofile \in [Proc -> [Fd -> 0..NFILE]]
  /\ iref \in [Inode -> Nat] /\ ends \in [Pipe -> {NoPipe} \cup ((SUBSET BOOLEAN) \ {{}})]
  /\ pend \in [Proc -> Seq(Closing)] /\ \A p \in Proc : Len(pend[p]) <= 1
  /\ mine \in [Proc -> Seq(File)] /\ \A p \in Proc : Len(mine[p]) <= 2
  /\ pc \in [Proc -> {"user", "open", "pipe", "ends", "undo", "dup", "call", "exit", "unused"}]
  /\ cur \in [Proc -> 0..NFILE] /\ nfd \in [Proc -> Fd \cup {0}]
  /\ panic \in BOOLEAN

\* The descriptors that refer to f, but for one that dup has yet to count.
Counted(p, fd, f) == ofile[p][fd] = f /\ ~(pc[p] = "dup" /\ fd = nfd[p])
Slots(f) == {x \in Proc \X Fd : Counted(x[1], x[2], f)}
Opened(o) == {f \in File : file[f].obj = o}
Pending(o) == {p \in Proc : pend[p] # <<>> /\ Head(pend[p]).obj = o}
Holders(f) == {p \in Proc : \E k \in DOMAIN mine[p] : mine[p][k] = f}

\* A file's count is the number of descriptors that refer to it, whoever
\* dups, forks, closes and exits meanwhile; a dup counts its slot late, and an
\* open or pipe call its entry early.  A call that is over, failed or not,
\* keeps no entry.
RefsExact ==
  /\ \A f \in File : file[f].ref = Cardinality(Slots(f)) + Cardinality(Holders(f))
  /\ \A p \in Proc : mine[p] # <<>> <=> pc[p] \in {"open", "pipe", "ends", "undo"}

\* What is behind a file is held exactly once per open file, and given back
\* exactly once after the last close: by then the entry may serve another.
BehindExact ==
  /\ ~panic
  /\ \A i \in Inode : iref[i] = Cardinality(Opened(i)) + Cardinality(Pending(i))
  /\ \A pi \in Pipe, w \in BOOLEAN :
       (ends[pi] # NoPipe /\ w \in ends[pi]) <=>
         \/ \E f \in File : file[f].obj = pi /\ file[f].w = w
         \/ \E p \in Pending(pi) : Head(pend[p]).w = w

\* In any step: a call that uses a file without a reference of its own does
\* not see it closed, or its entry given to another file, under its hands.
CallKeepsFile ==
  \A p \in Proc : pc[p] = "call" /\ pc'[p] = "call" =>
    LET f == cur[p] IN file'[f].ref > 0 /\ file'[f].obj = file[f].obj

-----------------------------------------------------------------------------
(* The invariant behind it.                                                *)

\* An entry has a type and an object while it has a reference, but for one
\* that open or pipe has just allocated.
FileInv ==
  \A f \in File :
    /\ file[f].type = "none" <=> file[f].obj = NoPipe
    /\ file[f].type = "inode" <=> file[f].obj \in Inode
    /\ file[f].ref = 0 => file[f].type = "none"
    /\ Slots(f) # {} => file[f].type # "none"

\* The entries of a call are its own and have no descriptor.
MineInv ==
  \A p \in Proc :
    /\ pc[p] \in {"open", "pipe"} => Len(mine[p]) = 1 /\ file[mine[p][1]].type = "none"
    /\ pc[p] = "ends" => /\ Len(mine[p]) = 2
                         /\ \A k \in 1..2 : file[mine[p][k]].type = "none"
    /\ Len(mine[p]) = 2 => mine[p][1] # mine[p][2]
    /\ \A f \in File : p \in Holders(f) => Slots(f) = {} /\ Holders(f) = {p}

\* A dup has its file in another slot too; a call has it in one.
CurInv ==
  \A p \in Proc :
    /\ pc[p] = "dup" => /\ cur[p] \in File /\ nfd[p] \in Fd /\ ofile[p][nfd[p]] = cur[p]
                        /\ \E fd \in Fd \ {nfd[p]} : ofile[p][fd] = cur[p]
    /\ pc[p] = "call" => cur[p] \in File /\ \E fd \in Fd : ofile[p][fd] = cur[p]
    /\ pc[p] = "unused" => \A fd \in Fd : ofile[p][fd] = 0
    /\ pend[p] # <<>> => pc[p] \in {"user", "undo", "exit"}

\* An end of a pipe is one file's, or one that is left to close.
EndsInv ==
  \A pi \in Pipe :
    /\ \A f, g \in File : file[f].obj = pi /\ file[g].obj = pi /\ file[f].w = file[g].w => f = g
    /\ \A f \in File, p \in Pending(pi) : file[f].obj = pi => file[f].w # Head(pend[p]).w
    /\ \A p, q \in Pending(pi) : Head(pend[p]).w = Head(pend[q]).w => p = q

TableInv == TypeOK /\ RefsExact /\ BehindExact /\ FileInv /\ MineInv /\ CurInv /\ EndsInv

\* What the file table promises.
FilesKept ==
  /\ [](TypeOK /\ RefsExact /\ BehindExact)
  /\ [][CallKeepsFile]_vars
=============================================================================
