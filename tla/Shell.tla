------------------------------- MODULE Shell --------------------------------
(***************************************************************************)
(* Running commands: init, the main loop of user/sh.c and runcmd as        *)
(* processes, with their descriptors, pipes and one file f per directory.  *)
(* Commands are the trees ShellParse returns, with programs for argv:      *)
(* "echo" writes its tag, "cat" copies its input, "none" does not exist.   *)
(* Process 1 is init.  Each system call is a step; the calls by which a    *)
(* process only rearranges its own descriptors are one step.               *)
(***************************************************************************)
EXTENDS Integers, Sequences, FiniteSetsExt

CONSTANTS NPROC,   \* process slots
          NPIPE,   \* pipes, and likewise open files, at one time
          PIPESIZE,  \* tags a pipe holds
          Line,    \* the commands that are typed
          MaxLeft  \* bound: a line is typed when at most so many earlier processes are left

VARIABLES
  proc,      \* per slot: st, parent, pc, cmd, cwd, sh (init's: pid of the shell), data and fd
  buf,       \* per pipe: the tags in it
  ofile,     \* per open file: directory and offset
  disk,      \* per directory: contents of f
  console,   \* tags written to the console since the last line was typed
  want       \* what that line should leave on the console and on disk
vars == <<proc, buf, ofile, disk, console, want>>

Proc == 1..NPROC
Pipe == 1..NPIPE
Dir == 1..2
Fd == 0..4
InitP == 1

None == [type |-> "none"]
Closed == <<"closed", 0>>
Con == <<"console", 0>>
R(k) == <<"r", k>>
W(k) == <<"w", k>>
File(k) == <<"f", k>>

Gone(st, parent) ==
  [st |-> st, parent |-> parent, pc |-> "gone", cmd |-> None, cwd |-> 1, sh |-> 0, data |-> <<>>, fd |-> [f \in Fd |-> Closed]]
Free == Gone("free", 0)

OpenEnds(pr) == {pr[p].fd[f] : p \in Proc, f \in Fd}
LowestFd(fd) == Min({f \in Fd : fd[f] = Closed})
\* The pipes, or open files, nobody has open.
Unused(sides) == LET open == OpenEnds(proc) IN {k \in Pipe : \A e \in sides : <<e, k>> \notin open}

\* The new process table, pipes and open files; what nobody has open is forgotten.
Become(pr, b, o) ==
  /\ proc' = pr
  /\ LET open == OpenEnds(proc') IN
     /\ buf' = [k \in Pipe |-> IF {R(k), W(k)} \cap open # {} THEN b[k] ELSE <<>>]
     /\ ofile' = [k \in Pipe |-> IF File(k) \in open THEN o[k] ELSE [dir |-> 1, off |-> 0]]
Goto(p, r) == Become([proc EXCEPT ![p] = r], buf, ofile) /\ UNCHANGED <<disk, console, want>>

\* exit closes the descriptors and hands the children to init.  When init
\* itself exits the kernel panics, and nothing happens after that.
Exit(p) ==
  /\ Become([q \in Proc |-> IF q = p THEN Gone("zombie", proc[p].parent)
                            ELSE IF proc[q].parent = p THEN [proc[q] EXCEPT !.parent = InitP] ELSE proc[q]],
            buf, ofile)
  /\ UNCHANGED <<disk, console, want>>

\* fork1: the child starts at pc with cmd; with no slot free the caller panics.
Fork1(p, next, pc, cmd) ==
  LET free == {q \in Proc : proc[q].st = "free"}  c == Min(free) IN
  IF free = {} THEN Exit(p)
  ELSE /\ Become([proc EXCEPT ![p] = [next EXCEPT !.sh = IF p = InitP THEN c ELSE 0],
                              ![c] = [proc[p] EXCEPT !.parent = p, !.pc = pc, !.cmd = cmd, !.sh = 0]],
                 buf, ofile)
       /\ UNCHANGED <<disk, console, want>>

Children(p) == {q \in Proc : proc[q].st # "free" /\ proc[q].parent = p}

\* wait(0): reap some zombie child and go on as r(child).  Nobody calls it
\* without a child (WaitsForSomeone).
Wait(p, r(_)) ==
  \E q \in Children(p) : /\ proc[q].st = "zombie"
                         /\ Become([proc EXCEPT ![p] = r(q), ![q] = Free], buf, ofile)
                         /\ UNCHANGED <<disk, console, want>>

At(p, pc) == proc[p].st = "run" /\ proc[p].pc = pc
Runs(p, type) == At(p, "runcmd") /\ proc[p].cmd.type = type
To(p, pc) == [proc[p] EXCEPT !.pc = pc]
ToCmd(p, c) == [proc[p] EXCEPT !.pc = "runcmd", !.cmd = c]
-----------------------------------------------------------------------------
(* init                                                                    *)

Panicked == proc[InitP].st # "run"

\* With no slot free init exits.
InitForks == At(InitP, "fork") /\ Fork1(InitP, To(InitP, "wait"), "prompt", None)
InitWaits == At(InitP, "wait") /\ Wait(InitP, LAMBDA q : To(InitP, IF q = proc[InitP].sh THEN "fork" ELSE "wait"))

(* The reference: what a command reads, writes and leaves in f.            *)

Overlay(new, old) == new \o SubSeq(old, Len(new) + 1, Len(old))
RECURSIVE Meaning(_, _)
\* s.in is what standard input still holds, s.file the contents of f.
Meaning(c, s) ==
  CASE c.type = "exec" -> IF c.prog = "echo" THEN [s EXCEPT !.out = <<c.tag>>]
                          ELSE IF c.prog = "cat" THEN [s EXCEPT !.out = s.in, !.in = <<>>]
                          ELSE [s EXCEPT !.out = <<>>]
    [] c.type = "list" -> LET l == Meaning(c.left, s)  r == Meaning(c.right, l)
                          IN [r EXCEPT !.out = l.out \o r.out]
    [] c.type = "pipe" -> LET l == Meaning(c.left, s)
                          IN [Meaning(c.right, [l EXCEPT !.in = l.out]) EXCEPT !.in = l.in]
    [] c.type = "redir" /\ c.fd = 0 -> [Meaning(c.cmd, [s EXCEPT !.in = s.file]) EXCEPT !.in = s.in]
    [] c.type = "redir" /\ c.fd = 1 ->
         LET f == IF c.trunc THEN <<>> ELSE s.file  r == Meaning(c.cmd, [s EXCEPT !.file = f])
         IN [r EXCEPT !.out = <<>>, !.file = Overlay(r.out, f)]
    [] OTHER -> [s EXCEPT !.out = <<>>]

(* main                                                                    *)

Left(p) == {q \in Proc : proc[q].st # "free"} \ {InitP, p}
\* getcmd returns a line; chdir is done by the shell itself, which goes to Cd(d).
Cd(d) == d
GetCmd(p, c) ==
  LET m == Meaning(c, [in |-> <<>>, out |-> <<>>, file |-> disk[proc[p].cwd]]) IN
  /\ At(p, "prompt") /\ Cardinality(Left(p)) <= MaxLeft
  /\ proc' = [proc EXCEPT ![p] = IF c.type = "cd" THEN [@ EXCEPT !.cwd = Cd(c.dir)]
                                 ELSE [@ EXCEPT !.pc = "fork", !.cmd = c]]
  /\ console' = <<>>
  /\ want' = [out |-> m.out, disk |-> [disk EXCEPT ![proc[p].cwd] = m.file]]
  /\ UNCHANGED <<buf, ofile, disk>>
\* An end of file: the shell exits.
GetEof(p) ==
  /\ At(p, "prompt") /\ Cardinality(Left(p)) <= MaxLeft
  /\ Become([proc EXCEPT ![p] = Gone("zombie", @.parent)], buf, ofile)
  /\ console' = <<>> /\ want' = [out |-> <<>>, disk |-> disk] /\ UNCHANGED disk
ShellForks(p) == p # InitP /\ At(p, "fork") /\ Fork1(p, [To(p, "waitline") EXCEPT !.cmd = None], "runcmd", proc[p].cmd)
ShellWaits(p) == At(p, "waitline") /\ Wait(p, LAMBDA q : To(p, "prompt"))
-----------------------------------------------------------------------------
(* runcmd                                                                  *)

\* An empty command and a program that does not exist both end in exit.
RunExec(p) ==
  /\ Runs(p, "exec")
  /\ IF proc[p].cmd.prog = "none" THEN Exit(p) ELSE Goto(p, To(p, proc[p].cmd.prog))

RunRedir(p) ==
  LET c == proc[p].cmd  fd == [proc[p].fd EXCEPT ![c.fd] = Closed]  k == Min(Unused({"f"})) IN
  /\ Runs(p, "redir") /\ Unused({"f"}) # {}
  /\ Become([proc EXCEPT ![p] = [ToCmd(p, c.cmd) EXCEPT !.fd = [fd EXCEPT ![LowestFd(fd)] = File(k)]]],
            buf, [ofile EXCEPT ![k] = [dir |-> proc[p].cwd, off |-> 0]])
  /\ disk' = IF c.fd = 1 /\ c.trunc THEN [disk EXCEPT ![proc[p].cwd] = <<>>] ELSE disk
  /\ UNCHANGED <<console, want>>

ListForks(p) == Runs(p, "list") /\ Fork1(p, To(p, "list"), "runcmd", proc[p].cmd.left)
ListWaits(p) == At(p, "list") /\ Wait(p, LAMBDA q : ToCmd(p, proc[p].cmd.right))

\* pipe(p): p[0] and p[1] are the two lowest free descriptors.
RunPipe(p) ==
  LET k == Min(Unused({"r", "w"}))
      fd1 == [proc[p].fd EXCEPT ![LowestFd(proc[p].fd)] = R(k)]
  IN /\ Runs(p, "pipe") /\ Unused({"r", "w"}) # {}
     /\ Goto(p, [To(p, "fork1") EXCEPT !.fd = [fd1 EXCEPT ![LowestFd(fd1)] = W(k)]])
PipeForksLeft(p) == At(p, "fork1") /\ Fork1(p, To(p, "fork2"), "left", proc[p].cmd.left)
PipeForksRight(p) == At(p, "fork2") /\ Fork1(p, To(p, "close"), "right", proc[p].cmd.right)

PipeEnd(p, side) == CHOOSE f \in Fd : proc[p].fd[f][1] = side /\ f > 2
CloseBoth(p, fd) == [fd EXCEPT ![PipeEnd(p, "r")] = Closed, ![PipeEnd(p, "w")] = Closed]
\* close(n); dup(end); close(p[0]); close(p[1]).
Plumbed(p, n, side) ==
  LET fd == [proc[p].fd EXCEPT ![n] = Closed] IN CloseBoth(p, [fd EXCEPT ![LowestFd(fd)] = fd[PipeEnd(p, side)]])
PipeLeft(p) == At(p, "left") /\ Goto(p, [To(p, "runcmd") EXCEPT !.fd = Plumbed(p, 1, "w")])
PipeRight(p) == At(p, "right") /\ Goto(p, [To(p, "runcmd") EXCEPT !.fd = Plumbed(p, 0, "r")])
PipeCloses_not(p) == At(p, "close") /\ Goto(p, To(p, "wait1"))
PipeCloses(p) == At(p, "close") /\ Goto(p, [To(p, "wait1") EXCEPT !.fd = CloseBoth(p, @)])
PipeWaits(p) ==
  \/ At(p, "wait1") /\ Wait(p, LAMBDA q : To(p, "wait2"))
  \/ At(p, "wait2") /\ Wait(p, LAMBDA q : To(p, "exit"))

\* open and pipe fail when the file table is full.
RunFails(p) ==
  /\ \/ Runs(p, "redir") /\ Unused({"f"}) = {}
     \/ Runs(p, "pipe") /\ Unused({"r", "w"}) = {}
  /\ Exit(p)

RunBack(p) == Runs(p, "back") /\ Fork1(p, To(p, "exit"), "runcmd", proc[p].cmd.cmd)
RunExit(p) == At(p, "exit") /\ Exit(p)
-----------------------------------------------------------------------------
(* The programs and the kernel under them.                                 *)

\* write of what.  pipewrite puts into the pipe what there is room for and
\* waits for a reader to make more; only on a full pipe does it notice that
\* nobody reads, and the writer goes on to failed.
WriteOut(p, what, next, failed) ==
  LET e == proc[p].fd[1]  k == e[2]
      After(pc, data) == [proc EXCEPT ![p] = [To(p, pc) EXCEPT !.data = data]]
      room == PIPESIZE - Len(buf[k])
      rest == SubSeq(what, room + 1, Len(what))
      o == ofile[k]  end == o.off + Len(what) IN
  \/ /\ e = Con /\ console' = console \o what
     /\ Become(After(next, <<>>), buf, ofile) /\ UNCHANGED <<disk, want>>
  \/ /\ e[1] = "w" /\ room > 0
     /\ Become(IF rest = <<>> THEN After(next, <<>>) ELSE After(proc[p].pc, rest),
               [buf EXCEPT ![k] = @ \o SubSeq(what, 1, Min({room, Len(what)}))], ofile)
     /\ UNCHANGED <<disk, console, want>>
  \/ /\ e[1] = "w" /\ room = 0 /\ R(k) \notin OpenEnds(proc)
     /\ Become(After(failed, <<>>), buf, ofile)
     /\ UNCHANGED <<disk, console, want>>
  \/ /\ e[1] = "f"
     /\ Become(After(next, <<>>), buf, [ofile EXCEPT ![k].off = end])
     /\ disk' = [disk EXCEPT ![o.dir] = SubSeq(@, 1, o.off) \o what \o SubSeq(@, end + 1, Len(@))]
     /\ UNCHANGED <<console, want>>

Echo(p) == At(p, "echo") /\ WriteOut(p, <<proc[p].cmd.tag>>, "exit", "exit")
CatWrites(p) == At(p, "copy") /\ WriteOut(p, proc[p].data, "cat", "exit")

\* read: all there is, or end of file when no writer is left.
CatReads(p) ==
  LET e == proc[p].fd[0]  k == e[2]  got == [To(p, "copy") EXCEPT !.data = buf[k]]
      rest == SubSeq(disk[ofile[k].dir], ofile[k].off + 1, Len(disk[ofile[k].dir])) IN
  /\ At(p, "cat")
  /\ \/ /\ e[1] = "r" /\ buf[k] # <<>>
        /\ Become([proc EXCEPT ![p] = got], [buf EXCEPT ![k] = <<>>], ofile)
     \/ /\ e[1] = "r" /\ buf[k] = <<>> /\ W(k) \notin OpenEnds(proc)
        /\ Become([proc EXCEPT ![p] = To(p, "exit")], buf, ofile)
     \/ /\ e[1] = "f"
        /\ Become([proc EXCEPT ![p] = IF rest = <<>> THEN To(p, "exit") ELSE [got EXCEPT !.data = rest]],
                  buf, [ofile EXCEPT ![k].off = @ + Len(rest)])
  /\ UNCHANGED <<disk, console, want>>
-----------------------------------------------------------------------------
Start == [Free EXCEPT !.st = "run", !.pc = "fork", !.fd = [f \in Fd |-> IF f <= 2 THEN Con ELSE Closed]]
Init ==
  /\ proc = [p \in Proc |-> IF p = InitP THEN Start ELSE Free]
  /\ buf = [k \in Pipe |-> <<>>] /\ ofile = [k \in Pipe |-> [dir |-> 1, off |-> 0]]
  /\ disk = [d \in Dir |-> <<>>] /\ console = <<>>
  /\ want = [out |-> <<>>, disk |-> disk]

Step(p) ==
  \/ ShellForks(p) \/ ShellWaits(p) \/ RunExec(p) \/ RunRedir(p) \/ ListForks(p) \/ ListWaits(p)
  \/ RunFails(p) \/ RunPipe(p) \/ PipeForksLeft(p) \/ PipeForksRight(p) \/ PipeLeft(p) \/ PipeRight(p)
  \/ PipeCloses(p) \/ PipeWaits(p) \/ RunBack(p) \/ RunExit(p) \/ Echo(p) \/ CatReads(p) \/ CatWrites(p)
SomeStep == ~Panicked /\ (InitForks \/ InitWaits \/ \E p \in Proc : Step(p))
Typed(p) == ~Panicked /\ (GetEof(p) \/ \E c \in Line : GetCmd(p, c))
Next == SomeStep \/ \E p \in Proc : Typed(p)
Spec == Init /\ [][Next]_vars
-----------------------------------------------------------------------------
AtPrompt == \E p \in Proc : At(p, "prompt")

TypeOK ==
  \A p \in Proc : /\ proc[p].st \in {"free", "run", "zombie"} /\ proc[p].parent \in 0..NPROC
                  /\ proc[p].cwd \in Dir /\ proc[p].sh \in 0..NPROC

RECURSIVE BackTags(_, _)
\* The tags c writes in the background; b says c itself is there.
BackTags(c, b) ==
  CASE c.type = "exec" -> IF b THEN {c.tag} ELSE {}
    [] c.type = "redir" -> BackTags(c.cmd, b)
    [] c.type = "back" -> BackTags(c.cmd, TRUE)
    [] c.type \in {"pipe", "list"} -> BackTags(c.left, b) \cup BackTags(c.right, b)
    [] OTHER -> {}
Background == UNION {BackTags(c, FALSE) : c \in Line}

\* When the shell prompts again, the line it was given has had its whole effect
\* and no other: the console shows what the reference says, in that order (but
\* for what background commands write whenever they like), and so do the files.
LineDone ==
  AtPrompt => /\ SelectSeq(console, LAMBDA t : t \notin Background) = want.out
              /\ disk = want.disk

\* Every wait(0) of sh.c and init.c is called with a child to wait for, and
\* when the shell prompts it has reaped its own, so no wait takes the wrong one.
WaitsForSomeone ==
  ~Panicked => \A p \in Proc :
    /\ proc[p].st = "run" /\ proc[p].pc \in {"wait", "waitline", "list", "wait1", "wait2"} => Children(p) # {}
    /\ At(p, "prompt") => Children(p) = {}
=============================================================================
