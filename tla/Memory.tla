------------------------------- MODULE Memory -------------------------------
(***************************************************************************)
(* Physical pages and user address spaces: kernel/kalloc.c, the user half  *)
(* of kernel/vm.c, growproc, fork, exec and the page-table part of proc.c. *)
(* An address space belongs to one process and only kalloc and kfree touch *)
(* what is shared, so a call is one step; the pages other processes take   *)
(* meanwhile (PipeAlloc) decide at which kalloc a call runs out of memory, *)
(* and a call allocates nothing after the first failure.                   *)
(***************************************************************************)
EXTENDS Integers, Sequences, FiniteSetsExt

CONSTANTS Proc,
          NPages,          \* physical pages
          NPTE,            \* entries of a page table
          PGSIZE, UintMod, ALIGN, PTRSIZE,
          Deltas,          \* arguments of sbrk
          MaxUser,         \* largest size a program asks for, below TRAPFRAME
          Images,          \* programs: sequences of segments
          Args,            \* argument lists: sequences of string lengths
          MaxPipe          \* pages held by pipes

LEVELS == 3
MAXVA == NPTE * NPTE * NPTE          \* in pages
TRAMPOLINE == MAXVA - 1
TRAPFRAME == MAXVA - 2
TrampolinePage == <<"kernel", 0, <<0, 0>>>> \* kernel text, never freed

VARIABLES
  used,      \* the pages not on the free list, each named for what it was taken for
  space,     \* p->pagetable, p->trapframe, p->sz
  pipes,     \* pages held by pipes
  panic,     \* some call panicked, or freed a free page
  result     \* the last call succeeded

vars == <<used, space, pipes, panic, result>>

PGROUNDUP(sz) == (sz + PGSIZE - 1) \div PGSIZE     \* in pages
-----------------------------------------------------------------------------
(* Operators work on [used, bad, who, tab, leaf]: the pages, a panic, and  *)
(* the space who (a process and how often, mod 2, it has called exec): its *)
(* page tables tab, by level and index, and its leaves, which map a        *)
(* virtual page to [pa, u].                                                *)

Empty == [x \in {} |-> 0]
Del(f, S) == [x \in DOMAIN f \ S |-> f[x]]
Put(f, x, v) == [y \in DOMAIN f \cup {x} |-> IF y = x THEN v ELSE f[y]]

\* kalloc for x: which page of the free list it is does not matter.
OutOfMemory(s) == Cardinality(s.used) = NPages
User(v) == <<-1, v>>
Page(s, x) == s.who \o <<x>>
KAlloc(s, x) == [s EXCEPT !.used = @ \cup {Page(s, x)}, !.bad = @ \/ Page(s, x) \in s.used]

\* Freeing the pages P; one that is already free would be handed out twice.
KFree(s, P) == [s EXCEPT !.used = @ \ P, !.bad = @ \/ ~(P \subseteq s.used)]

Table(level, v) ==
  <<level, v \div (IF level = 2 THEN MAXVA ELSE IF level = 1 THEN NPTE * NPTE ELSE NPTE)>>

RECURSIVE WalkFrom(_, _, _)
\* walk with alloc: the tables below level on the way to v, made if missing.
WalkFrom(s, v, level) ==
  IF level = 0 THEN [s |-> s, ok |-> TRUE]
  ELSE IF Table(level - 1, v) \in DOMAIN s.tab THEN WalkFrom(s, v, level - 1)
  ELSE IF OutOfMemory(s) THEN [s |-> s, ok |-> FALSE]
  ELSE LET t == Table(level - 1, v) IN
       WalkFrom([KAlloc(s, t) EXCEPT !.tab = Put(@, t, Page(s, t))], v, level - 1)

\* mappages of one page.
MapPage(s, v, pa, u) ==
  LET w == WalkFrom(s, v, LEVELS - 1) IN
  IF ~w.ok THEN w
  ELSE [w EXCEPT !.s.leaf = Put(@, v, [pa |-> pa, u |-> u]),
                 !.s.bad = @ \/ v \in DOMAIN s.leaf]

UvmUnmap(s, first, n, doFree) ==
  LET V == first..first + n - 1
      f == IF doFree THEN KFree(s, {s.leaf[v].pa : v \in V \cap DOMAIN s.leaf}) ELSE s
  IN  [f EXCEPT !.leaf = Del(@, V), !.bad = @ \/ ~(V \subseteq DOMAIN s.leaf)]

UvmDealloc(s, old, new) ==
  IF new < old /\ PGROUNDUP(new) < PGROUNDUP(old)
  THEN UvmUnmap(s, PGROUNDUP(new), PGROUNDUP(old) - PGROUNDUP(new), TRUE)
  ELSE s

RECURSIVE Grow(_, _, _, _)
\* The loop of uvmalloc from page a, started at page a0, up to size new.
Grow(s, a, a0, new) ==
  IF a * PGSIZE >= new THEN [s |-> s, sz |-> new]
  ELSE IF OutOfMemory(s) THEN [s |-> UvmDealloc(s, a * PGSIZE, a0 * PGSIZE), sz |-> 0]
  ELSE LET w == MapPage(KAlloc(s, User(a)), a, Page(s, User(a)), TRUE) IN
       IF w.ok THEN Grow(w.s, a + 1, a0, new)
       ELSE [s |-> UvmDealloc(KFree(w.s, {Page(s, User(a))}), a * PGSIZE, a0 * PGSIZE), sz |-> 0]

UvmAlloc(s, old, new) ==
  IF new < old THEN [s |-> s, sz |-> old] ELSE Grow(s, PGROUNDUP(old), PGROUNDUP(old), new)

\* freewalk: every leaf must be gone.
FreeWalk(s) == [KFree(s, Range(s.tab)) EXCEPT !.tab = Empty, !.bad = @ \/ s.leaf # Empty]

UvmFree(s, sz) ==
  FreeWalk(IF sz > 0 THEN UvmUnmap(s, 0, PGROUNDUP(sz), TRUE) ELSE s)

RECURSIVE CopyFrom(_, _, _, _)
\* uvmcopy of the leaves old from page i on.
CopyFrom(s, old, i, sz) ==
  IF i * PGSIZE >= sz THEN [s |-> s, ok |-> TRUE]
  ELSE IF i \notin DOMAIN old THEN [s |-> [s EXCEPT !.bad = TRUE], ok |-> FALSE]
  ELSE IF OutOfMemory(s) THEN [s |-> UvmUnmap(s, 0, i, TRUE), ok |-> FALSE]
  ELSE LET w == MapPage(KAlloc(s, User(i)), i, Page(s, User(i)), old[i].u) IN
       IF w.ok THEN CopyFrom(w.s, old, i + 1, sz)
       ELSE [s |-> UvmUnmap(KFree(w.s, {Page(s, User(i))}), 0, i, TRUE), ok |-> FALSE]

\* proc_pagetable, with trapframe page tf.
ProcPagetable(s0, tf) ==
  IF OutOfMemory(s0) THEN [s |-> s0, ok |-> FALSE]
  ELSE LET s == [KAlloc(s0, Table(2, 0)) EXCEPT !.tab = Put(Empty, Table(2, 0), Page(s0, Table(2, 0)))]
           a == MapPage(s, TRAMPOLINE, TrampolinePage, FALSE)
           b == MapPage(a.s, TRAPFRAME, tf, FALSE)
       IN  IF ~a.ok THEN [s |-> UvmFree(a.s, 0), ok |-> FALSE]
           ELSE IF ~b.ok THEN [s |-> UvmFree(UvmUnmap(b.s, TRAMPOLINE, 1, FALSE), 0), ok |-> FALSE]
           ELSE b

ProcFreePagetable(s, sz) ==
  UvmFree(UvmUnmap(UvmUnmap(s, TRAMPOLINE, 1, FALSE), TRAPFRAME, 1, FALSE), sz)
-----------------------------------------------------------------------------
NoSpace == [tab |-> Empty, leaf |-> Empty, tf |-> <<>>, sz |-> 0, gen |-> 0, live |-> FALSE]

\* The state an operator starts from, for process p; and what it leaves.
At(p) == [used |-> used, bad |-> FALSE, who |-> <<p, space[p].gen>>, tab |-> space[p].tab, leaf |-> space[p].leaf]
Fresh(p, gen) == [At(p) EXCEPT !.who = <<p, gen>>, !.tab = Empty, !.leaf = Empty]
Commit(p, s, tf, sz) ==
  space' = [space EXCEPT ![p] = [tab |-> s.tab, leaf |-> s.leaf, tf |-> tf, sz |-> sz, gen |-> s.who[2], live |-> TRUE]]
Finish(s, ok) == used' = s.used /\ panic' = (panic \/ s.bad) /\ result' = ok

\* sbrk(n): growproc computes the new size in 32 bits.
GrowProc(p, n) ==
  LET sz == space[p].sz
      new == (sz + n) % UintMod
      g == UvmAlloc(At(p), sz, new)
      d == UvmDealloc(At(p), sz, new)
  IN
  /\ space[p].live
  /\ n > 0 => sz + n <= MaxUser
  /\ IF n > 0
     THEN /\ Commit(p, g.s, space[p].tf, IF g.sz = 0 THEN sz ELSE g.sz)
          /\ Finish(g.s, g.sz # 0)
     ELSE /\ Commit(p, d, space[p].tf, IF new >= sz THEN sz ELSE new)
          /\ Finish(d, TRUE)
  /\ UNCHANGED pipes

SysSbrk(p) == \E n \in Deltas : GrowProc(p, n)

\* freeproc of trapframe tf and of page table t, if there is one.
FreeProc(s, t, tf, sz) ==
  LET a == IF t.tab = Empty THEN s ELSE ProcFreePagetable([s EXCEPT !.tab = t.tab, !.leaf = t.leaf], sz)
  IN  KFree(a, {tf})

\* fork: allocproc takes a trapframe and a page table, then uvmcopy.
Fork(p, q) ==
  LET s0 == Fresh(q, 0)
      tf == Page(s0, User(TRAPFRAME))
      a == ProcPagetable(KAlloc(s0, User(TRAPFRAME)), tf)
      c == CopyFrom(a.s, space[p].leaf, 0, space[p].sz)
      gone == IF ~a.ok THEN FreeProc(a.s, [tab |-> Empty], tf, 0)
              ELSE FreeProc(c.s, c.s, tf, 0)
  IN
  /\ space[p].live /\ ~space[q].live
  /\ IF OutOfMemory(s0) THEN Finish(s0, FALSE) /\ UNCHANGED space
     ELSE IF ~a.ok \/ ~c.ok THEN Finish(gone, FALSE) /\ UNCHANGED space
     ELSE Commit(q, c.s, tf, space[p].sz) /\ Finish(c.s, TRUE)
  /\ UNCHANGED pipes

\* exit and the parent's wait: freeproc.
ExitWait(p) ==
  LET s == FreeProc(At(p), At(p), space[p].tf, space[p].sz) IN
  /\ space[p].live /\ \E q \in Proc \ {p} : space[q].live
  /\ space' = [space EXCEPT ![p] = NoSpace]
  /\ Finish(s, TRUE) /\ UNCHANGED pipes
-----------------------------------------------------------------------------
(* exec: a segment is [va, memsz, filesz, reads]: its address and sizes,   *)
(* and whether the file has its filesz bytes.                              *)

RECURSIVE LoadSegs(_, _, _)
LoadSegs(s, segs, sz) ==
  IF segs = <<>> THEN [s |-> s, sz |-> sz, ok |-> TRUE]
  ELSE LET g == segs[1]  u == UvmAlloc(s, sz, g.va + g.memsz) IN
       IF g.memsz < g.filesz \/ u.sz = 0
       THEN [s |-> IF g.memsz < g.filesz THEN s ELSE u.s, sz |-> sz, ok |-> FALSE]
       ELSE IF g.va % PGSIZE # 0 \/ (~g.reads /\ g.filesz > 0)
            THEN [s |-> u.s, sz |-> u.sz, ok |-> FALSE]
            ELSE LoadSegs(u.s, Tail(segs), u.sz)

RECURSIVE Push(_, _)
\* The stack pointers after pushing strings of these lengths, then argv[].
Push(sp, lens) ==
  IF lens = <<>> THEN <<>>
  ELSE LET x == sp - (lens[1] + 1)  y == x - (x % ALIGN) IN <<y>> \o Push(y, Tail(lens))
Stack(sp, lens) ==
  LET a == Push(sp, lens)
      top == IF a = <<>> THEN sp ELSE a[Len(a)]
      x == top - (Len(lens) + 1) * PTRSIZE
  IN  Append(a, x - (x % ALIGN))

BadFree_old_size(s, sz, sz1) == ProcFreePagetable(s, IF sz1 = 0 THEN sz ELSE sz1 - PGSIZE)
\* The exit at bad: what was loaded, then the stack if there is one.
BadFree(s, sz, sz1) == ProcFreePagetable(s, IF sz1 = 0 THEN sz ELSE sz1)

\* sys_exec copies each argument to a page of its own.
Argv(p, n) == {<<p, 2, User(i)>> : i \in 1..n}

\* exec builds the new space, and only then is the old one freed.
Exec(p, image, args, opens) ==
  LET n == Len(args)
      argv == Argv(p, n)
      s0 == [Fresh(p, 1 - space[p].gen) EXCEPT !.used = @ \cup argv]
      a == ProcPagetable(s0, space[p].tf)
      l == LoadSegs(a.s, image, 0)
      top == PGROUNDUP(l.sz) * PGSIZE
      k == UvmAlloc(l.s, top, top + 2 * PGSIZE)
      guarded == [k.s EXCEPT !.leaf[PGROUNDUP(l.sz)].u = FALSE]
      sps == Stack(k.sz, args)
      fits == \A i \in DOMAIN sps : sps[i] >= k.sz - PGSIZE
      fail(s) == Finish(KFree(s, argv), FALSE) /\ UNCHANGED space
      old == ProcFreePagetable([guarded EXCEPT !.tab = space[p].tab, !.leaf = space[p].leaf], space[p].sz)
  IN
  /\ space[p].live
  /\ IF Cardinality(used) + n > NPages THEN result' = FALSE /\ UNCHANGED <<used, space, panic>>
     ELSE IF ~opens THEN fail(s0)
     ELSE IF ~a.ok THEN fail(a.s)
     ELSE IF ~l.ok THEN fail(BadFree(l.s, l.sz, 0))
     ELSE IF k.sz = 0 THEN fail(BadFree(k.s, top, 0))
     ELSE IF ~fits THEN fail(BadFree(guarded, top, k.sz))
     ELSE /\ Commit(p, guarded, space[p].tf, k.sz)
          /\ Finish(KFree([old EXCEPT !.bad = @ \/ guarded.bad], argv), TRUE)
  /\ UNCHANGED pipes

PipeAlloc(b) ==
  /\ b \notin used /\ Cardinality(used) < NPages
  /\ used' = used \cup {b} /\ pipes' = pipes \cup {b}
  /\ result' = TRUE /\ UNCHANGED <<space, panic>>

PipeFree(b) ==
  /\ used' = used \ {b} /\ pipes' = pipes \ {b}
  /\ result' = TRUE /\ UNCHANGED <<space, panic>>

\* userinit: allocproc, then uvminit's one page.
Init ==
  LET first == CHOOSE p \in Proc : TRUE
      tf == <<first, 0, User(TRAPFRAME)>>
      s0 == [used |-> {tf}, bad |-> FALSE, who |-> <<first, 0>>, tab |-> Empty, leaf |-> Empty]
      u == UvmAlloc(ProcPagetable(s0, tf).s, 0, PGSIZE).s
  IN
  /\ used = u.used /\ pipes = {} /\ panic = FALSE
  /\ space = [p \in Proc |-> IF p # first THEN NoSpace
               ELSE [tab |-> u.tab, leaf |-> u.leaf, tf |-> tf, sz |-> PGSIZE, gen |-> 0, live |-> TRUE]]
  /\ result = TRUE

Next ==
  \/ \E p \in Proc :
       \/ ExitWait(p)
       \/ SysSbrk(p)
       \/ \E q \in Proc : Fork(p, q)
       \/ \E image \in Images, args \in Args, opens \in BOOLEAN : Exec(p, image, args, opens)
  \/ \E i \in 1..MaxPipe : PipeAlloc(<<"pipe", 0, User(i)>>)
  \/ \E b \in pipes : PipeFree(b)

Spec == Init /\ [][Next]_vars
-----------------------------------------------------------------------------
Live == {p \in Proc : space[p].live}

TypeOK ==
  /\ Cardinality(used) <= NPages /\ pipes \subseteq used
  /\ \A p \in Live : space[p].sz \in 0..MaxUser

\* Each use of a page: as a page table, as user memory or as a trapframe.
Uses ==
  UNION {{p} \X (DOMAIN space[p].tab \cup {User(v) : v \in DOMAIN space[p].leaf \ {TRAMPOLINE}}) : p \in Live}
PageOf(u) ==
  IF u[2] \in DOMAIN space[u[1]].tab THEN space[u[1]].tab[u[2]] ELSE space[u[1]].leaf[u[2][2]].pa

\* No call panics, and whatever fork, exec and sbrk did or gave up half way,
\* every page is free, in a pipe, or used in exactly one place: no leak, no
\* page freed twice, none shared between two processes.
PagesConserved ==
  /\ ~panic
  /\ used = pipes \cup {PageOf(u) : u \in Uses}
  /\ Cardinality(used) = Cardinality(pipes) + Cardinality(Uses)

\* The pages below p->sz are mapped, nothing else but the two pages at the
\* top is, and TRAPFRAME is the process's own: what exit, fork and exec
\* assume when they walk an address space by its size.
MappedExactly ==
  \A p \in Live :
    /\ DOMAIN space[p].leaf = 0..PGROUNDUP(space[p].sz) - 1 \cup {TRAMPOLINE, TRAPFRAME}
    /\ space[p].leaf[TRAPFRAME].pa = space[p].tf

Tables == UNION {Range(space[p].tab) : p \in Live}

\* In any step: a call that fails leaves every process's memory and size as they were,
\* and keeps no page but the tables a failed sbrk made on the way.
FailureChangesNothing ==
  ~result' =>
    /\ \A p \in Proc : space'[p].leaf = space[p].leaf /\ space'[p].sz = space[p].sz
    /\ used' \ Tables' = used \ Tables
=============================================================================
