------------------------------ MODULE UserCopy ------------------------------
(***************************************************************************)
(* Copies between the kernel and user memory, page by page: copyout,       *)
(* copyin and copyinstr with walkaddr of kernel/vm.c, and fetchaddr,       *)
(* fetchstr and argstr of kernel/syscall.c.  A byte moved is named by its  *)
(* user address, for either direction.                                     *)
(***************************************************************************)
EXTENDS Integers, Sequences, FiniteSetsExt

CONSTANTS PGSIZE, NPages,  \* MAXVA = NPages * PGSIZE
          MaxLen, WORD     \* longest copy; sizeof(uint64)

Page == 0..NPages - 1
Addr == 0..(NPages + 1) * PGSIZE - 1   \* one page of them beyond MAXVA

VARIABLES
  op, va0, len,   \* the call: "copyout", "copyin", "fetchaddr" or "argstr", address, length
  pte,            \* "none", "kernel" (not PTE_U) or "user"
  nul,            \* addresses that hold '\0'
  sz,             \* p->sz, in bytes
  va, left, moved, got,   \* dstva or srcva; len or max; bytes moved so far; got_null
  ret             \* Running, -1, or what the call returns

Running == -2
args == <<op, va0, len, pte, nul, sz>>
vars == <<args, va, left, moved, got, ret>>

WalkAddr(v) == v \div PGSIZE \in Page /\ pte[v \div PGSIZE] = "user"

\* Bytes up to the end of the page.
Chunk_whole_page(v, n) == IF n < PGSIZE THEN n ELSE PGSIZE
Chunk(v, n) == LET m == PGSIZE - (v % PGSIZE) IN IF n < m THEN n ELSE m
NextPage(v) == (v \div PGSIZE + 1) * PGSIZE
From(v, n) == [i \in 1..n |-> v + i - 1]

\* What an operation returns once its copy is complete.
FetchStr(s) == Len(s) - 1      \* strlen
Done(s) == IF op = "argstr" THEN FetchStr(s) ELSE 0

\* One round of the loop of copyout or copyin.
CopyLoop ==
  LET n == Chunk(va, left) IN
  /\ ret = Running /\ op # "argstr" /\ left > 0 /\ WalkAddr(va)
  /\ moved' = moved \o From(va, n)
  /\ left' = left - n /\ va' = NextPage(va)
  /\ UNCHANGED <<args, got, ret>>

\* One round of copyinstr: up to a nul or the end of the chunk.
StrLoop ==
  LET n == Chunk(va, left)
      N == nul \cap va..va + n - 1
      k == IF N = {} THEN n ELSE Min(N) - va + 1
  IN
  /\ ret = Running /\ op = "argstr" /\ ~got /\ left > 0 /\ WalkAddr(va)
  /\ moved' = moved \o From(va, k)
  /\ got' = (N # {}) /\ left' = IF N = {} THEN left - n ELSE left - (k - 1)
  /\ va' = NextPage(va)
  /\ UNCHANGED <<args, ret>>

Fault ==
  /\ ret = Running /\ ~got /\ left > 0 /\ ~WalkAddr(va)
  /\ ret' = -1 /\ UNCHANGED <<args, va, left, moved, got>>

Finished == got \/ left = 0
Return ==
  /\ ret = Running /\ Finished
  /\ ret' = IF op = "argstr" /\ ~got THEN -1 ELSE Done(moved)
  /\ UNCHANGED <<args, va, left, moved, got>>

\* fetchaddr looks at p->sz first.
Checks(o, a, s) == o = "fetchaddr" => a < s /\ a + WORD <= s

Init ==
  /\ op \in {"copyout", "copyin", "fetchaddr", "argstr"} /\ va0 \in Addr
  /\ len \in (IF op = "fetchaddr" THEN {WORD} ELSE 0..MaxLen)
  /\ pte \in [Page -> {"none", "kernel", "user"}]
  /\ nul \in (IF op = "argstr" THEN SUBSET (0..NPages * PGSIZE - 1) ELSE {{}})
  /\ sz \in (IF op = "fetchaddr" THEN 0..NPages * PGSIZE ELSE {0})
  /\ va = va0 /\ left = len /\ moved = <<>> /\ got = FALSE
  /\ ret = IF Checks(op, va0, sz) THEN Running ELSE -1

Next == CopyLoop \/ StrLoop \/ Fault \/ Return
Spec == Init /\ [][Next]_vars
-----------------------------------------------------------------------------
TypeOK == va \in 0..(NPages + 2) * PGSIZE /\ left \in 0..MaxLen + WORD /\ Len(moved) <= MaxLen + WORD

Readable(k) == \A a \in va0..va0 + k - 1 : \E p \in Page : a \div PGSIZE = p /\ pte[p] = "user"
\* The longest prefix of the range that user code could touch itself.
Reach == Max({k \in 0..len : Readable(k)})

\* However the range lies over pages, a copy moves each byte once, in order,
\* up to the first byte the user may not touch, and succeeds exactly when
\* that is all of them.
CopyIsExact ==
  ret # Running /\ op \in {"copyout", "copyin"} =>
    /\ moved = From(va0, Reach)
    /\ ret = IF Reach = len THEN 0 ELSE -1

\* argstr and fetchstr stop at the first nul, and succeed exactly when it is
\* among the first max bytes and all before it are the user's.  What both
\* return is the length without the nul, as the comment of fetchstr has it
\* (syscall.c line 26); the comment of argstr, "including nul" (line 76), is
\* not what the code does.
StringIsExact ==
  ret # Running /\ op = "argstr" =>
    LET N == {a \in nul : a - va0 \in 0..Reach - 1} IN
    IF N = {} THEN ret = -1 ELSE ret = Min(N) - va0 /\ moved = From(va0, Min(N) - va0 + 1)

\* fetchaddr reads a word that is not all below p->sz from nowhere, even if
\* the page is mapped.
FetchIsBelowSize ==
  op = "fetchaddr" => /\ moved # <<>> => va0 + WORD <= sz
                      /\ ret = 0 => Len(moved) = WORD /\ Readable(WORD)
=============================================================================
