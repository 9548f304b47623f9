------------------------------ MODULE FileData ------------------------------
(***************************************************************************)
(* File contents: the block allocator, bmap, itrunc, readi and writei of   *)
(* kernel/fs.c, and fileread and filewrite of kernel/file.c, which split a *)
(* write into transactions.  Processes interleave between the chunks of a  *)
(* write; within one the inode is locked.  A byte is the name of the       *)
(* process that wrote it.                                                  *)
(***************************************************************************)
EXTENDS Integers, Sequences, FiniteSetsExt

CONSTANTS Proc, Zero,
          File, Handle, InodeOf,   \* open files and their inodes
          BSIZE, NDIRECT, NINDIRECT,
          NBlocks,    \* data blocks 1..NBlocks
          MaxChunk,   \* bytes per transaction: ((MAXOPBLOCKS-1-1-2) / 2) * BSIZE
          Lengths,    \* of reads and writes
          UintMod     \* number of values of an unsigned int

MAXFILE == NDIRECT + NINDIRECT
Offset == 0..BSIZE - 1

VARIABLES
  fs,        \* used: bitmap; data, ind: blocks; addrs, size: inodes; old: what a
             \* block holds again if its buffer, changed but not logged, is recycled
  off,       \* f->off
  pc, left, good,   \* a filewrite: the open file, n - i, valid source bytes left
  content,   \* what the files hold, as sequences; a byte is the set of its values
  wrote,     \* bytes a process has written, if nothing was cut or torn
  spoiled,   \* some file was truncated, or a write failed half way
  panic      \* freeing free block, bmap: out of range, short filewrite

vars == <<fs, off, pc, left, good, content, wrote, spoiled, panic>>
-----------------------------------------------------------------------------
(* Blocks.  An operator takes the file system s and returns the new one.   *)

\* balloc: the first free block, zeroed.
BAlloc(s) ==
  LET b == Min((1..NBlocks) \ s.used) IN
  [addr |-> b,
   fs |-> [s EXCEPT !.used = @ \cup {b},
                    !.data[b] = [i \in Offset |-> Zero],
                    !.ind[b] = [i \in 0..NINDIRECT - 1 |-> 0],
                    !.old[b] = <<>>]]

\* The block at a, or a new one if a is 0.
Need(s, a) == IF a # 0 THEN [addr |-> a, fs |-> s] ELSE BAlloc(s)

BMap_lost_indirect(s, f, bn) ==
  IF bn < NDIRECT
  THEN LET r == Need(s, s.addrs[f][bn]) IN [r EXCEPT !.fs.addrs[f][bn] = r.addr]
  ELSE LET i == Need(s, s.addrs[f][NDIRECT])
           r == Need(i.fs, i.fs.ind[i.addr][bn - NDIRECT])
       IN  [r EXCEPT !.fs.addrs[f][NDIRECT] = i.addr]

BMap(s, f, bn) ==
  IF bn < NDIRECT
  THEN LET r == Need(s, s.addrs[f][bn]) IN [r EXCEPT !.fs.addrs[f][bn] = r.addr]
  ELSE LET i == Need(s, s.addrs[f][NDIRECT])
           r == Need(i.fs, i.fs.ind[i.addr][bn - NDIRECT])
       IN  [r EXCEPT !.fs.addrs[f][NDIRECT] = i.addr, !.fs.ind[i.addr][bn - NDIRECT] = r.addr]

Blocks(s, f) ==
  LET d == {s.addrs[f][i] : i \in 0..NDIRECT}
      x == s.addrs[f][NDIRECT]
  IN  (d \cup (IF x = 0 THEN {} ELSE {s.ind[x][j] : j \in 0..NINDIRECT - 1})) \ {0}

\* A freed block keeps its bytes until balloc zeroes them; nothing reads
\* them, so they are zeroed here.
Truncated(s, f, blocks) ==
  [s EXCEPT !.used = @ \ blocks,
            !.data = [b \in 1..NBlocks |-> IF b \in blocks THEN [i \in Offset |-> Zero] ELSE @[b]],
            !.ind = [b \in 1..NBlocks |-> IF b \in blocks THEN [i \in 0..NINDIRECT - 1 |-> 0] ELSE @[b]],
            !.old = [b \in 1..NBlocks |-> IF b \in blocks THEN <<>> ELSE @[b]],
            !.size[f] = 0, !.addrs[f] = [i \in 0..NDIRECT |-> 0]]

ITrunc(s, f) == Truncated(s, f, Blocks(s, f))
-----------------------------------------------------------------------------
(* writei: n bytes v at o, of which the first g can be read from the user. *)

MinOf(a, b) == IF a < b THEN a ELSE b

\* A block whose copyin fails is not logged: its bytes, if they changed, stay
\* only if a call of the same transaction has logged it, as balloc has (logged:
\* some other has).
Torn(before, s, b, logged) ==
  IF logged THEN [s EXCEPT !.old[b] = <<>>]
  ELSE IF b \notin before.used \/ s.data[b] = before.data[b] THEN s
  ELSE [s EXCEPT !.old[b] = IF @ = <<>> THEN <<before.data[b]>> ELSE @]

RECURSIVE Copy(_, _, _, _, _, _, _)
Copy(s, f, o, n, g, v, logged) ==
  IF n = 0 THEN [fs |-> s, off |-> o]
  ELSE LET r == BMap(s, f, o \div BSIZE)
           m == MinOf(n, BSIZE - (o % BSIZE))
           k == MinOf(m, g)     \* bytes that copyin gets to
           t == [r.fs EXCEPT !.data[r.addr] =
                   [i \in Offset |-> IF i - (o % BSIZE) \in 0..k - 1 THEN v ELSE @[i]]]
       IN  IF g < m THEN [fs |-> Torn(s, t, r.addr, logged), off |-> o]
           ELSE Copy([t EXCEPT !.old[r.addr] = <<>>], f, o + m, n - m, g - m, v, logged)

WriteI(s, f, o, n, g, v, logged) ==
  IF o > s.size[f] \/ (o + n) % UintMod < o \/ o + n > MAXFILE * BSIZE
  THEN [fs |-> s, ret |-> -1]
  ELSE LET c == Copy(s, f, o, n, g, v, logged) IN
       [fs |-> [c.fs EXCEPT !.size[f] = IF n > 0 /\ c.off > @ THEN c.off ELSE @], ret |-> n]

\* Of n bytes at o, those in blocks that the first g bytes cover whole.
Whole(o, n, g) == IF g >= n THEN n ELSE LET w == ((o + g) \div BSIZE) * BSIZE - o IN IF w > 0 THEN w ELSE 0

\* The same on a sequence: whole blocks hold v, torn bytes v or what they held.
Overlay(c, o, n, g, v, size) ==
  [i \in 1..size |-> IF i \in o + 1..o + Whole(o, n, g) THEN {v}
                     ELSE IF i \in o + 1..o + MinOf(n, g) THEN c[i] \cup {v} ELSE c[i]]
-----------------------------------------------------------------------------
\* From here on the bytes of each process are not counted.
Spoil == spoiled' = TRUE /\ wrote' = [p \in Proc |-> 0]

WriteCall(p, h, n, g) ==
  /\ pc[p] = "idle"
  /\ pc' = [pc EXCEPT ![p] = h]
  /\ left' = [left EXCEPT ![p] = n] /\ good' = [good EXCEPT ![p] = g]
  /\ UNCHANGED <<fs, off, content, wrote, spoiled, panic>>

\* f->off after writei returned r.
Advanced(o, r) == IF r > 0 THEN o + r ELSE o

\* One round of filewrite's loop.
Chunk(p, logged) ==
  LET h == pc[p]  f == InodeOf[h]  o == off[h]
      n1 == MinOf(left[p], MaxChunk)
      whole == good[p] >= n1
  IN
  /\ h # "idle"
  /\ \E w \in {WriteI(fs, f, o, n1, good[p], p, logged)} :
       /\ fs' = w.fs
       /\ off' = [off EXCEPT ![h] = Advanced(o, w.ret)]
       /\ content' = IF w.ret < 0 THEN content
                     ELSE [content EXCEPT ![f] = Overlay(@, o, n1, good[p], p, w.fs.size[f])]
       /\ panic' = (panic \/ w.ret \notin {-1, n1})
       /\ left' = [left EXCEPT ![p] = IF w.ret < 0 THEN 0 ELSE @ - n1]
       /\ good' = [good EXCEPT ![p] = IF whole /\ w.ret > 0 THEN @ - n1 ELSE 0]
       /\ pc' = [pc EXCEPT ![p] = IF left'[p] = 0 THEN "idle" ELSE @]
       /\ IF spoiled \/ ~whole THEN Spoil
          ELSE wrote' = [wrote EXCEPT ![p] = IF w.ret < 0 THEN @ ELSE @ + n1] /\ UNCHANGED spoiled

\* readi of n bytes, n possibly negative, at o: how many there are.
ReadI(s, f, o, n) ==
  LET u == n % UintMod IN
  IF o > s.size[f] \/ (o + u) % UintMod < o THEN 0
  ELSE MinOf(u, s.size[f] - o)

\* fileread, when the first g bytes can be written to the user: readi stops at
\* the block whose copyout fails.
FileRead(h, n, g) ==
  /\ off' = [off EXCEPT ![h] = @ + Whole(@, ReadI(fs, InodeOf[h], @, n), g)]
  /\ UNCHANGED <<fs, pc, left, good, content, wrote, spoiled, panic>>

\* bget takes the buffer of a block that was changed and not logged.
Recycle(b) ==
  /\ fs.old[b] # <<>>
  /\ fs' = [fs EXCEPT !.data[b] = fs.old[b][1], !.old[b] = <<>>]
  /\ UNCHANGED <<off, pc, left, good, content, wrote, spoiled, panic>>

\* open with O_TRUNC, or the last iput of an unlinked file.
Truncate(f) ==
  /\ fs' = ITrunc(fs, f)
  /\ content' = [content EXCEPT ![f] = <<>>]
  /\ panic' = (panic \/ ~(Blocks(fs, f) \subseteq fs.used))
  /\ Spoil
  /\ UNCHANGED <<off, pc, left, good>>

Reopen(h) ==
  /\ Spoil
  /\ off' = [off EXCEPT ![h] = 0]
  /\ UNCHANGED <<fs, pc, left, good, content, panic>>

Init ==
  /\ fs = [used |-> {},
           data |-> [b \in 1..NBlocks |-> [i \in Offset |-> Zero]],
           ind |-> [b \in 1..NBlocks |-> [i \in 0..NINDIRECT - 1 |-> 0]],
           addrs |-> [f \in File |-> [i \in 0..NDIRECT |-> 0]],
           size |-> [f \in File |-> 0],
           old |-> [b \in 1..NBlocks |-> <<>>]]
  /\ off = [h \in Handle |-> 0]
  /\ pc = [p \in Proc |-> "idle"] /\ left = [p \in Proc |-> 0]
  /\ good = left /\ wrote = left
  /\ content = [f \in File |-> <<>>]
  /\ spoiled = FALSE /\ panic = FALSE

Next ==
  \/ \E p \in Proc :
       \/ \E logged \in BOOLEAN : Chunk(p, logged)
       \/ \E h \in Handle, n \in Lengths : \E g \in 0..n : WriteCall(p, h, n, g)
  \/ \E h \in Handle :
       \/ Reopen(h)
       \/ \E n \in Lengths : \E g \in 0..n : FileRead(h, n, g)
       \/ \E g \in 0..Max(Lengths) : FileRead(h, -1, g)
  \/ \E f \in File : Truncate(f)
  \/ \E b \in 1..NBlocks : Recycle(b)

Spec == Init /\ [][Next]_vars
-----------------------------------------------------------------------------
TypeOK ==
  /\ fs.used \subseteq 1..NBlocks
  /\ fs.size \in [File -> 0..MAXFILE * BSIZE]
  /\ off \in [Handle -> 0..MAXFILE * BSIZE]
  /\ left \in [Proc -> 0..Max(Lengths)] /\ good \in [Proc -> 0..Max(Lengths)]

\* The byte of file f at k, by way of the direct and the indirect blocks.
ByteAt(f, k) ==
  LET bn == k \div BSIZE
      b == IF bn < NDIRECT THEN fs.addrs[f][bn] ELSE fs.ind[fs.addrs[f][NDIRECT]][bn - NDIRECT]
  IN  IF b = 0 THEN Zero ELSE fs.data[b][k % BSIZE]

\* Whatever was written, torn, truncated and written again, in chunks of
\* several processes: a file holds the bytes a plain sequence would hold; a
\* byte of a block whose copyin failed is the new one or the one before,
\* which may come back when the buffer is recycled, and its neighbours stay.
ContentsRight ==
  \A f \in File :
    /\ Len(content[f]) = fs.size[f]
    /\ \A k \in 0..fs.size[f] - 1 : ByteAt(f, k) \in content[f][k + 1]

\* Every block marked in the bitmap belongs to exactly one file, and every
\* block of a file is marked; none is freed twice.
BlocksConserved ==
  /\ ~panic
  /\ fs.used = UNION {Blocks(fs, f) : f \in File}
  /\ \A f, g \in File : f # g => Blocks(fs, f) \cap Blocks(fs, g) = {}

\* Two processes that write through one open file never overwrite each
\* other, and none of their bytes is missing, until the file is full.
SharedOffsetKeepsAll ==
  spoiled \/ \A p \in Proc :
    wrote[p] = MapThenSumSet(LAMBDA f : Cardinality({i \in DOMAIN content[f] : content[f][i] = {p}}), File)
=============================================================================
