-------------------------------- MODULE Mkfs --------------------------------
(***************************************************************************)
(* mkfs/mkfs.c: the image the kernel boots from.  A unit is the size of a  *)
(* directory entry, which holds its inode number; the units of a file are  *)
(* numbers of their own.  A block is BSIZE units, and an indirect block    *)
(* holds block numbers instead.  Files are added one at a time.            *)
(***************************************************************************)
EXTENDS Integers, Sequences, FiniteSets

CONSTANTS FSSIZE, BSIZE, NINODES, IPB, LOGSIZE, NDIRECT,
          BitsPerBlock,  \* BSIZE * 8
          FileSize,      \* the sizes files may have
          MaxFiles       \* bound: files on the command line, fewer than NINODES - 1

VARIABLES
  blk,       \* the sectors after the inode blocks; the bitmap is kept in bits
  din,       \* the inodes: size and addrs, which are NDIRECT + 1 block numbers
  freeblock, freeinode,
  bits,      \* the blocks marked in the bitmap
  files,     \* sizes of the files added so far
  pc
vars == <<blk, din, freeblock, freeinode, bits, files, pc>>

\* As many block numbers to a block as units.
NINDIRECT == BSIZE
MAXFILE == NDIRECT + NINDIRECT
nbitmap == FSSIZE \div BitsPerBlock + 1
ninodeblocks == NINODES \div IPB + 1
logstart == 2
inodestart == 2 + LOGSIZE
bmapstart == 2 + LOGSIZE + ninodeblocks
nmeta == 2 + LOGSIZE + ninodeblocks + nbitmap
IBlock(i) == inodestart + i \div IPB

Block == 0..FSSIZE - 1
Zeroes == [i \in 1..BSIZE |-> 0]
Root == 1
\* Unit u of the k-th file.
Data(k, u) == 100 * k + u

\* The block x of the image im with the m units of p put at offset o.
Patch(im, x, o, p, m) == [im EXCEPT !.blk[x] = [i \in 1..BSIZE |-> IF i - o \in 1..m THEN p[i - o] ELSE @[i]]]

\* The image with a block behind address a of the inode (or entry e of its
\* indirect block), taken from freeblock when there is none.
Direct(im, i, a) ==
  IF im.din[i].addrs[a] # 0 THEN im
  ELSE [im EXCEPT !.din[i].addrs[a] = im.freeblock, !.freeblock = @ + 1]
Indirect_not_saved(im, i, e) ==
  LET g == Direct(im, i, NDIRECT + 1) IN
  IF g.blk[g.din[i].addrs[NDIRECT + 1]][e] # 0 THEN g ELSE [g EXCEPT !.freeblock = @ + 1]
Indirect(im, i, e) ==
  LET g == Direct(im, i, NDIRECT + 1)  t == g.din[i].addrs[NDIRECT + 1] IN
  IF g.blk[t][e] # 0 THEN g
  ELSE [g EXCEPT !.blk[t][e] = g.freeblock, !.freeblock = @ + 1]

Least(a, b) == IF a < b THEN a ELSE b
\* How much of n goes into block fbn.
Room(n, fbn, off) == Least(n, (fbn + 1) * BSIZE - off)

RECURSIVE IAppend(_, _, _)
\* One passage of iappend's loop for each block; the size is kept as it goes.
IAppend(im, i, p) ==
  LET off == im.din[i].size  fbn == off \div BSIZE
      g == IF fbn < NDIRECT THEN Direct(im, i, fbn + 1) ELSE Indirect(im, i, fbn - NDIRECT + 1)
      x == IF fbn < NDIRECT THEN g.din[i].addrs[fbn + 1]
           ELSE g.blk[g.din[i].addrs[NDIRECT + 1]][fbn - NDIRECT + 1]
      n1 == Room(Len(p), fbn, off)
  IN IF p = <<>> THEN im
     ELSE IAppend([Patch(g, x, off - fbn * BSIZE, p, n1) EXCEPT !.din[i].size = off + n1],
                  i, SubSeq(p, n1 + 1, Len(p)))

Image == [blk |-> blk, din |-> din, freeblock |-> freeblock, freeinode |-> freeinode]
Becomes(im) == blk' = im.blk /\ din' = im.din /\ freeblock' = im.freeblock /\ freeinode' = im.freeinode

IAlloc(im) ==
  [im EXCEPT !.freeinode = @ + 1, !.din[im.freeinode] = [size |-> 0, addrs |-> [a \in 1..NDIRECT + 1 |-> 0]]]

\* The root directory with "." and "..".
MakeRoot == pc = "start" /\ Becomes(IAppend(IAppend(IAlloc(Image), Root, <<Root>>), Root, <<Root>>))
            /\ pc' = "files" /\ UNCHANGED <<bits, files>>

RECURSIVE Chunks(_, _, _, _, _)
\* The loop of main over read: units u + 1..n of file k, a buffer at a time.
Chunks(im, i, k, u, n) ==
  IF u >= n THEN im
  ELSE LET cc == Least(n - u, BSIZE)
       IN Chunks(IAppend(im, i, [j \in 1..cc |-> Data(k, u + j)]), i, k, u + cc, n)

AddFile(n) ==
  LET im == IAlloc(Image)  i == freeinode  k == Len(files) + 1 IN
  /\ pc = "files" /\ k <= MaxFiles
  /\ Becomes(Chunks(IAppend(im, Root, <<i>>), i, k, 0, n))
  /\ files' = Append(files, n) /\ UNCHANGED <<bits, pc>>

RoundUp(off) == (off \div BSIZE + 1) * BSIZE
BAlloc(used) == 0..used - 1
Finish ==
  /\ pc = "files" /\ freeblock < BitsPerBlock /\ pc' = "done"
  /\ din' = [din EXCEPT ![Root].size = RoundUp(@)]
  /\ bits' = BAlloc(freeblock)
  /\ UNCHANGED <<blk, freeblock, freeinode, files>>
\* The assertion of balloc: the bitmap is written to one block.
Abort == pc = "files" /\ freeblock >= BitsPerBlock /\ pc' = "abort" /\ UNCHANGED <<blk, din, freeblock, freeinode, bits, files>>

Init ==
  /\ blk = [b \in Block |-> Zeroes] /\ freeblock = nmeta /\ freeinode = 1
  /\ din = [i \in 0..NINODES - 1 |-> [size |-> 0, addrs |-> [a \in 1..NDIRECT + 1 |-> 0]]]
  /\ bits = {} /\ files = <<>> /\ pc = "start"
Next == MakeRoot \/ (\E n \in FileSize : AddFile(n)) \/ Finish \/ Abort
Spec == Init /\ [][Next]_vars
-----------------------------------------------------------------------------
(* The kernel's view of the image.                                         *)
Addr(i, fbn) ==
  IF fbn < NDIRECT THEN din[i].addrs[fbn + 1]
  ELSE IF din[i].addrs[NDIRECT + 1] = 0 THEN 0
  ELSE blk[din[i].addrs[NDIRECT + 1]][fbn - NDIRECT + 1]
Unit(i, off) == IF Addr(i, off \div BSIZE) = 0 THEN 0 ELSE blk[Addr(i, off \div BSIZE)][(off % BSIZE) + 1]
Contents(i) == [o \in 1..din[i].size |-> Unit(i, o - 1)]
FileInode(k) == k + 1
Inodes == 1..freeinode - 1
\* The places a block number is kept, each with that number.
Places == {<<i, f, Addr(i, f)>> : i \in Inodes, f \in 0..MAXFILE - 1} \cup
          {<<i, -1, din[i].addrs[NDIRECT + 1]>> : i \in Inodes}
Kept == {r \in Places : r[3] # 0}

TypeOK ==
  /\ freeblock \in nmeta..FSSIZE /\ freeinode \in 1..NINODES /\ bits \subseteq Block
  /\ \A i \in 1..freeinode - 1 : IBlock(i) \in inodestart..bmapstart - 1
  /\ \A i \in DOMAIN din : din[i].size \in 0..MAXFILE * BSIZE

\* The inode of each file leads to exactly its bytes, through direct and
\* indirect blocks, and the root directory to ".", ".." and one entry per file.
FilesReadBack ==
  pc = "done" =>
    /\ \A k \in DOMAIN files : Contents(FileInode(k)) = [u \in 1..files[k] |-> Data(k, u)]
    /\ \A o \in 1..din[Root].size :
         Contents(Root)[o] = IF o <= 2 THEN Root ELSE IF o <= Len(files) + 2 THEN FileInode(o - 2) ELSE 0

\* The bitmap says what is used: the blocks before the data and the blocks
\* some inode leads to, each of which is kept in one place only.
BitmapExact ==
  pc = "done" =>
    /\ bits = 0..nmeta - 1 \cup {r[3] : r \in Kept}
    /\ \A r, q \in Kept : r[3] = q[3] => r = q
    /\ \A r \in Kept : r[3] >= nmeta

\* All entries of the root are below its size, and its blocks have addresses,
\* but for one: when the entries fill their last block, the size that main sets
\* reaches over one block more.
RootCovered ==
  LET entries == Len(files) + 2 IN
  pc = "done" =>
    /\ din[Root].size >= entries /\ din[Root].size % BSIZE = 0
    /\ \A f \in 0..din[Root].size \div BSIZE - 1 :
         Addr(Root, f) = 0 <=> entries % BSIZE = 0 /\ f = entries \div BSIZE
=============================================================================
