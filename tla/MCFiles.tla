------------------------------ MODULE MCFiles -------------------------------
(***************************************************************************)
(* The layers of the file system for TLC, one at a time: an initial state  *)
(* chooses a part, and the behaviour is that part's alone.  A variable is  *)
(* shared by the parts that have one of that name and Off in the others.   *)
(***************************************************************************)
EXTENDS Integers, TLC

CONSTANTS p1, p2, p3, i1, x1, f1, f2, h1, h2, NoProc, NoBlock, Zero, NoPipe, Off

VARIABLES part, pc,
  blk, valid, lock, want, panic, type, nlink, ref, file,   \* of several parts
  order, refcnt, data, disk, buf, pinned, latest,          \* of one: bio
  inum, dtype, dnlink, entries, ip, reused,                \* icache
  fs, off, left, good, content, wrote, spoiled,            \* data
  ofile, iref, ends, pend, mine, cur, nfd,                    \* ftable
  ents, cwd, call, ghost,                                  \* tree
  din, freeblock, freeinode, bits, files                   \* mkfs

common == <<blk, valid, lock, want, panic, type, nlink, ref, file>>
bio    == <<order, refcnt, data, disk, buf, pinned, latest>>
icache == <<inum, dtype, dnlink, entries, ip, reused>>
bytes  == <<fs, off, left, good, content, wrote, spoiled>>
ftable == <<ofile, iref, ends, pend, mine, cur, nfd>>
tree   == <<ents, cwd, call, ghost>>
image  == <<din, freeblock, freeinode, bits, files>>
all    == <<part, pc, common, bio, icache, bytes, ftable, tree, image>>
-----------------------------------------------------------------------------
One == {p1}
Two == {p1, p2}
Three == {p1, p2, p3}

\* Two buffers for two processes: block 3 is the log's, 2 an indirect block,
\* 1 a block of the bitmap.
Blocks == 1..3
Nested == {<<3, 2>>, <<3, 1>>, <<2, 1>>}
Changed == 1..1
Values == {Zero, 1}
B == INSTANCE BufCache
       WITH Proc <- Two, NBUF <- 2, Block <- Blocks, Inside <- Nested, Written <- Changed, Value <- Values
ASSUME B!ConstantsOK

\* Three processes and an entry for each of two inodes; then two processes and
\* one entry, so that iget may find none.
I == INSTANCE InodeCache WITH Proc <- Three, NINODE <- 2, NInodes <- 2, MaxLinks <- 2
J == INSTANCE InodeCache WITH Proc <- Two, NINODE <- 1, NInodes <- 2, MaxLinks <- 2

\* Two files, one direct block and one in the indirect block; then one file
\* that two processes write through one open file.
F == {f1}
Fs == {f1, f2}
H == {h1}
Hs == {h1, h2}
Separate == (h1 :> f1) @@ (h2 :> f2)
Shorts == {1, 2}
D == INSTANCE FileData
       WITH Proc <- One, File <- Fs, Handle <- Hs, InodeOf <- Separate, BSIZE <- 1,
            NDIRECT <- 1, NINDIRECT <- 1, NBlocks <- 6, MaxChunk <- 2, Lengths <- Shorts, UintMod <- 16
Together == h1 :> f1
Odds == {1, 3}
S == INSTANCE FileData
       WITH Proc <- Two, File <- F, Handle <- H, InodeOf <- Together, BSIZE <- 2,
            NDIRECT <- 1, NINDIRECT <- 1, NBlocks <- 3, MaxChunk <- 2, Lengths <- Odds, UintMod <- 16

\* Two processes, three files and two descriptors each, one inode and one pipe.
Inodes == {i1}
Pipes == {x1}
T == INSTANCE FileTable WITH Proc <- Two, NFILE <- 3, NOFILE <- 2, Inode <- Inodes, Pipe <- Pipes
ASSUME T!ConstantsOK

\* Two processes make, enter and remove nested directories; then they make,
\* open, link and remove files; then they race for one inode.
Abs(s) == [abs |-> TRUE, elems |-> s]
Rel(s) == [abs |-> FALSE, elems |-> s]
TreePaths == {Abs(<<"a">>), Abs(<<"a", "a">>), Rel(<<"b">>), Rel(<<"..">>)}
LinkPaths == {Abs(<<"a">>), Abs(<<"b">>), Abs(<<"b", "a">>)}
Names == {"a", "b"}
TreeOps == {"mkdir", "unlink", "chdir"}
N == INSTANCE FsTree WITH Proc <- Two, NInodes <- 3, Name <- Names, Paths <- TreePaths, Ops <- TreeOps
LinkOps == {"creat", "link", "unlink", "open"}
L == INSTANCE FsTree WITH Proc <- Two, NInodes <- 3, Name <- Names, Paths <- LinkPaths, Ops <- LinkOps
DevOps == {"creat", "mknod", "unlink"}
M == INSTANCE FsTree WITH Proc <- Two, NInodes <- 2, Name <- Names, Paths <- LinkPaths, Ops <- DevOps

\* Up to five files, the largest of which needs the indirect block.
Sizes == {0, 1, 3, 7, 15}
K == INSTANCE Mkfs
       WITH FSSIZE <- 48, BSIZE <- 3, NINODES <- 7, IPB <- 2, LOGSIZE <- 2, NDIRECT <- 2,
            BitsPerBlock <- 32, FileSize <- Sizes, MaxFiles <- 5
-----------------------------------------------------------------------------
NoBio == order = Off /\ refcnt = Off /\ data = Off /\ disk = Off /\ buf = Off /\ pinned = Off /\ latest = Off
NoIcache == inum = Off /\ dtype = Off /\ dnlink = Off /\ entries = Off /\ ip = Off /\ reused = Off
NoBytes ==
  /\ fs = Off /\ off = Off /\ left = Off /\ good = Off
  /\ content = Off /\ wrote = Off /\ spoiled = Off
NoFtable == ofile = Off /\ iref = Off /\ ends = Off /\ pend = Off /\ mine = Off /\ cur = Off /\ nfd = Off
NoTree == ents = Off /\ cwd = Off /\ call = Off /\ ghost = Off
NoImage == din = Off /\ freeblock = Off /\ freeinode = Off /\ bits = Off /\ files = Off

Init ==
  /\ part \in {"bio", "icache", "full", "data", "shared", "ftable", "dirs", "links", "devs", "mkfs"}
  /\ IF part = "bio" THEN B!Init ELSE NoBio
  /\ CASE part = "icache" -> I!Init [] part = "full" -> J!Init [] OTHER -> NoIcache
  /\ CASE part = "data" -> D!Init [] part = "shared" -> S!Init [] OTHER -> NoBytes
  /\ IF part = "ftable" THEN T!Init ELSE NoFtable
  /\ CASE part = "dirs" -> N!Init [] part = "links" -> L!Init [] part = "devs" -> M!Init [] OTHER -> NoTree
  /\ IF part = "mkfs" THEN K!Init ELSE NoImage
  /\ part \in {"bio", "mkfs"} \/ blk = Off
  /\ part \in {"bio", "icache", "full"} \/ (valid = Off /\ want = Off)
  /\ part \in {"bio", "icache", "full", "dirs", "links", "devs"} \/ lock = Off
  /\ part \in {"icache", "full", "dirs", "links", "devs"} \/ (type = Off /\ nlink = Off /\ ref = Off)
  /\ part \in {"ftable", "dirs", "links", "devs"} \/ file = Off
  /\ part # "mkfs" \/ panic = Off

Next ==
  \/ part = "bio"    /\ B!Next /\ UNCHANGED <<part, type, nlink, ref, file, icache, bytes, ftable, tree, image>>
  \/ /\ (part = "icache" /\ I!Next) \/ (part = "full" /\ J!Next)
     /\ UNCHANGED <<part, blk, file, bio, bytes, ftable, tree, image>>
  \/ /\ (part = "data" /\ D!Next) \/ (part = "shared" /\ S!Next)
     /\ UNCHANGED <<part, blk, valid, lock, want, type, nlink, ref, file, bio, icache, ftable, tree, image>>
  \/ /\ part = "ftable" /\ T!Next
     /\ UNCHANGED <<part, blk, valid, lock, want, type, nlink, ref, bio, icache, bytes, tree, image>>
  \/ /\ (part = "dirs" /\ N!Next) \/ (part = "links" /\ L!Next) \/ (part = "devs" /\ M!Next)
     /\ UNCHANGED <<part, blk, valid, want, bio, icache, bytes, ftable, image>>
  \/ /\ part = "mkfs" /\ K!Next
     /\ UNCHANGED <<part, valid, lock, want, panic, type, nlink, ref, file, bio, icache, bytes, ftable, tree>>

Spec == Init /\ [][Next]_all

Symmetry == Permutations(Two)
-----------------------------------------------------------------------------
(* One property for each layer.                                            *)

\* bio.c: two callers of bget never get two buffers for one block; whoever
\* reads a block next sees what the last writer left, through every
\* recycling, pin and write-back; bget panics only when every buffer is in use
\* or pinned; holders of two buffers do not wait for each other.
CacheRight == part = "bio" => B!CacheInv /\ B!CacheRight /\ B!NoWaitCycle

\* iget, ilock, iput, ialloc: two processes share the entry of an inode and
\* see, with it locked, what is on disk, also after it was freed and allocated
\* again; the acquiresleep of iput does not block; what a directory names is
\* allocated, with a link for each name and each call of link on its way to
\* one; an inode that nothing names or uses is free, unless ialloc took it
\* from under an iput; iget panics only with every entry in use.
InodesRight == (part = "icache" => I!InodesRight) /\ (part = "full" => J!InodesRight)

\* readi, writei, bmap, itrunc, filewrite: a file holds the bytes a plain
\* sequence would hold, whatever was written, torn, truncated and written
\* again; every block marked in the bitmap belongs to exactly one file; two
\* processes that write through one open file lose none of their bytes.
FilesRight ==
  /\ part = "data" => D!TypeOK /\ D!ContentsRight /\ D!BlocksConserved
  /\ part = "shared" => S!TypeOK /\ S!ContentsRight /\ S!BlocksConserved /\ S!SharedOffsetKeepsAll

\* file.c and sysfile.c: a struct file's count is the number of descriptors
\* that refer to it, whoever dups, forks, closes and exits, and what is behind
\* it is held once and given back once; no call sees its file closed under its
\* hands; an open or pipe that fails, at whichever of its steps, keeps nothing.
FileTableRight ==
  /\ [](part = "ftable" => T!TableInv)
  /\ [][part = "ftable" => T!CallKeepsFile]_all

\* sys_mkdir, sys_link, sys_unlink, sys_chdir, create: the directories form a
\* tree and link counts are the names there are, but for names made in a
\* directory already removed; every call gives back the inode references it
\* took; no calls wait for each other's inode locks; unlink does not panic.
TreeRight ==
  /\ part = "dirs" => N!TypeOK /\ N!IsTree /\ N!LinksExact /\ N!RefsExact /\ N!NoLockCycle /\ N!UnlinkFindsLinks
  /\ part = "links" => L!TypeOK /\ L!LinksExact /\ L!RefsExact /\ L!NoLockCycle /\ L!UnlinkFindsLinks
  /\ part = "devs" => M!TypeOK /\ M!LinksExact /\ M!RefsExact /\ M!UnlinkFindsLinks

\* mkfs.c: each inode of the image leads to exactly its file's bytes, the
\* bitmap says which blocks are used, each by one file, and the entries of the
\* root directory are below its size.
ImageRight == part = "mkfs" => K!TypeOK /\ K!FilesReadBack /\ K!BitmapExact /\ K!RootCovered
=============================================================================
