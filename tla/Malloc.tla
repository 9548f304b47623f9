------------------------------- MODULE Malloc -------------------------------
(***************************************************************************)
(* The allocator of user/umalloc.c.  Addresses and sizes are in units of   *)
(* one Header; base is at 0, below the heap, which starts at 1.  The       *)
(* program may also call sbrk itself, so the arenas of morecore need not   *)
(* be contiguous.                                                          *)
(***************************************************************************)
EXTENDS Integers, FiniteSets

CONSTANTS HeapSize,  \* units sbrk can give in all
          MinCore,   \* the 4096 units of morecore
          HeaderSize, TwoW, \* sizeof(Header) and 2^32, scaled down
          Request    \* the sizes malloc is asked for

VARIABLES
  heap,    \* ptr and size of the headers, freep (-1 before the first malloc) and brk
  live,    \* blocks handed out: header |-> bytes asked for; -1 elsewhere
  own,     \* units the program got from sbrk itself
  ret      \* what the last call returned: its header, 0 for a null pointer, or Overrun
vars == <<heap, live, own, ret>>

Unit == 1..HeapSize
Addr == 0..HeapSize
Base == 0
Overrun == -1   \* morecore got another amount than it recorded, and the heap is ruined

Forget(h, a) == [h EXCEPT !.ptr[a] = 0, !.size[a] = 0]

RECURSIVE Place(_, _, _)
\* The loop of free: the block after which bp goes.
Place(h, bp, p) ==
  LET q == h.ptr[p] IN
  IF (bp > p /\ bp < q) \/ (p >= q /\ (bp > p \/ bp < q)) THEN p ELSE Place(h, bp, q)

\* Join bp with the block that follows it, when they touch.
JoinNext(h, bp, p) ==
  LET q == h.ptr[p] IN
  IF bp + h.size[bp] = q
  THEN [Forget(h, q) EXCEPT !.size[bp] = @ + h.size[q], !.ptr[bp] = h.ptr[q]]
  ELSE [h EXCEPT !.ptr[bp] = q]
\* Join p with bp.
JoinPrev(h, bp, p) ==
  IF p + h.size[p] = bp
  THEN [Forget(h, bp) EXCEPT !.size[p] = @ + h.size[bp], !.ptr[p] = h.ptr[bp]]
  ELSE [h EXCEPT !.ptr[p] = bp]

FreeBlock(h, bp) ==
  LET p == Place(h, bp, h.freep) IN [JoinPrev(JoinNext(h, bp, p), bp, p) EXCEPT !.freep = p]

Core(nu) == IF nu < MinCore THEN MinCore ELSE nu
\* The product is computed in 64 bits and passed as an int.
AsInt(n) == LET m == n % TwoW IN IF m < TwoW \div 2 THEN m ELSE m - TwoW
Exact(nu) == AsInt(Core(nu) * HeaderSize) = Core(nu) * HeaderSize
CanGrow(h, nu) == h.brk + Core(nu) <= HeapSize + 1
MoreCore(h, nu) ==
  FreeBlock([h EXCEPT !.size[h.brk] = Core(nu), !.brk = @ + Core(nu)], h.brk)

Split_keeps_size(h, p, n) == [h EXCEPT !.size[p + h.size[p] - n] = n]
\* The tail of p becomes a block of n units.
Split(h, p, n) == [h EXCEPT !.size[p] = @ - n, !.size[p + h.size[p] - n] = n]

Fits(size, n) == size >= n

RECURSIVE Search(_, _, _, _)
\* The loop of malloc: first fit, from prevp.  r = 0 when the heap cannot grow.
Search(h, prevp, p, n) ==
  IF Fits(h.size[p], n)
  THEN IF h.size[p] = n
       THEN [h |-> [h EXCEPT !.ptr[prevp] = h.ptr[p], !.ptr[p] = 0, !.freep = prevp], r |-> p]
       ELSE [h |-> [Split(h, p, n) EXCEPT !.freep = prevp], r |-> p + h.size[p] - n]
  ELSE IF p # h.freep THEN Search(h, p, h.ptr[p], n)
  ELSE IF ~Exact(n) THEN [h |-> h, r |-> Overrun]
  ELSE IF ~CanGrow(h, n) THEN [h |-> h, r |-> 0]
  ELSE LET g == MoreCore(h, n) IN Search(g, g.freep, g.ptr[g.freep], n)

\* The sum is computed in 64 bits, and the quotient fits in an unsigned int.
Units(n) == (n + HeaderSize - 1) \div HeaderSize + 1

Started(h) == IF h.freep = -1 THEN [h EXCEPT !.freep = Base] ELSE h
DoMalloc(n) ==
  LET h == Started(heap)  s == Search(h, h.freep, h.ptr[h.freep], Units(n)) IN
  /\ heap' = s.h /\ ret' = s.r
  /\ live' = IF s.r \in {0, Overrun} THEN live ELSE [live EXCEPT ![s.r] = n]
  /\ UNCHANGED own

DoFree(b) ==
  /\ live[b] >= 0
  /\ heap' = FreeBlock(heap, b) /\ live' = [live EXCEPT ![b] = -1] /\ ret' = 0
  /\ UNCHANGED own

\* The program extends its own data by one unit.
Sbrk ==
  /\ heap.brk <= HeapSize
  /\ own' = own \cup {heap.brk} /\ heap' = [heap EXCEPT !.brk = @ + 1] /\ ret' = 0
  /\ UNCHANGED live

Init ==
  /\ heap = [ptr |-> [a \in Addr |-> 0], size |-> [a \in Addr |-> 0], freep |-> -1, brk |-> 1]
  /\ live = [a \in Unit |-> -1] /\ own = {} /\ ret = 0
Next ==
  /\ ret # Overrun
  /\ (\E n \in Request : DoMalloc(n)) \/ (\E b \in Unit : DoFree(b)) \/ Sbrk
Spec == Init /\ [][Next]_vars
-----------------------------------------------------------------------------
RECURSIVE Around(_, _)
\* The free list from a, up to base.
Around(a, seen) == IF a = Base \/ a \in seen THEN seen ELSE Around(heap.ptr[a], seen \cup {a})
FreeBlocks == Around(heap.ptr[Base], {})
Live == {b \in Unit : live[b] >= 0}
Span(b) == b..b + heap.size[b] - 1

TypeOK ==
  /\ heap.ptr \in [Addr -> Addr] /\ heap.size \in [Addr -> Addr] /\ heap.freep \in Addr \cup {-1}
  /\ heap.brk \in 1..HeapSize + 1 /\ ret \in Addr \cup {Overrun}

\* Each unit of the heap is in exactly one place: a free block, a block handed
\* out, or the program's own; splitting and joining lose and share nothing.
Tiles ==
  /\ UNION {Span(b) : b \in FreeBlocks \cup Live} \cup own = 1..heap.brk - 1
  /\ \A a, b \in FreeBlocks \cup Live : a # b => Span(a) \cap Span(b) = {}
  /\ \A b \in FreeBlocks \cup Live : Span(b) \cap own = {}

\* The free list goes round once in address order, freep is on it, and no two
\* free blocks touch: otherwise the search of free for its place need not end.
ListInOrder ==
  /\ \A a \in FreeBlocks : heap.ptr[a] = Base \/ (heap.ptr[a] > a + heap.size[a] /\ heap.ptr[a] \in FreeBlocks)
  /\ heap.freep \in FreeBlocks \cup {Base, -1}

\* A block handed out has room behind its header for the bytes asked for.
RoomForRequest == \A b \in Live : (heap.size[b] - 1) * HeaderSize >= live[b]

\* In any step: malloc returns a null pointer only when no free block would have done and
\* the heap could not grow.
NullOnlyWhenFull ==
  \A n \in Request : DoMalloc(n) /\ ret' = 0 =>
    /\ \A b \in FreeBlocks : heap.size[b] < Units(n)
    /\ ~CanGrow(heap, Units(n))

\* In any step: the conversion of morecore's request to the int of sbrk ruins the heap only
\* for requests of about half of what an unsigned int can say.
OverrunOnlyWhenHuge ==
  \A n \in Request : DoMalloc(n) /\ ret' = Overrun => n + 2 * HeaderSize > TwoW \div 2
=============================================================================
