-------------------------------- MODULE Heap --------------------------------
(***************************************************************************)
(* The heap of the shared segment: the calls of alloc.c and of the mspace  *)
(* interface of malloc.c in every order, and what the code's own checks    *)
(* (do_check_malloc_state and the functions it calls, compiled with DEBUG) *)
(* demand of the result.  A call holds the mspace's lock, and the bitmap's *)
(* inside it: one step.                                                    *)
(***************************************************************************)
EXTENDS Mspace

CONSTANTS
  Pages,        \* pages of the segment
  Sizes,        \* sizes that are requested, in words
  Alignments,   \* alignments asked of mspace_memalign
  Blocks,       \* sizes that are requested of the other calls
  Layouts,      \* the sequences of allocations a behaviour starts with
  IallocAlone,  \* whether mspace_independent_calloc runs with no other thread's call
  MaxLive,      \* bound: allocations at a time
  MaxCalls      \* bound: calls in a behaviour

VARIABLES
  m,            \* the heap
  live,         \* the allocations: chunk |-> size that was asked
  todo,         \* what is left of a call that takes the lock more than once
  open,         \* whether the mspace exists
  calls

vars == <<m, live, todo, open, calls>>

None == [op |-> "none", p |-> Null, q |-> Null, n |-> 0]
Live == DOMAIN live
Mapped == {p \in Live : is_mmapped(m, p)}

\* The headers that the heap's structure reaches; all other memory is the
\* user's.  prev_foot is kept where it is read.
Settle(h, ps) ==
  LET mapped == {p \in ps : is_mmapped(h, p)}
      chunks == AllChunks(h)
      ends == {next_chunk(h, p) : p \in chunks \cup mapped}
      keep == chunks \cup mapped \cup ends \cup {h.top, h.top + h.topsize}
  IN  [h EXCEPT !.tag = [a \in keep |->
         [Tag(h, a) EXCEPT !.foot = IF pinuse(h, a) /\ a \notin mapped THEN 0 ELSE @]]]

\* The heap and the allocations after allocations of the sizes in q.
Allocated(x, n, r) == [m |-> r.m, live |-> (r.p :> n) @@ x.live]
AllocateNext(x, n) == Allocated(x, n, mspace_malloc(x.m, n))
Start(q) == FoldLeft(AllocateNext, [m |-> create_mspace(EmptyHeap(Pages)), live |-> <<>>], q)

Init ==
  /\ \E q \in Layouts : \E x \in {Start(q)} : m = Settle(x.m, DOMAIN x.live) /\ live = x.live
  /\ todo = None
  /\ open = TRUE
  /\ calls = 0

\* The lock is held once: it leaves heap h and the allocations ps with their
\* sizes.
Locked(h, ps) ==
  /\ open /\ ~m.abort
  /\ m' = IF h.abort THEN [m EXCEPT !.abort = TRUE] ELSE Settle(h, DOMAIN ps)
  /\ live' = IF h.abort THEN live ELSE ps
  /\ UNCHANGED open

\* A call begins; what it has left to do is t.
Begin(t) == todo = None /\ todo' = t /\ calls < MaxCalls /\ calls' = calls + 1
\* A call of another thread, while one is between two of its locks.
Meanwhile ==
  /\ IallocAlone => todo.op # "split"
  /\ calls < MaxCalls /\ calls' = calls + 1 /\ UNCHANGED todo
Continue(op) == todo.op = op /\ UNCHANGED calls

Mine == Live \ {todo.p, todo.q}
Without(S) == [p \in Live \ S |-> live[p]]
With(p, n) == IF p = Null THEN live ELSE (p :> n) @@ live
Room(n) == Cardinality(Live) + n <= MaxLive

Gives(r, n) == Locked(r.m, With(r.p, n))
arch_alloc_allocate(n) == Room(1) /\ Meanwhile /\ Gives(mspace_malloc(m, n), n)
arch_alloc_free(p) == Meanwhile /\ Locked(mspace_free(m, p), Without({p}))

Calloc(k, n) == Room(1) /\ Begin(None) /\ Gives(mspace_calloc(m, k, n), k * n)

\* See mmap_resize.
Resizable(p, n) ==
  ~is_mmapped(m, p) \/ chunksize(m, p) > request2size(n) \/ is_small(request2size(n))

Resized(r, p, n) == Locked(r.m, IF r.p = Null THEN live ELSE [live EXCEPT ![p] = n])
mspace_realloc_in_place(p, n) ==
  Resizable(p, n) /\ Begin(None) /\ Resized(try_realloc_chunk(m, p, request2size(n)), p, n)

\* When the chunk cannot grow where it is: another one, a copy, a free.
Moves(r, p, n) ==
  Begin(IF r.p # Null THEN None ELSE [op |-> "move", p |-> p, q |-> Null, n |-> n])
  /\ Resized(r, p, n)
mspace_realloc(p, n) ==
  Room(1) /\ Resizable(p, n) /\ Moves(try_realloc_chunk(m, p, request2size(n)), p, n)
Moved(r) ==
  /\ todo' = IF r.p = Null THEN None ELSE [todo EXCEPT !.op = "free", !.q = r.p]
  /\ Gives(r, todo.n)
ReallocMalloc == Continue("move") /\ Moved(mspace_malloc(m, todo.n))
ReallocFree ==
  Continue("free") /\ todo' = None /\ Locked(mspace_free(m, todo.p), Without({todo.p}))

\* mspace_memalign and mspace_independent_calloc: an allocation, then the chunk
\* is cut.
Larger(r, n, k, op) ==
  /\ Begin(IF r.p = Null THEN None ELSE [op |-> op, p |-> r.p, q |-> k, n |-> n])
  /\ Gives(r, n)
mspace_memalign(a, n) ==
  LET alignment == PowerOfTwo(a)
  IN  Room(1) /\ Larger(mspace_malloc(m, AlignRequest(alignment, n)), n, alignment, "align")
Aligned(r) == Locked(r.m, (r.p :> todo.n) @@ Without({todo.p}))
MemalignCut ==
  Continue("align") /\ todo' = None /\ Aligned(internal_memalign(m, todo.p, todo.q, todo.n))

\* The code clears use_mmap before it takes the lock and sets it again after:
\* here it is one step with the allocation, so that no other call meets the heap
\* with direct mapping off.  IallocAlone says which other calls are kept out.
Restore(r) == Result([r.m EXCEPT !.use_mmap = m.use_mmap], r.p)
mspace_independent_calloc(k, n) ==
  /\ Room(k + 1)
  /\ Larger(Restore(mspace_malloc([m EXCEPT !.use_mmap = FALSE], IallocRequest(k, n))), n, k, "split")
Cuts == Elements(todo.p, todo.q, todo.n)
Arr == todo.p + todo.q * request2size(todo.n)
IallocCut ==
  /\ Continue("split") /\ todo' = None
  /\ Locked(ialloc(m, todo.p, todo.q, todo.n),
            (Arr :> todo.q) @@ [p \in ToSet(Cuts) |-> todo.n] @@ Without({todo.p}))

mspace_bulk_free(p, q) ==
  p # q /\ Begin(None) /\ Locked(internal_bulk_free(m, p, q), Without({p, q}))
mspace_trim(pad) == Begin(None) /\ Locked(sys_trim(m, pad), live)
SetLimit(n) == Begin(None) /\ Locked(mspace_set_footprint_limit(m, n), live)
Track(b) == Begin(None) /\ Locked(mspace_track_large_chunks(m, b), live)

arch_alloc_exit ==
  /\ open /\ ~m.abort /\ todo = None
  /\ m' = destroy_mspace(m)
  /\ open' = FALSE
  /\ UNCHANGED <<live, todo, calls>>

Next ==
  \/ \E n \in Sizes : arch_alloc_allocate(n)
  \/ \E p \in Mine : arch_alloc_free(p)
  \/ \E k \in {0, 2}, n \in Blocks \cup {Huge} : Calloc(k, n)
  \/ \E p \in Live, n \in Blocks : mspace_realloc(p, n) \/ mspace_realloc_in_place(p, n)
  \/ ReallocMalloc
  \/ ReallocFree
  \/ \E a \in Alignments, n \in Blocks : mspace_memalign(a, n)
  \/ MemalignCut
  \/ \E n \in Blocks : mspace_independent_calloc(2, n)
  \/ IallocCut
  \/ \E p, q \in Live : mspace_bulk_free(p, q)
  \/ mspace_trim(0)
  \/ Live = {} /\ \E n \in {0, 2 * Granularity, Huge} : SetLimit(n)
  \/ Live = {} /\ \E b \in BOOLEAN : Track(b)
  \/ arch_alloc_exit

Spec == Init /\ [][Next]_vars

-----------------------------------------------------------------------------
(* The code's checks                                                       *)

do_check_top_chunk(h) ==
  LET s == h.segs[segment_holding(h, h.top)]
  IN  /\ chunksize(h, h.top) = h.topsize
      /\ h.topsize > 0
      /\ h.topsize = s.base + s.size - h.top - TOP_FOOT_SIZE
      /\ pinuse(h, h.top) /\ ~pinuse(h, h.top + h.topsize)

\* But for use_mmap, which mspace_track_large_chunks may have changed since.
do_check_mmapped_chunk(h, p) ==
  /\ ~is_small(chunksize(h, p))
  /\ (chunksize(h, p) + Tag(h, p).foot + MMAP_FOOT_PAD) % Page = 0
  /\ IsFence(h, next_chunk(h, p))

do_check_any_chunk(h, p) == p % 2 = 0 /\ p >= h.least_addr

do_check_inuse_chunk(h, p) ==
  /\ do_check_any_chunk(h, p)
  /\ is_inuse(h, p)
  /\ pinuse(h, next_chunk(h, p))
  /\ is_mmapped(h, p) \/ pinuse(h, p) \/ next_chunk(h, p - Tag(h, p).foot) = p
  /\ is_mmapped(h, p) => do_check_mmapped_chunk(h, p)

do_check_free_chunk(h, p) ==
  LET next == next_chunk(h, p)
  IN  /\ do_check_any_chunk(h, p)
      /\ ~is_inuse(h, p)
      /\ ~pinuse(h, next)
      /\ chunksize(h, p) >= MIN_CHUNK_SIZE /\ chunksize(h, p) % 2 = 0
      /\ Tag(h, next).foot = chunksize(h, p)
      /\ pinuse(h, p)
      /\ next = h.top \/ is_inuse(h, next)

RECURSIVE do_check_tree(_, _, _)
do_check_tree(h, t, i) ==
  LET size == SizeOf(h, t)
  IN  /\ minsize_for_tree_index(i) <= size /\ size < minsize_for_tree_index(i + 1)
      /\ TreeIndex(size) = i
      /\ \A j \in DOMAIN t.ring :
           /\ chunksize(h, t.ring[j]) = size
           /\ ~is_inuse(h, t.ring[j])
           /\ ~pinuse(h, next_chunk(h, t.ring[j]))
      /\ \A k \in 1 .. 2 : t.child[k] # NoNode => do_check_tree(h, t.child[k], i)
      /\ (t.child[1] # NoNode /\ t.child[2] # NoNode) =>
            SizeOf(h, t.child[1]) < SizeOf(h, t.child[2])

do_check_treebin(h, i) == h.tree[i] = NoNode \/ do_check_tree(h, h.tree[i], i)
do_check_smallbin(h, s) ==
  \A j \in DOMAIN h.small[s] :
    chunksize(h, h.small[s][j]) = s /\ do_check_free_chunk(h, h.small[s][j])

\* Found along the bits of its size, not just somewhere in the tree.
bin_find(h, x) ==
  LET s == chunksize(h, x)
      RECURSIVE Find(_, _)
      Find(t, bit) ==
        IF t = NoNode THEN FALSE
        ELSE IF SizeOf(h, t) = s THEN x \in ToSet(t.ring)
        ELSE Find(t.child[1 + Bit(s, bit)], bit - 1)
  IN  IF is_small(s) THEN x \in ToSet(h.small[s])
      ELSE Find(h.tree[TreeIndex(s)], TopBit(TreeIndex(s)))

traverse_and_check(h) ==
  \A i \in DOMAIN h.segs :
    LET q == SegChunks(h, i)
    IN  /\ pinuse(h, h.segs[i].base)
        /\ \A j \in DOMAIN q :
             IF is_inuse(h, q[j]) THEN ~bin_find(h, q[j]) /\ do_check_inuse_chunk(h, q[j])
             ELSE /\ q[j] = h.dv \/ bin_find(h, q[j])
                  /\ j > 1 => is_inuse(h, q[j - 1])
                  /\ do_check_free_chunk(h, q[j])

do_check_malloc_state(h) ==
  /\ \A s \in SmallSizes : do_check_smallbin(h, s)
  /\ \A i \in TreeBins : do_check_treebin(h, i)
  /\ h.dvsize # 0 =>
       /\ do_check_any_chunk(h, h.dv)
       /\ h.dvsize = chunksize(h, h.dv) /\ h.dvsize >= MIN_CHUNK_SIZE
       /\ ~bin_find(h, h.dv)
  /\ do_check_top_chunk(h)
  /\ traverse_and_check(h)
  /\ internal_mallinfo(h).arena <= h.footprint
  /\ h.footprint <= h.max_footprint

-----------------------------------------------------------------------------
(* Properties                                                              *)

TypeOK ==
  /\ open \in BOOLEAN
  /\ \A p \in Live : p \in 0 .. Pages * Page /\ live[p] \in 0 .. Huge
  /\ m.topsize \in Nat /\ m.dvsize \in Nat /\ m.footprint \in Nat
  /\ m.bmp.bits \subseteq 0 .. Pages - 1

\* The code's own checks hold after every call: boundary tags agree with their
\* neighbours, no two free chunks touch, every free chunk is in the bin or on
\* the trie path of its size, and the totals add up.
HeapChecked == open => do_check_malloc_state(m)

\* What is in use is what was allocated: each allocation is a used chunk with
\* room for what was asked, and the heap's walk (arch_alloc_inspect) reports
\* the allocations, the mspace itself and the segment records, and no others.
LiveIntact ==
  open =>
    LET records == {m.segs[i].at - 2 : i \in DOMAIN m.segs}
    IN  /\ \A p \in Live :
             chunksize(m, p) - (IF is_mmapped(m, p) THEN 2 ELSE CHUNK_OVERHEAD) >= live[p]
        /\ {r[1] : r \in internal_inspect_all(m)} = (Live \ Mapped) \cup records

PagesOf(base, size) == base \div Page .. (base + size) \div Page - 1
SegPages(i) == PagesOf(m.segs[i].base, m.segs[i].size)
MappedPages(p) ==
  LET off == Tag(m, p).foot IN PagesOf(p - off, chunksize(m, p) + off + MMAP_FOOT_PAD)

\* No page has two owners: the pages taken from the bitmap are those of the
\* segments, of the directly mapped chunks and the ones mremap has lost; the
\* footprint is the first two, and after arch_alloc_exit only mapped chunks
\* keep pages.
PagesOwned ==
  LET segs == IF open THEN {SegPages(i) : i \in DOMAIN m.segs} ELSE {}
      owned == segs \cup {MappedPages(p) : p \in Mapped}
      n == Cardinality(UNION owned)
  IN  /\ m.bmp.bits = UNION owned \cup m.lost
      /\ m.bmp.used = Cardinality(m.bmp.bits)
      /\ \A x, y \in owned : x = y \/ x \cap y = {}
      /\ UNION owned \cap m.lost = {}
      /\ open => m.footprint = n * Page

\* The tries give the best fit: for every request, the chunk found is a
\* smallest one of those in the tree bins that are large enough.
BestFit ==
  LET sizes == {chunksize(m, p) : p \in UNION {ChunksOf(m.tree[i]) : i \in TreeBins}}
      Found(v) == IF v = NoNode THEN Null ELSE SizeOf(m, v)
      Least(S) == IF S = {} THEN Null ELSE Min(S)
  IN  /\ \A nb \in {request2size(n) : n \in Sizes} :
           IF is_small(nb) THEN sizes # {} => Found(BestSmall(m, nb)) = Min(sizes)
           ELSE Found(BestLarge(m, nb)) = Least({s \in sizes : s >= nb})

\* Segment records are where the code expects them: all but the first lie in
\* their own segment, so that releasing it loses no other one, and the mspace's
\* segment stays.
RecordsPlaced ==
  open => /\ \A i \in 2 .. Len(m.segs) : Holds(m.segs[i], m.segs[i].at)
          /\ \E i \in DOMAIN m.segs : Holds(m.segs[i], m.segs[1].at)
          /\ Holds(m.segs[1], m.top)
=============================================================================
