------------------------------- MODULE Mspace -------------------------------
(***************************************************************************)
(* alloc/dlmalloc/malloc.c and alloc.c: the operations of an mspace as     *)
(* functions from heap to heap.  The build has ONLY_MSPACES, HAVE_MMAP and *)
(* no MORECORE; mmap and munmap are arax_mmap and arax_ummap, which take   *)
(* pages of the shared segment from the bitmap, while mremap is the        *)
(* system's and knows nothing of the bitmap.                               *)
(*                                                                         *)
(* Every function of the interface holds the mspace's lock while it works. *)
(* The checks that end in ABORT (RTCHECK) are left out: HeapChecked, in    *)
(* module Heap, has what they test.  All segments are mapped (never        *)
(* external), all addresses aligned.                                       *)
(***************************************************************************)
EXTENDS Bitmap, Chunks

CONSTANTS
  Page,            \* words of a page
  Granularity,     \* mparams.granularity
  MmapThreshold,   \* mparams.mmap_threshold
  TrimThreshold,   \* mparams.trim_threshold
  MSize,           \* words of the chunk that holds struct malloc_state
  MAX_RELEASE_CHECK_RATE

ASSUME MspaceAssumption ==
  /\ Granularity % Page = 0
  /\ Page % 2 = 0 /\ MSize % 2 = 0
  /\ Granularity - MSize - TOP_FOOT_SIZE > 0

AlignUp(x, unit) == ((x + unit - 1) \div unit) * unit
page_align(x) == AlignUp(x, Page)
granularity_align(x) == AlignUp(x, Granularity)

\* What an operation is: the heap, and the chunk it returns.
Result(m, p) == [m |-> m, p |-> p]
Fail(m) == Result(m, Null)

\* arax_mmap asserts that there are pages: the process aborts.
GotPages(m, r) ==
  IF r.found = NOT_FOUND THEN Fail([m EXCEPT !.abort = TRUE])
  ELSE Result([m EXCEPT !.bmp = r.bmp], r.found * Page)
arax_mmap(m, s) == GotPages(m, utils_bitmap_alloc_bits(m.bmp, s \div Page))
arax_ummap(m, a, s) ==
  [m EXCEPT !.bmp = utils_bitmap_free_bits(@, a \div Page, s \div Page)]
\* mremap to a smaller size: the tail leaves the address space, not the bitmap.
mremap_shrink(m, a, old, new) ==
  [m EXCEPT !.lost = @ \cup (a + new) \div Page .. (a + old) \div Page - 1]

Holds(s, a) == s.base <= a /\ a < s.base + s.size
segment_holding(m, a) == CHOOSE i \in DOMAIN m.segs : Holds(m.segs[i], a)
has_segment_link(m, i) == \E j \in DOMAIN m.segs : Holds(m.segs[i], m.segs[j].at)
should_trim(m, s) == s > m.trim_check

Grow(m, n) ==
  [m EXCEPT !.footprint = @ + n,
            !.max_footprint = IF m.footprint + n > @ THEN m.footprint + n ELSE @]
OverLimit(m, n) == m.limit # 0 /\ m.footprint + n > m.limit
Lower(m, a) == [m EXCEPT !.least_addr = IF a < @ THEN a ELSE @]

-----------------------------------------------------------------------------
(* Directly mapped chunks                                                  *)

MappedSize(nb) == page_align(nb + 8)
Map(m, p, off, s) ==
  Put(Put(Put(m, p, [size |-> s, c |-> FALSE, p |-> FALSE, foot |-> off]),
          p + s, FENCEPOST),
      p + s + 1, Garbage)

MapChunk(r, s) ==
  IF r.m.abort THEN r
  ELSE Result(Lower(Grow(Map(r.m, r.p, 0, s - MMAP_FOOT_PAD), s), r.p), r.p)
mmap_alloc(m, nb) ==
  IF OverLimit(m, MappedSize(nb)) THEN Fail(m)
  ELSE MapChunk(arax_mmap(m, MappedSize(nb)), MappedSize(nb))

\* To a larger size, mremap would fail (the pages behind are the segment's) or,
\* when it may move, leave the shared segment: Realloc keeps to smaller ones.
mmap_resize(m, p, nb) ==
  LET old == chunksize(m, p)
      off == Tag(m, p).foot
      oldmm == old + off + MMAP_FOOT_PAD
      newmm == MappedSize(nb)
      m1 == mremap_shrink(m, p - off, oldmm, newmm)
  IN  IF is_small(nb) THEN Fail(m)
      ELSE IF old >= nb + 1 /\ old - nb <= 2 * Granularity THEN Result(m, p)
      ELSE Result(Grow(Map(m1, p, off, newmm - off - MMAP_FOOT_PAD), newmm - oldmm), p)

-----------------------------------------------------------------------------
(* Memory from the system                                                  *)

init_top(m, p, s) ==
  [SetHead(SetHead(m, p, s, FALSE, TRUE), p + s, TOP_FOOT_SIZE, FALSE, FALSE)
     EXCEPT !.top = p, !.topsize = s, !.trim_check = TrimThreshold]

TakeTop(m, nb) ==
  LET m1 == [m EXCEPT !.top = @ + nb, !.topsize = @ - nb]
  IN  Result(set_size_and_pinuse_of_inuse_chunk(
               SetHead(m1, m1.top, m1.topsize, FALSE, TRUE), m.top, nb), m.top)

\* The new pages end where a segment begins: the rest joins its first chunk.
prepend_alloc(m, newbase, first, nb) ==
  LET q == newbase + nb
      qsize == first - q
      m1 == set_size_and_pinuse_of_inuse_chunk(m, newbase, nb)
      nsize == IF is_inuse(m, first) THEN 0 ELSE chunksize(m, first)
      m2 == IF nsize = 0 THEN m1 ELSE unlink_chunk(m1, first, nsize)
      m3 == set_free_with_pinuse(m2, q, qsize + nsize, first + nsize)
  IN  Result(
        IF first = m.top
          THEN SetHead([m1 EXCEPT !.top = q, !.topsize = @ + qsize],
                       q, m.topsize + qsize, FALSE, TRUE)
        ELSE IF first = m.dv
          THEN set_size_and_pinuse_of_free_chunk(
                 [m1 EXCEPT !.dv = q, !.dvsize = @ + qsize], q, m.dvsize + qsize)
        ELSE insert_chunk(m3, q, qsize + nsize), newbase)

\* Every segment is mapped; at is where its record is.
Segment(base, size, at) == [base |-> base, size |-> size, at |-> at]

\* m->seg, the record in the mspace, describes the new segment; what it had goes
\* to the record at at.
PushSegment(segs, base, size, at) ==
  <<Segment(base, size, segs[1].at), [segs[1] EXCEPT !.at = at]>> \o Tail(segs)

\* The new pages become the segment of the top chunk.  The record of the old
\* one goes to its end, before the fenceposts, and the old top to a bin.
add_segment(m, base, size) ==
  LET end == m.segs[1].base + m.segs[1].size
      raw == end - TOP_FOOT_SIZE
      sp == IF raw < m.top + MIN_CHUNK_SIZE THEN m.top ELSE raw
      m1 == set_size_and_pinuse_of_inuse_chunk(init_top(m, base, size - TOP_FOOT_SIZE), sp, 6)
      m2 == [m1 EXCEPT
               !.segs = PushSegment(@, base, size, sp + 2),
               !.tag = [a \in sp + 6 .. end - 2 |-> FENCEPOST] @@ @]
      old == sp - m.top
  IN  IF old = 0 THEN m2
      ELSE insert_chunk(set_free_with_pinuse(m2, m.top, old, sp), m.top, old)

\* New pages r.p extend the segment of the top chunk, go before another segment
\* (prepend_alloc), or are a segment of their own.
UsePages(m, r, asize, nb) ==
  LET m1 == Grow(r.m, asize)
      m2 == Lower(m1, r.p)
      top == segment_holding(m, m.top)
      after == {i \in DOMAIN m.segs : m.segs[i].base = r.p + asize}
      i == Min(after)
  IN  IF r.m.abort THEN r
      ELSE IF m.segs[top].base + m.segs[top].size = r.p
        THEN TakeTop(init_top([m1 EXCEPT !.segs[top].size = @ + asize], m.top, m.topsize + asize), nb)
      ELSE IF after # {}
        THEN prepend_alloc([m2 EXCEPT !.segs[i].base = r.p, !.segs[i].size = @ + asize],
                           r.p, m.segs[i].base, nb)
      ELSE TakeTop(add_segment(m2, r.p, asize), nb)

SysSegment(m, nb, asize) ==
  IF OverLimit(m, asize) THEN Fail(m) ELSE UsePages(m, arax_mmap(m, asize), asize, nb)

\* The limit may refuse a mapping of its own.
sys_alloc(m, nb) ==
  IF nb >= Huge THEN Fail(m)
  ELSE IF m.use_mmap /\ nb >= MmapThreshold /\ ~OverLimit(m, MappedSize(nb))
    THEN mmap_alloc(m, nb)
  ELSE SysSegment(m, nb, granularity_align(nb + TOP_FOOT_SIZE + 2))

-----------------------------------------------------------------------------
(* Memory back to the system                                               *)

\* Whether segment s is one free chunk.
IsUnused(m, s) ==
  ~is_inuse(m, s.base) /\ s.base + chunksize(m, s.base) >= s.base + s.size - TOP_FOOT_SIZE

ReleaseSegment(m, s) ==
  LET m1 == IF s.base = m.dv THEN [m EXCEPT !.dv = Null, !.dvsize = 0]
            ELSE unlink_large_chunk(m, s.base)
  IN  [arax_ummap(m1, s.base, s.size) EXCEPT
         !.footprint = @ - s.size,
         !.segs = SelectSeq(@, LAMBDA x : x # s)]

\* All segments but the one of the top chunk.
RestartChecks(m, n) ==
  [m EXCEPT !.release_checks = IF n > MAX_RELEASE_CHECK_RATE THEN n ELSE MAX_RELEASE_CHECK_RATE]
release_unused_segments(m) ==
  RestartChecks(FoldLeft(ReleaseSegment, m, SelectSeq(Tail(m.segs), LAMBDA s : IsUnused(m, s))),
                Len(m.segs) - 1)

CutTop(m, i, extra) ==
  [mremap_shrink(m, m.segs[i].base, m.segs[i].size, m.segs[i].size - extra) EXCEPT
     !.segs[i].size = @ - extra, !.footprint = @ - extra]

\* The top chunk keeps less than a granule; a segment with a record cannot shrink.
TrimTop(m, i, room) ==
  LET extra == ((m.topsize - room + Granularity - 1) \div Granularity - 1) * Granularity
  IN  IF m.topsize > room /\ m.segs[i].size >= extra /\ extra > 0 /\ ~has_segment_link(m, i)
        THEN init_top(CutTop(m, i, extra), m.top, m.topsize - extra) ELSE m

\* Nothing was released: no trim by itself any more.
StopTrim(m, before) ==
  IF m.footprint = before /\ m.topsize > m.trim_check THEN [m EXCEPT !.trim_check = Huge] ELSE m

sys_trim(m, pad) ==
  StopTrim(release_unused_segments(
             TrimTop(m, segment_holding(m, m.top), pad + TOP_FOOT_SIZE)), m.footprint)

-----------------------------------------------------------------------------
(* free                                                                    *)

\* The consolidation of dispose_chunk and mspace_free; "to" is where the
\* chunk went, s its size if that is a bin.
Merged(m, to) == [m |-> m, to |-> to, s |-> 0]
Binning(m, p, s) == [m |-> insert_chunk(m, p, s), to |-> "bin", s |-> s]

MergeNext(m, p, s, next) ==
  IF cinuse(m, next)
    THEN Binning(set_free_with_pinuse(m, p, s, next), p, s)
  ELSE IF next = m.top
    THEN Merged(SetHead([m EXCEPT !.top = p, !.topsize = @ + s,
                                  !.dv = IF @ = p THEN Null ELSE @,
                                  !.dvsize = IF m.dv = p THEN 0 ELSE @],
                        p, m.topsize + s, FALSE, TRUE), "top")
  ELSE IF next = m.dv
    THEN Merged(set_size_and_pinuse_of_free_chunk(
                  [m EXCEPT !.dv = p, !.dvsize = @ + s], p, m.dvsize + s), "dv")
  ELSE LET n == chunksize(m, next)
           m1 == set_size_and_pinuse_of_free_chunk(unlink_chunk(m, next, n), p, s + n)
       IN  IF p = m.dv THEN Merged([m1 EXCEPT !.dvsize = s + n], "dv")
           ELSE Binning(m1, p, s + n)

Merge(m, p, s) ==
  LET next == p + s
      foot == Tag(m, p).foot
      prev == p - foot
      all == s + foot + MMAP_FOOT_PAD
  IN  IF is_mmapped(m, p)
        THEN Merged([arax_ummap(m, prev, all) EXCEPT !.footprint = @ - all], "unmapped")
      ELSE IF pinuse(m, p) THEN MergeNext(m, p, s, next)
      ELSE IF prev = m.dv /\ cinuse(m, next) /\ pinuse(m, next)
        THEN Merged(set_free_with_pinuse([m EXCEPT !.dvsize = s + foot], prev, s + foot, next), "dv")
      ELSE MergeNext(IF prev = m.dv THEN m ELSE unlink_chunk(m, prev, foot), prev, s + foot, next)

dispose_chunk(m, p, s) == Merge(m, p, s).m

\* A large top chunk is trimmed; every so many large frees, unused segments
\* are released.
AfterFree(r) ==
  LET m1 == [r.m EXCEPT !.release_checks = @ - 1]
  IN  IF r.to = "top" THEN IF should_trim(r.m, r.m.topsize) THEN sys_trim(r.m, 0) ELSE r.m
      ELSE IF r.to # "bin" \/ is_small(r.s) THEN r.m
      ELSE IF m1.release_checks = 0 THEN release_unused_segments(m1) ELSE m1

mspace_free(m, p) == AfterFree(Merge(m, p, chunksize(m, p)))

-----------------------------------------------------------------------------
(* malloc                                                                  *)

\* v is unlinked; what is left of it, if it is a chunk, becomes the designated
\* victim or goes to a bin.
Split(m, v, s, nb, victim) ==
  LET r == s - nb
      m1 == set_size_and_pinuse_of_free_chunk(
              set_size_and_pinuse_of_inuse_chunk(m, v, nb), v + nb, r)
  IN  Result(CASE r < MIN_CHUNK_SIZE -> set_inuse_and_pinuse(m, v, s)
               [] r >= MIN_CHUNK_SIZE /\ victim -> replace_dv(m1, v + nb, r)
               [] OTHER -> insert_chunk(m1, v + nb, r), v)

TakeNode(m, v, nb, victim) ==
  Split(unlink_large_chunk(m, v.ring[1]), v.ring[1], SizeOf(m, v), nb, victim)

\* The request is left to the designated victim if that fits better.
TakeLarge(m, v, nb) ==
  IF v = NoNode \/ (m.dvsize >= nb /\ SizeOf(m, v) >= m.dvsize) THEN Fail(m)
  ELSE TakeNode(m, v, nb, FALSE)
tmalloc_large(m, nb) == TakeLarge(m, BestLarge(m, nb), nb)
tmalloc_small(m, nb) == TakeNode(m, BestSmall(m, nb), nb, TRUE)

\* The designated victim, the top chunk, the system.
MallocRest(m, nb) ==
  LET r == m.dvsize - nb
      m1 == set_size_and_pinuse_of_free_chunk(
              [m EXCEPT !.dv = @ + nb, !.dvsize = r], m.dv + nb, r)
  IN  IF nb <= m.dvsize
        THEN Result(IF r >= MIN_CHUNK_SIZE
                      THEN set_size_and_pinuse_of_inuse_chunk(m1, m.dv, nb)
                      ELSE set_inuse_and_pinuse([m EXCEPT !.dv = Null, !.dvsize = 0],
                                                m.dv, m.dvsize), m.dv)
      ELSE IF nb < m.topsize THEN TakeTop(m, nb)
      ELSE sys_alloc(m, nb)

TakeExact(m, p, s) == Result(set_inuse_and_pinuse(unlink_small_chunk(m, p, s), p, s), p)
TakeSmall(m, p, s, nb) == Split(unlink_small_chunk(m, p, s), p, s, nb, TRUE)

\* What the bins give.
FromBins(m, nb) ==
  LET exact == smallmap(m) \cap {nb, nb + 1}
      larger == {s \in smallmap(m) : s > nb}
  IN  IF nb >= Huge THEN Fail(m)
      ELSE IF ~is_small(nb) THEN tmalloc_large(m, nb)
      ELSE IF exact # {} THEN TakeExact(m, m.small[Min(exact)][1], Min(exact))
      ELSE IF nb <= m.dvsize THEN Fail(m)
      ELSE IF larger # {} THEN TakeSmall(m, m.small[Min(larger)][1], Min(larger), nb)
      ELSE IF treemap(m) # {} THEN tmalloc_small(m, nb)
      ELSE Fail(m)

OrElse(r, m, nb) == IF r.p # Null THEN r ELSE MallocRest(m, nb)
mspace_malloc(m, bytes) == OrElse(FromBins(m, request2size(bytes)), m, request2size(bytes))

\* A product that overflows is a request too large for everyone.
mspace_calloc(m, n, bytes) ==
  mspace_malloc(m, IF n * bytes >= Huge THEN Huge ELSE n * bytes)

-----------------------------------------------------------------------------
(* realloc, memalign, independent chunks                                   *)

\* p keeps nb words of the s it has; the rest is freed if it is a chunk.
Trim(m, p, s, nb) ==
  LET r == s - nb
  IN  dispose_chunk(set_inuse(set_inuse(m, p, nb), p + nb, r), p + nb, r)

try_realloc_chunk(m, p, nb) ==
  LET old == chunksize(m, p)
      next == p + old
      top == old + m.topsize
      dv == old + m.dvsize
      n == chunksize(m, next)
      m1 == unlink_chunk(m, next, n)
  IN  IF is_mmapped(m, p) THEN mmap_resize(m, p, nb)
      ELSE IF old >= nb
        THEN Result(IF old - nb >= MIN_CHUNK_SIZE THEN Trim(m, p, old, nb) ELSE m, p)
      ELSE IF next = m.top
        THEN IF top <= nb THEN Fail(m)
             ELSE Result(SetHead([set_inuse(m, p, nb) EXCEPT !.top = p + nb, !.topsize = top - nb],
                                 p + nb, top - nb, FALSE, TRUE), p)
      ELSE IF next = m.dv
        THEN IF dv < nb THEN Fail(m)
             ELSE IF dv - nb >= MIN_CHUNK_SIZE
               THEN Result(SetPinuse(set_size_and_pinuse_of_free_chunk(
                             [set_inuse(m, p, nb) EXCEPT !.dv = p + nb, !.dvsize = dv - nb],
                             p + nb, dv - nb), p + dv, FALSE), p)
             ELSE Result([set_inuse(m, p, dv) EXCEPT !.dv = Null, !.dvsize = 0], p)
      ELSE IF cinuse(m, next) \/ old + n < nb THEN Fail(m)
      ELSE IF old + n - nb < MIN_CHUNK_SIZE THEN Result(set_inuse(m1, p, old + n), p)
      ELSE Result(Trim(m1, p, old + n, nb), p)

\* internal_memalign takes an alignment up to a power of two, at least
\* MIN_CHUNK_SIZE (four words, itself one), ...
PowerOfTwo(alignment) ==
  Min({a \in {MIN_CHUNK_SIZE * 2^k : k \in 0 .. alignment} : a >= alignment})

\* ... asks for more than it needs, then cuts an aligned chunk out of what it got.
AlignRequest(alignment, bytes) ==
  request2size(bytes) + alignment + MIN_CHUNK_SIZE - CHUNK_OVERHEAD

AlignedSpot(p, alignment) ==
  LET br == AlignUp(p + 2, alignment) - 2
  IN  IF br = p \/ br - p >= MIN_CHUNK_SIZE THEN br ELSE br + alignment

DropLead(m, p, q) ==
  LET lead == q - p
      s == chunksize(m, p) - lead
  IN  IF lead = 0 THEN m
      ELSE IF is_mmapped(m, p)
        THEN Put(m, q, [Tag(m, p) EXCEPT !.size = s, !.foot = @ + lead])
      ELSE dispose_chunk(set_inuse(set_inuse(m, q, s), p, lead), p, lead)

DropTail(m, q, nb) ==
  IF ~is_mmapped(m, q) /\ chunksize(m, q) > nb + MIN_CHUNK_SIZE
    THEN Trim(m, q, chunksize(m, q), nb) ELSE m

internal_memalign(m, p, alignment, bytes) ==
  LET q == AlignedSpot(p, alignment)
  IN  Result(DropTail(DropLead(m, p, q), q, request2size(bytes)), q)

\* ialloc as mspace_independent_calloc calls it: n elements of one size and the
\* array of their addresses, cut out of one chunk that is not mapped directly.
\* Elements of different sizes (mspace_independent_comalloc) and an array of the
\* caller's are left out; nothing in the library asks for them.
IallocRequest(n, bytes) == n * request2size(bytes) + request2size(n) - CHUNK_OVERHEAD
Elements(p, n, bytes) == [i \in 1 .. n |-> p + (i - 1) * request2size(bytes)]

\* The array takes the rest of the chunk, the last element its part.
ialloc(m, p, n, bytes) ==
  LET es == request2size(bytes)
      Cut(x, q) == set_size_and_pinuse_of_inuse_chunk(x, q, es)
  IN  FoldLeft(Cut, set_size_and_pinuse_of_inuse_chunk(m, p + n * es, chunksize(m, p) - n * es),
               Elements(p, n, bytes))

\* For an array of two: a chunk that its neighbour follows in the array is
\* joined with it first.
JoinNext(m, p) == set_inuse(m, p, chunksize(m, p) + chunksize(m, next_chunk(m, p)))
FreePair(m, p, q) ==
  IF q = next_chunk(m, p) THEN dispose_chunk(JoinNext(m, p), p, chunksize(m, p) + chunksize(m, q))
  ELSE dispose_chunk(dispose_chunk(m, p, chunksize(m, p)), q, chunksize(m, q))

TrimIfLarge(m) == IF should_trim(m, m.topsize) THEN sys_trim(m, 0) ELSE m
internal_bulk_free(m, p, q) == TrimIfLarge(FreePair(m, p, q))

-----------------------------------------------------------------------------
(* An mspace as a whole                                                    *)

\* arch_alloc_init_once on a segment of n pages: create_mspace(0, 1) with
\* init_user_mstate.
EmptyHeap(n) ==
  [tag |-> <<>>, small |-> [s \in SmallSizes |-> <<>>], tree |-> [i \in TreeBins |-> NoNode],
   dv |-> Null, dvsize |-> 0, top |-> Null, topsize |-> 0, segs |-> <<>>,
   footprint |-> 0, max_footprint |-> 0, least_addr |-> 0, limit |-> 0, trim_check |-> 0,
   release_checks |-> MAX_RELEASE_CHECK_RATE, use_mmap |-> TRUE,
   bmp |-> utils_bitmap_init(n), lost |-> {}, abort |-> FALSE]
init_user_mstate(m, base) ==
  init_top(set_size_and_pinuse_of_inuse_chunk(
             [Grow(m, Granularity) EXCEPT
                !.least_addr = base,
                !.segs = <<Segment(base, Granularity, base + 2)>>], base, MSize),
           base + MSize, Granularity - MSize - TOP_FOOT_SIZE)
NewMspace(r) == init_user_mstate(r.m, r.p)
create_mspace(m) == NewMspace(arax_mmap(m, Granularity))

\* The limit of 0 bytes, meant to be the least one, is none.
mspace_set_footprint_limit(m, bytes) ==
  [m EXCEPT !.limit = IF bytes = Huge THEN 0 ELSE granularity_align(bytes)]
mspace_track_large_chunks(m, enable) == [m EXCEPT !.use_mmap = ~enable]

\* Directly mapped chunks stay.
destroy_mspace(m) ==
  LET Unmap(x, s) == arax_ummap(x, s.base, s.size) IN FoldLeft(Unmap, m, m.segs)

\* The chunks of segment s, from its base to the top chunk or a fencepost.
RECURSIVE ChunksFrom(_, _, _)
ChunksFrom(m, s, q) ==
  IF ~Holds(s, q) \/ q = m.top \/ IsFence(m, q) THEN <<>>
  ELSE <<q>> \o ChunksFrom(m, s, next_chunk(m, q))
SegChunks(m, i) == ChunksFrom(m, m.segs[i], m.segs[i].base)
AllChunks(m) == UNION {ToSet(SegChunks(m, i)) : i \in DOMAIN m.segs}
Total(m, ps) == MapThenSumSet(LAMBDA p : chunksize(m, p), ps)

internal_mallinfo(m) ==
  LET used == {p \in AllChunks(m) : is_inuse(m, p)}
      free == AllChunks(m) \ used
      mfree == Total(m, free) + m.topsize + TOP_FOOT_SIZE
      arena == Total(m, used) + mfree
  IN  [arena |-> arena, ordblks |-> Cardinality(free) + 1, hblkhd |-> m.footprint - arena,
       uordblks |-> m.footprint - mfree, fordblks |-> mfree]

\* The used chunks that internal_inspect_all reports, with their sizes.
internal_inspect_all(m) ==
  {<<p, chunksize(m, p) - CHUNK_OVERHEAD>> : p \in {q \in AllChunks(m) : is_inuse(m, q)}}
=============================================================================
