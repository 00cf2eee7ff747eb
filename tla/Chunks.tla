------------------------------- MODULE Chunks -------------------------------
(***************************************************************************)
(* alloc/dlmalloc/malloc.c, the chunks of a heap: boundary tags, small     *)
(* bins and tree bins.  A heap is a record m (see Mspace); an operator     *)
(* named after a macro or a function of the code takes the heap before the *)
(* call and is the heap after it.                                          *)
(*                                                                         *)
(* Addresses and sizes are in words of size_t.  m.tag maps the address of  *)
(* a chunk to its header: size, CINUSE, PINUSE and prev_foot.  The code's  *)
(* pointers to user memory are two words behind; here an allocation is     *)
(* named by its chunk.                                                     *)
(***************************************************************************)
EXTENDS Integers, FiniteSets, FiniteSetsExt, SequencesExt, TLC

CONSTANTS
  TreeBinShift   \* a chunk is large from 2^TreeBinShift words on: 5 in the code

ASSUME ChunksAssumption == TreeBinShift \in Nat /\ TreeBinShift >= 3

Null == -1
Huge == 1000000      \* above every size: unsigned differences that wrap
MIN_CHUNK_SIZE == 4
CHUNK_OVERHEAD == 1
TOP_FOOT_SIZE == 10  \* a segment record's chunk and a smallest chunk
MMAP_FOOT_PAD == 4
MIN_LARGE_SIZE == 2 ^ TreeBinShift

\* pad_request and request2size: the overhead, rounded up to two words.
pad_request(r) == ((r + CHUNK_OVERHEAD + 1) \div 2) * 2
\* Mutant of request2size: rounded up without the overhead.
MutRequestNoOverhead(r) == IF r < MIN_CHUNK_SIZE THEN MIN_CHUNK_SIZE ELSE ((r + 1) \div 2) * 2

request2size(r) == IF r < MIN_CHUNK_SIZE - CHUNK_OVERHEAD THEN MIN_CHUNK_SIZE ELSE pad_request(r)
is_small(s) == s < MIN_LARGE_SIZE

-----------------------------------------------------------------------------
(* Boundary tags                                                           *)

Garbage == [size |-> 0, c |-> FALSE, p |-> FALSE, foot |-> 0]
FENCEPOST == [size |-> 1, c |-> TRUE, p |-> TRUE, foot |-> 0]
Tag(m, a) == IF a \in DOMAIN m.tag THEN m.tag[a] ELSE Garbage

Put(m, a, h) == [m EXCEPT !.tag = (a :> h) @@ @]
SetHead(m, a, s, c, p) == Put(m, a, [size |-> s, c |-> c, p |-> p, foot |-> Tag(m, a).foot])
SetFoot(m, p, s) == Put(m, p + s, [Tag(m, p + s) EXCEPT !.foot = s])
SetPinuse(m, a, b) == Put(m, a, [Tag(m, a) EXCEPT !.p = b])

chunksize(m, p) == Tag(m, p).size
next_chunk(m, p) == p + chunksize(m, p)
cinuse(m, p) == Tag(m, p).c
pinuse(m, p) == Tag(m, p).p
is_inuse(m, p) == cinuse(m, p) \/ ~pinuse(m, p)
is_mmapped(m, p) == ~cinuse(m, p) /\ ~pinuse(m, p)
IsFence(m, p) == Tag(m, p).size = 1

set_inuse(m, p, s) == SetPinuse(SetHead(m, p, s, TRUE, pinuse(m, p)), p + s, TRUE)
set_inuse_and_pinuse(m, p, s) == SetPinuse(SetHead(m, p, s, TRUE, TRUE), p + s, TRUE)
set_size_and_pinuse_of_inuse_chunk(m, p, s) == SetHead(m, p, s, TRUE, TRUE)
set_size_and_pinuse_of_free_chunk(m, p, s) == SetFoot(SetHead(m, p, s, FALSE, TRUE), p, s)
set_free_with_pinuse(m, p, s, n) ==
  set_size_and_pinuse_of_free_chunk(SetPinuse(m, n, FALSE), p, s)

-----------------------------------------------------------------------------
(* Small bins: one list per size, last in first out.                       *)

SmallSizes == {s \in MIN_CHUNK_SIZE .. MIN_LARGE_SIZE - 1 : s % 2 = 0}
insert_small_chunk(m, p, s) == [m EXCEPT !.small[s] = <<p>> \o @]
unlink_small_chunk(m, p, s) == [m EXCEPT !.small[s] = Remove(@, p)]
smallmap(m) == {s \in SmallSizes : m.small[s] # <<>>}

\* Only the designated victim of a small size is replaced.
replace_dv(m, p, s) ==
  [(IF m.dvsize = 0 THEN m ELSE insert_small_chunk(m, m.dv, m.dvsize))
     EXCEPT !.dv = p, !.dvsize = s]

-----------------------------------------------------------------------------
(* Tree bins: tries on the bits of the size.  A node is a ring of chunks   *)
(* of one size, from the one with the parent pointer along fd.             *)

Log2(x) == CHOOSE k \in 0 .. x : 2 ^ k <= x /\ x < 2 ^ (k + 1)
Bit(s, k) == (s \div 2 ^ k) % 2

\* compute_tree_index: two bins for each power of two.
TreeIndex(s) ==
  LET k == Log2(s \div MIN_LARGE_SIZE) IN 2 * k + Bit(s, k + TreeBinShift - 1)
TreeBins == 0 .. 11    \* NTREEBINS is 32: no size of an instance needs more
minsize_for_tree_index(i) ==
  2 ^ (i \div 2 + TreeBinShift) + (i % 2) * 2 ^ (i \div 2 + TreeBinShift - 1)
TopBit(i) == i \div 2 + TreeBinShift - 2

NoNode == <<>>
Node(ring, left, right) == [ring |-> ring, child |-> <<left, right>>]
treemap(m) == {i \in TreeBins : m.tree[i] # NoNode}
SizeOf(m, t) == chunksize(m, t.ring[1])

RECURSIVE Insert(_, _, _, _, _)
Insert(m, t, x, s, bit) ==
  IF t = NoNode THEN Node(<<x>>, NoNode, NoNode)
  ELSE IF SizeOf(m, t) # s
    THEN [t EXCEPT !.child[1 + Bit(s, bit)] = Insert(m, @, x, s, bit - 1)]
  ELSE [t EXCEPT !.ring = <<@[1], x>> \o Tail(@)]

insert_large_chunk(m, x, s) ==
  LET i == TreeIndex(s) IN [m EXCEPT !.tree[i] = Insert(m, @, x, s, TopBit(i))]

\* The leaf that replaces a node without a ring: the rightmost one.
RECURSIVE RightLeaf(_)
RightLeaf(t) ==
  IF t.child[2] # NoNode THEN RightLeaf(t.child[2])
  ELSE IF t.child[1] # NoNode THEN RightLeaf(t.child[1])
  ELSE t

RECURSIVE CutLeaf(_)
CutLeaf(t) ==
  IF t.child[2] # NoNode THEN [t EXCEPT !.child[2] = CutLeaf(@)]
  ELSE IF t.child[1] # NoNode THEN [t EXCEPT !.child[1] = CutLeaf(@)]
  ELSE NoNode

\* Mutant of Unlink: an inner node is replaced by its right child, which then
\* sits one bit too high.
RECURSIVE MutUnlinkChild(_, _)
MutUnlinkChild(t, x) ==
  IF t = NoNode THEN t
  ELSE IF \A i \in DOMAIN t.ring : t.ring[i] # x
    THEN [t EXCEPT !.child = <<MutUnlinkChild(@[1], x), MutUnlinkChild(@[2], x)>>]
  ELSE IF Len(t.ring) > 1
    THEN [t EXCEPT !.ring = Remove(@, x)]
  ELSE IF t.child[2] = NoNode THEN t.child[1] ELSE t.child[2]

\* The bk of a ring's first chunk, its last one, takes the first one's place.
RECURSIVE Unlink(_, _)
Unlink(t, x) ==
  IF t = NoNode THEN t
  ELSE IF \A i \in DOMAIN t.ring : t.ring[i] # x
    THEN [t EXCEPT !.child = <<Unlink(@[1], x), Unlink(@[2], x)>>]
  ELSE IF Len(t.ring) > 1
    THEN [t EXCEPT !.ring = IF @[1] = x THEN <<Last(@)>> \o Tail(Front(@)) ELSE Remove(@, x)]
  ELSE LET cut == CutLeaf(t)
       IN  IF cut = NoNode THEN NoNode ELSE [cut EXCEPT !.ring = RightLeaf(t).ring]

unlink_large_chunk(m, x) ==
  LET i == TreeIndex(chunksize(m, x)) IN [m EXCEPT !.tree[i] = Unlink(@, x)]

insert_chunk(m, p, s) ==
  IF is_small(s) THEN insert_small_chunk(m, p, s) ELSE insert_large_chunk(m, p, s)
unlink_chunk(m, p, s) ==
  IF is_small(s) THEN unlink_small_chunk(m, p, s) ELSE unlink_large_chunk(m, p)

-----------------------------------------------------------------------------
(* The searches of tmalloc_large and tmalloc_small                         *)

\* The better of v and t for a request of nb; NoNode is none yet.
Better(m, t, v, nb) ==
  IF SizeOf(m, t) >= nb /\ (v = NoNode \/ SizeOf(m, t) < SizeOf(m, v)) THEN t ELSE v

\* Along leftmost_child.
RECURSIVE Leftmost(_, _, _, _)
Leftmost(m, t, v, nb) ==
  IF t = NoNode THEN v
  ELSE Leftmost(m, IF t.child[1] # NoNode THEN t.child[1] ELSE t.child[2],
                Better(m, t, v, nb), nb)

\* Down the bits of nb; rst is the deepest right subtree not taken.
RECURSIVE Descend(_, _, _, _, _, _)
Descend(m, t, v, rst, nb, bit) ==
  LET w == Better(m, t, v, nb)
      next == t.child[1 + Bit(nb, bit)]
      r == IF t.child[2] # NoNode /\ Bit(nb, bit) = 0 THEN t.child[2] ELSE rst
  IN  IF w # NoNode /\ SizeOf(m, w) = nb THEN w
      ELSE IF next = NoNode THEN Leftmost(m, r, w, nb)
      ELSE Descend(m, next, w, r, nb, bit - 1)

\* Mutant of BestLarge: the untaken right subtree is not searched.
MutBestLargeNoRight(m, nb) ==
  LET i == TreeIndex(nb)
      RECURSIVE Down(_, _, _)
      Down(t, v, bit) ==
        IF t = NoNode THEN v
        ELSE Down(t.child[1 + Bit(nb, bit)], Better(m, t, v, nb), bit - 1)
      v == Down(m.tree[i], NoNode, TopBit(i))
      above == {j \in treemap(m) : j > i}
  IN  IF v # NoNode \/ above = {} THEN v ELSE Leftmost(m, m.tree[Min(above)], NoNode, nb)

BestLarge(m, nb) ==
  LET i == TreeIndex(nb)
      v == IF m.tree[i] = NoNode THEN NoNode
           ELSE Descend(m, m.tree[i], NoNode, NoNode, nb, TopBit(i))
      above == {j \in treemap(m) : j > i}
  IN  IF v # NoNode \/ above = {} THEN v ELSE Leftmost(m, m.tree[Min(above)], NoNode, nb)

\* A small request: the smallest chunk of the lowest bin.
BestSmall(m, nb) == Leftmost(m, m.tree[Min(treemap(m))], NoNode, nb)

\* The chunks of a tree.
RECURSIVE ChunksOf(_)
ChunksOf(t) ==
  IF t = NoNode THEN {}
  ELSE ToSet(t.ring) \cup ChunksOf(t.child[1]) \cup ChunksOf(t.child[2])
=============================================================================
