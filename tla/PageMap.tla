------------------------------ MODULE PageMap -------------------------------
(***************************************************************************)
(* Users of one bitmap, as arax_mmap and arax_ummap in alloc.c are: each   *)
(* call holds the bitmap's lock, and only what was allocated is freed.     *)
(***************************************************************************)
EXTENDS Bitmap

CONSTANTS
  Size,        \* size_bits
  Counts       \* lengths that are asked for

VARIABLES
  bmp,         \* the bitmap
  extents      \* the runs its users hold

vars == <<bmp, extents>>

Init == bmp = utils_bitmap_init(Size) /\ extents = {}

Got(r, n) ==
  /\ bmp' = r.bmp
  /\ extents' = IF r.found = NOT_FOUND THEN extents
                ELSE extents \cup {[start |-> r.found, n |-> n]}
AllocBits(n) == Got(utils_bitmap_alloc_bits(bmp, n), n)
FreeBits(e) ==
  /\ bmp' = utils_bitmap_free_bits(bmp, e.start, e.n)
  /\ extents' = extents \ {e}

Next == (\E n \in Counts : AllocBits(n)) \/ (\E e \in extents : FreeBits(e))
Spec == Init /\ [][Next]_vars

-----------------------------------------------------------------------------
(* Properties                                                              *)

TypeOK ==
  /\ bmp.size = Size /\ bmp.free_p \in 0 .. Words(bmp) /\ bmp.used \in 0 .. Size
  /\ \A e \in extents : e.start \in Nat /\ e.n \in Counts

\* The count under which alloc_bits gives up is the number of bits that are
\* set ("Should always return the same value", utils_bitmap_count_allocated).
CountExact == bmp.used = CountAllocated(bmp)

\* A search that fails has missed no gap inside a word, wherever the last
\* allocation was.
NoGapMissed ==
  \A n \in {k \in Counts : k <= Word} :
    utils_bitmap_alloc_bits(bmp, n).found = NOT_FOUND =>
      \A s \in 0 .. Size - n :
        s \div Word = (s + n - 1) \div Word => Run(s, n) \cap bmp.bits # {}

\* The bitmap implements a pool of runs: what is handed out lies in the map and
\* is held by no one else.
Pool == INSTANCE PagePool WITH held <- extents, Size <- Size, Counts <- Counts
ImplementsPool == Pool!Spec
=============================================================================
