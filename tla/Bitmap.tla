------------------------------- MODULE Bitmap -------------------------------
(***************************************************************************)
(* utils/bitmap.c: the bitmap from which the allocator of the shared       *)
(* segment takes pages.  Bits are kept in words ("chunks" in the code); an *)
(* allocation lies in one word, or at the end of one and the start of the  *)
(* next ones.  The search starts at the word of the last allocation.       *)
(*                                                                         *)
(* A bitmap is a record; set bits are a set of indices.  Every call runs   *)
(* under the bitmap's lock, so it is one step.                             *)
(***************************************************************************)
EXTENDS Integers, FiniteSets, FiniteSetsExt, SequencesExt

CONSTANTS
  Word         \* bits of a word: 64 in the code

ASSUME BitmapAssumption == Word \in Nat \ {0}

NOT_FOUND == -1
Run(start, n) == start .. (start + n - 1)

utils_bitmap_init(n) == [size |-> n, free_p |-> 0, used |-> 0, bits |-> {}]
Words(b) == (b.size + Word - 1) \div Word
Unused(b) == b.size - b.used

\* The bits that are set in word c, and how many are free at its end.
In(b, c) == {i \in 0 .. Word - 1 : c * Word + i \in b.bits}
FreeEnd(b, c) == IF In(b, c) = {} THEN Word ELSE Word - 1 - Max(In(b, c))
IsLast(b, c) == c + 1 = Words(b)

\* Whether the first n bits of word c are free.
find_end_small(b, n, c) == Run(0, n) \cap In(b, c) = {}

\* Mutant of find_start_small: a run may cross the end of the last word.
MutFindPastEnd(b, n, c) ==
  LET gaps == {s \in 0 .. Word - n : Run(s, n) \cap In(b, c) = {}}
  IN  IF gaps # {} THEN c * Word + Min(gaps)
      ELSE IF FreeEnd(b, c) # 0 /\ find_end_small(b, n - FreeEnd(b, c), c + 1)
        THEN c * Word + Word - FreeEnd(b, c)
      ELSE NOT_FOUND

\* At most a word: in a gap of word c if it has as many free bits, else across
\* its end.
find_start_small(b, n, c) ==
  LET tail == IF IsLast(b, c) /\ b.size % Word # 0 THEN b.size % Word .. Word - 1 ELSE {}
      usable == In(b, c) \cup tail
      gaps == {s \in 0 .. Word - n : Run(s, n) \cap usable = {}}
      end == FreeEnd(b, c)
  IN  IF Word - Cardinality(usable) >= n
        THEN IF gaps = {} THEN NOT_FOUND ELSE c * Word + Min(gaps)
      ELSE IF end # 0 /\ ~IsLast(b, c) /\ find_end_small(b, n - end, c + 1)
        THEN c * Word + Word - end
      ELSE NOT_FOUND

\* More than a word: the free end of word c, whole words, and a rest.
find_start_big(b, n, c) ==
  LET end == FreeEnd(b, c)
      rest == n - end
      span == rest \div Word
      last == rest % Word
      fits == IF rest <= Word THEN find_end_small(b, rest, c + 1)
              ELSE /\ c + span + (IF last = 0 THEN 0 ELSE 1) < Words(b)
                   /\ \A w \in c + 1 .. c + span : In(b, w) = {}
                   /\ find_end_small(b, last, c + span + 1)
  IN  IF end # 0 /\ ~IsLast(b, c) /\ fits THEN c * Word + Word - end ELSE NOT_FOUND

find_start(b, n, c) ==
  IF n <= Word THEN find_start_small(b, n, c) ELSE find_start_big(b, n, c)

\* What the search finds in the words from w to the end, then before w.
Hits(b, n, w) ==
  SelectSeq([i \in 1 .. Words(b) |-> find_start(b, n, (w + i - 1) % Words(b))],
            LAMBDA start : start # NOT_FOUND)

TakeBits(b, n, hits) ==
  IF Unused(b) < n \/ hits = <<>> THEN [found |-> NOT_FOUND, bmp |-> b]
  ELSE [found |-> hits[1],
        bmp |-> [b EXCEPT !.free_p = hits[1] \div Word, !.used = @ + n,
                          !.bits = @ \cup Run(hits[1], n)]]

utils_bitmap_alloc_bits(b, n) ==
  LET w == IF b.free_p = Words(b) THEN 0 ELSE b.free_p
  IN  TakeBits([b EXCEPT !.free_p = w], n, Hits(b, n, w))

\* Only what was allocated is freed: the code asserts that the bits are set.
utils_bitmap_free_bits(b, start, n) ==
  [b EXCEPT !.bits = @ \ Run(start, n), !.used = @ - n]

\* utils_bitmap_count_allocated
CountAllocated(b) == Cardinality({i \in b.bits : i < Words(b) * Word})
=============================================================================
