----------------------------- MODULE MCAllocator ----------------------------
(***************************************************************************)
(* Heap with pages of 16 words, a granularity of two pages, four pages to  *)
(* a word of the bitmap, chunks large from 8 words on; or the bitmap       *)
(* alone, with words of three bits; or the parameters of one process.      *)
(* Which of the three runs is chosen at the start, the others stay as they *)
(* are.                                                                    *)
(***************************************************************************)
EXTENDS Heap, Mparams

VARIABLES which, bmp, extents

\* The first allocations lay out an empty heap, three sizes of one trie, a ring
\* of one size, and segments with directly mapped chunks between them.
MCLayouts ==
  {<<>>, <<14, 3, 18, 3, 16, 3>>, <<8, 3, 8, 3, 8, 3>>, <<40, 20, 40, 24>>, <<24, 40, 24, 3>>}

\* Lengths inside a word, of a word, and over two and three words.
Bits == INSTANCE PageMap WITH Word <- 3, Size <- 12, Counts <- {1, 3, 5, 7}

mapvars == <<bmp, extents>>

MCInit ==
  /\ which \in {"heap", "map", "mparams"}
  /\ Init /\ Bits!Init /\ MpInit
  /\ which # "heap" => live = <<>>

MCNext ==
  \/ which = "heap" /\ Next /\ UNCHANGED <<which, mapvars, pvars>>
  \/ which = "map" /\ Bits!Next /\ UNCHANGED <<which, vars, pvars>>
  \/ which = "mparams" /\ MpNext /\ UNCHANGED <<which, vars, mapvars>>

MCSpec == MCInit /\ [][MCNext]_<<which, vars, mapvars, pvars>>

\* The heap passes its own check, its pages have one owner each, and the records
\* of its segments are where they are looked for.
HeapSound == TypeOK /\ HeapChecked /\ PagesOwned /\ RecordsPlaced

\* Searches miss nothing: the tries give the best fit, and the bitmap, whose
\* count is exact, every gap inside a word.
SearchesExact == BestFit /\ Bits!TypeOK /\ Bits!CountExact /\ Bits!NoGapMissed

\* The bitmap implements a pool of disjoint runs of pages.
ImplementsPool == Bits!ImplementsPool
=============================================================================
