------------------------------ MODULE PagePool ------------------------------
(***************************************************************************)
(* What a user of utils/bitmap.c relies on: runs of bits that lie inside   *)
(* the map and that nobody else holds.                                     *)
(***************************************************************************)
EXTENDS Integers

CONSTANTS
  Size,      \* bits of the map
  Counts     \* lengths that are asked for

VARIABLE held    \* the runs that are held

RunOf(e) == e.start .. e.start + e.n - 1

Init == held = {}
Take(n) ==
  \E s \in 0 .. Size - n :
    /\ \A e \in held : RunOf(e) \cap (s .. s + n - 1) = {}
    /\ held' = held \cup {[start |-> s, n |-> n]}
Give(e) == held' = held \ {e}

Next == (\E n \in Counts : Take(n)) \/ (\E e \in held : Give(e))
Spec == Init /\ [][Next]_held
=============================================================================
