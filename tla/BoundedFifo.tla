----------------------------- MODULE BoundedFifo -----------------------------
(***************************************************************************)
(* What a utils_queue_s promises its users: a first-in first-out buffer of *)
(* Capacity entries in which every entry that was put in is taken out at   *)
(* most once, in order.  A push may be refused and a pop may come back     *)
(* with nothing; neither changes the buffer.                               *)
(***************************************************************************)
EXTENDS Naturals, Sequences

CONSTANTS Data, Capacity

VARIABLES
  pushed,    \* everything that was put in, in order
  popped     \* everything that was taken out, in order

Init == pushed = <<>> /\ popped = <<>>

Put(d) ==
  /\ Len(pushed) - Len(popped) < Capacity
  /\ pushed' = Append(pushed, d)
  /\ UNCHANGED popped

Take ==
  /\ Len(popped) < Len(pushed)
  /\ popped' = Append(popped, pushed[Len(popped) + 1])
  /\ UNCHANGED pushed

Next == (\E d \in Data : Put(d)) \/ Take

Spec == Init /\ [][Next]_<<pushed, popped>>

=============================================================================
