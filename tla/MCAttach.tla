------------------------------ MODULE MCAttach ------------------------------
(* The controller, an application with two threads and one with a single   *)
(* thread attach and leave; or processes read their settings, the first    *)
(* thing they do.  Which of the two runs is chosen at the start, the other *)
(* stays as it is.                                                         *)
EXTENDS Attach, SequencesExt, TLC

CONSTANTS ctl, t1, t2, t3, p0, p1, p2, None

VARIABLES which, file, spc, ask, got, agreed, scalls

MCProc == (ctl :> p0) @@ (t1 :> p1) @@ (t2 :> p1) @@ (t3 :> p2)
AloneProc == (ctl :> p0) @@ (t1 :> p1) @@ (t3 :> p2)

\* All processes are of one revision, or the one that leaves is of another.
OneBuild == {[p \in Processes |-> "r1"]}
MCBuilds == OneBuild \cup {[p \in Processes |-> IF p = p2 THEN "r2" ELSE "r1"]}

\* No file, an empty one, a string, numbers in and out of range, a key twice.
MCFiles == {None, <<>>, <<"k", "x">>, <<"n", "1">>, <<"n", "9", "k", "0">>, <<"k", "-4", "k", "y">>}
MCNumber == [w \in {"0", "1", "9", "-4"} |->
               CASE w = "0" -> 0 [] w = "1" -> 1 [] w = "9" -> 9 [] w = "-4" -> -4]

\* A home of two characters fits the buffer, and nothing with it but its end.
Config == INSTANCE Settings WITH
  Apps <- {p1, p2}, Files <- MCFiles, Keys <- {"k", "n"}, Default <- [k |-> "d", n |-> "1"],
  Number <- MCNumber, Def <- {5}, IntMax <- 7, Paths <- SeqOf({"c", "~"}, 2),
  Home <- <<"h", "h">>, PathSize <- 3, SetMaxCalls <- 3

ASSUME Config!SetAssumption

svars == <<file, spc, ask, got, agreed, scalls>>

MCInit ==
  \/ which = "attach" /\ Init /\ Config!SetInit /\ file = None
  \/ which = "settings" /\ Init /\ Config!SetInit

MCNext ==
  \/ which = "attach" /\ Next /\ UNCHANGED <<which, svars>>
  \/ which = "settings" /\ Config!SetNext /\ UNCHANGED <<which, vars>>

MCSpec == MCInit /\ [][MCNext]_<<which, vars, svars>>

AttachFair == which = "attach" /\ Init /\ Config!SetInit /\ file = None
              /\ [][MCNext]_<<which, vars, svars>> /\ \A t \in Threads : WF_vars(InitStep(t))

(* What processes get from their settings: strings that all agree on, a    *)
(* value of its type or the default, a path that is whole or none.         *)
SettingsSound == Config!ProcessesAgree /\ Config!ValueOfType /\ Config!PathWhole
=============================================================================
