------------------------------ MODULE Settings ------------------------------
(***************************************************************************)
(* src/utils/config.c: the settings file that every process reads when it  *)
(* attaches.  The file is the words in it: fscanf takes them two by two,   *)
(* line ends or not.  A process that asks for a string and does not find   *)
(* it appends its default, so that another may do the same in between.     *)
(*                                                                         *)
(* Files have an even number of words: of a file that ends with a lone key *)
(* fscanf leaves an old value, or none, in its buffer.  Numbers are scaled *)
(* down: a long is any number here, an int is at most IntMax.              *)
(***************************************************************************)
EXTENDS Integers, Sequences, SequencesExt

CONSTANTS
  Apps,        \* processes
  Files,       \* what the file may be at the start, None if there is none
  Keys,
  Default,     \* Default[k]: the string a process asks for k with
  Number,      \* Number[w]: what strtol makes of the word w, if anything
  Def,         \* the default numbers
  IntMax,
  Paths,       \* paths a process may have expanded: sequences of characters
  Home,        \* what "~" is
  PathSize,    \* sizeof(temp)
  None,
  SetMaxCalls  \* bound: calls the processes make

VARIABLES
  file,
  spc, ask,    \* per process: where it is, and what it asks for
  got,         \* the call that returned last: what it asked for and its result, or None
  agreed,      \* history: the strings that were returned for each key
  scalls

svars == <<file, spc, ask, got, agreed, scalls>>

-----------------------------------------------------------------------------
(* Reading *)

\* The value after the first such key.
_utils_config_get_str(key) ==
  LET found == IF file = None THEN {} ELSE {i \in DOMAIN file : i % 2 = 1 /\ file[i] = key}
  IN  IF found = {} THEN None
      ELSE file[1 + CHOOSE i \in found : \A j \in found : i <= j]

\* What a getter stores in *value, and whether it returns 1.
Result(ok, v, def) == IF ok THEN [ret |-> 1, value |-> v] ELSE [ret |-> 0, value |-> def]

\* A word that is no number is to be replaced in the file, which is opened for reading.
utils_config_get_long(key, def) ==
  LET w == _utils_config_get_str(key)
  IN  IF w \in DOMAIN Number THEN Result(TRUE, Number[w], def) ELSE Result(FALSE, def, def)

utils_config_get_int(key, def) ==
  LET l == utils_config_get_long(key, def)
  IN  Result(l.ret = 1 /\ l.value \in -IntMax - 1 .. IntMax, l.value, def)

utils_config_get_bool(key, def) ==
  LET i == utils_config_get_int(key, def)
  IN  Result(i.ret = 1 /\ i.value \in {0, 1}, i.value, def)

utils_config_get_size(key, def) ==
  LET l == utils_config_get_long(key, def)
  IN  Result(l.ret = 1 /\ l.value >= 0, l.value, def)

-----------------------------------------------------------------------------
(* Paths *)

\* A home that does not fit fails an assertion; a full buffer returns NULL.  One
\* that fills the buffer to its end fits, and strncat puts the character that
\* ends it behind the buffer: what that overwrites is left out.
PathStep(acc, ch) ==
  IF acc.size = 0 \/ (ch = "~" /\ Len(Home) > acc.size) THEN [acc EXCEPT !.ok = FALSE]
  ELSE IF ch = "~" THEN [acc EXCEPT !.text = @ \o Home, !.size = @ - Len(Home)]
  ELSE [acc EXCEPT !.text = Append(@, ch), !.size = @ - 1]

\* The terminating character is copied too.
utils_config_alloc_path(path) ==
  LET end == FoldLeft(PathStep, [ok |-> TRUE, text |-> <<>>, size |-> PathSize], Append(path, "0"))
  IN  Result(end.ok, end.text, None)

-----------------------------------------------------------------------------
SetInit ==
  /\ file \in Files
  /\ spc = [a \in Apps |-> "idle"]
  /\ ask = [a \in Apps |-> None]
  /\ got = None
  /\ agreed = [k \in Keys |-> {}]
  /\ scalls = 0

\* A string may be asked for without a default.
SetCall(a) ==
  /\ spc[a] = "idle"
  /\ scalls < SetMaxCalls
  /\ scalls' = scalls + 1
  /\ \/ \E k \in Keys, d \in BOOLEAN :
          ask' = [ask EXCEPT ![a] = [op |-> "str", key |-> k, def |-> IF d THEN Default[k] ELSE None]]
     \/ \E k \in Keys, op \in {"long", "int", "bool", "size"}, d \in Def :
          ask' = [ask EXCEPT ![a] = [op |-> op, key |-> k, def |-> d]]
     \/ \E p \in Paths : ask' = [ask EXCEPT ![a] = [op |-> "path", key |-> p, def |-> None]]
  /\ spc' = [spc EXCEPT ![a] = "scan"]
  /\ UNCHANGED <<file, got, agreed>>

Return(a, r) ==
  /\ got' = [ask |-> ask[a], ret |-> r.ret, value |-> r.value]
  /\ ask' = [ask EXCEPT ![a] = None]
  /\ spc' = [spc EXCEPT ![a] = "idle"]

utils_config_get_str(a) ==
  LET r == ask[a]
      w == _utils_config_get_str(r.key)
  IN  /\ spc[a] = "scan"
      /\ r.op = "str"
      /\ IF w = None /\ r.def # None
           THEN spc' = [spc EXCEPT ![a] = "append"] /\ UNCHANGED <<ask, got, agreed>>
           ELSE /\ Return(a, Result(w # None, w, None))
                /\ agreed' = [agreed EXCEPT ![r.key] = @ \cup ({w} \ {None})]
      /\ UNCHANGED <<file, scalls>>

\* Mutant of utils_config_write_str: the file is opened with "w".
MutWriteTruncates(a) ==
  LET r == ask[a]
  IN  /\ spc[a] = "append"
      /\ file' = <<r.key, r.def>>
      /\ Return(a, Result(FALSE, None, r.def))
      /\ agreed' = [agreed EXCEPT ![r.key] = @ \cup {r.def}]
      /\ UNCHANGED scalls

utils_config_write_str(a) ==
  LET r == ask[a]
  IN  /\ spc[a] = "append"
      /\ file' = (IF file = None THEN <<>> ELSE file) \o <<r.key, r.def>>
      /\ Return(a, Result(FALSE, None, r.def))
      /\ agreed' = [agreed EXCEPT ![r.key] = @ \cup {r.def}]
      /\ UNCHANGED scalls

GetOther(a) ==
  LET r == ask[a]
  IN  /\ spc[a] = "scan"
      /\ \/ r.op = "long" /\ Return(a, utils_config_get_long(r.key, r.def))
         \/ r.op = "int" /\ Return(a, utils_config_get_int(r.key, r.def))
         \/ r.op = "bool" /\ Return(a, utils_config_get_bool(r.key, r.def))
         \/ r.op = "size" /\ Return(a, utils_config_get_size(r.key, r.def))
         \/ r.op = "path" /\ Return(a, utils_config_alloc_path(r.key))
      /\ UNCHANGED <<file, agreed, scalls>>

SetNext ==
  \E a \in Apps : SetCall(a) \/ utils_config_get_str(a) \/ utils_config_write_str(a) \/ GetOther(a)

SetSpec == SetInit /\ [][SetNext]_svars

-----------------------------------------------------------------------------
(* Processes that ask for a string agree on it (the name of the shm file,  *)
(* without which they never meet), although several may append a default,  *)
(* before and after others have read the file.                             *)
ProcessesAgree ==
  \A k \in Keys : \A v, w \in agreed[k] : v = w

(* A getter that fails leaves the default behind, and one that succeeds a  *)
(* value of its type: arax attaches with whatever it finds there, and      *)
(* looks at no return value.                                               *)
ValueOfType ==
  got # None /\ got.ask.op # "path" =>
    /\ got.ret = 0 => got.value = got.ask.def
    /\ got.ret = 1 =>
         CASE got.ask.op = "bool" -> got.value \in {0, 1}
           [] got.ask.op = "int" -> got.value \in -IntMax - 1 .. IntMax
           [] got.ask.op = "size" -> got.value >= 0
           [] OTHER -> TRUE

(* A path is expanded whole, or not at all: what is returned fits the      *)
(* buffer it was put together in, with the character that ends it.         *)
PathWhole ==
  got # None /\ got.ask.op = "path" =>
    LET path == got.ask.key
        whole == FlattenSeq([i \in DOMAIN path |-> IF path[i] = "~" THEN Home ELSE <<path[i]>>])
    IN  /\ got.ret = 1 <=> Len(whole) < PathSize
        /\ got.ret = 1 => got.value = Append(whole, "0")

-----------------------------------------------------------------------------
(* For the proofs. *)

AllWords ==
  Keys \cup {Default[k] : k \in Keys} \cup UNION {{f[i] : i \in DOMAIN f} : f \in Files \ {None}}

\* Pairs of words.
Pairs(f) == f \in Seq(AllWords) /\ Len(f) % 2 = 0

SetAssumption ==
  /\ \A f \in Files \ {None} : Pairs(f)
  /\ None \notin AllWords /\ None \notin Seq(AllWords)
  /\ \A w \in DOMAIN Number : Number[w] \in Int

\* Whoever appends asked for a string with a default and found none: by now
\* there may be one, but no other than this.
Appends(a) ==
  /\ ask[a].op = "str" /\ ask[a].key \in Keys /\ ask[a].def = Default[ask[a].key]
  /\ _utils_config_get_str(ask[a].key) \in {None, ask[a].def}

\* What was returned for a key is what the file has now.
SetInv ==
  /\ file # None => Pairs(file)
  /\ spc = [a \in Apps |-> spc[a]] /\ ask = [a \in Apps |-> ask[a]]
  /\ \A a \in Apps : spc[a] = "scan" /\ ask[a].op = "str" =>
       ask[a].key \in Keys /\ ask[a].def \in {None, Default[ask[a].key]}
  /\ \A a \in Apps : spc[a] = "append" => Appends(a)
  /\ agreed = [k \in Keys |-> agreed[k]]
  /\ \A k \in Keys : \A v \in agreed[k] : v # None /\ v = _utils_config_get_str(k)
  /\ ValueOfType
=============================================================================
