---------------------------- MODULE AttachProofs ----------------------------
(***************************************************************************)
(* Attaching to the segment and leaving it, for any number of processes,   *)
(* threads, calls and segments: the count and the map of the processes are *)
(* exact, one process initialises a segment, and no thread of a process    *)
(* gets past the wait for the first before the pipe is mapped.  And the    *)
(* settings file that they read and write: processes agree on its values.  *)
(***************************************************************************)
EXTENDS Attach, Settings, FiniteSetTheorems, WellFoundedInduction, TLAPS

-----------------------------------------------------------------------------
(* The settings file                                                       *)

(* The first of the places of a key.                                       *)
LEMMA FirstPlace ==
  ASSUME NEW S \in SUBSET Nat, S # {}
  PROVE  LET m == CHOOSE i \in S : \A j \in S : i <= j
         IN  m \in S /\ \A j \in S : m <= j
<1>1. PICK x \in S : \A y \in S : ~(<<y, x>> \in OpToRel(<, Nat))
  BY NatLessThanWellFounded, WFMin
<1>2. \A y \in S : x <= y
  <2>1. ASSUME NEW y \in S, y < x PROVE FALSE
    BY <1>1, <2>1 DEF OpToRel
  <2> QED BY <2>1
<1> QED BY <1>2

\* The odd places that a key is at, and the word after the first, in a file f.
Places(f, key) == IF f = None THEN {} ELSE {i \in DOMAIN f : i % 2 = 1 /\ f[i] = key}
Lookup(f, key) ==
  IF Places(f, key) = {} THEN None
  ELSE f[1 + CHOOSE i \in Places(f, key) : \A j \in Places(f, key) : i <= j]

(* A word is found where the key is, and if it is anywhere.                *)
LEMMA FoundWord ==
  ASSUME NEW f, NEW key, SetAssumption, f # None => Pairs(f)
  PROVE  /\ Places(f, key) = {} <=> Lookup(f, key) = None
         /\ Places(f, key) # {} => \E m \in Places(f, key) :
                                     /\ Lookup(f, key) = f[m + 1]
                                     /\ \A j \in Places(f, key) : m <= j
<1> DEFINE m == CHOOSE i \in Places(f, key) : \A j \in Places(f, key) : i <= j
<1>1. CASE Places(f, key) = {}
  BY <1>1 DEF Lookup
<1>2. CASE Places(f, key) # {}
  <2>1. f # None /\ Pairs(f) /\ DOMAIN f = 1 .. Len(f)
    BY <1>2 DEF Pairs, Places
  <2>2. m \in Places(f, key) /\ \A j \in Places(f, key) : m <= j
    <3>1. Places(f, key) \in SUBSET Nat
      BY <2>1 DEF Places
    <3> QED BY <1>2, <3>1, FirstPlace
  <2>3. Lookup(f, key) = f[1 + m]
    BY <1>2 DEF Lookup
  <2> HIDE DEF m
  <2>4. m \in 1 .. Len(f) /\ m % 2 = 1
    BY <2>1, <2>2 DEF Places
  <2>5. m + 1 \in 1 .. Len(f) /\ 1 + m = m + 1
    BY <2>1, <2>4 DEF Pairs
  <2>6. f[m + 1] # None
    BY <2>1, <2>5 DEF Pairs, SetAssumption
  <2> QED BY <1>2, <2>2, <2>3, <2>5, <2>6
<1> QED BY <1>1, <1>2

(* What a pair adds to a file.                                             *)
LEMMA AppendedPair ==
  ASSUME NEW f, Pairs(f), NEW k \in AllWords, NEW d \in AllWords
  PROVE  LET g == f \o <<k, d>>
             n == Len(f)
         IN  /\ Pairs(g) /\ Len(g) = n + 2 /\ DOMAIN g = 1 .. n + 2
             /\ \A i \in 1 .. n : g[i] = f[i]
             /\ g[n + 1] = k /\ g[n + 2] = d
<1> DEFINE n == Len(f)
           g == f \o <<k, d>>
<1>1. n \in Nat /\ n % 2 = 0 /\ f \in Seq(AllWords)
  BY DEF Pairs
<1>2. <<k, d>> \in Seq(AllWords) /\ Len(<<k, d>>) = 2
  OBVIOUS
<1>3. g \in Seq(AllWords) /\ Len(g) = n + 2 /\ DOMAIN g = 1 .. n + 2
  BY <1>1, <1>2
<1>4. \A i \in 1 .. n + 2 : g[i] = IF i <= n THEN f[i] ELSE <<k, d>>[i - n]
  BY <1>1, <1>2
<1> HIDE DEF g
<1>5. g[n + 1] = k /\ g[n + 2] = d /\ \A i \in 1 .. n : g[i] = f[i]
  BY <1>1, <1>4
<1>6. (n + 2) % 2 = 0
  BY <1>1
<1>7. Pairs(g)
  BY <1>3, <1>6 DEF Pairs
<1> QED BY <1>3, <1>5, <1>7 DEF g

(* After a pair was appended a key has the word that it had, and the key   *)
(* of the pair, if it had none, the word of the pair.                      *)
LEMMA AppendedWord ==
  ASSUME SetAssumption, NEW f, Pairs(f), NEW k \in AllWords, NEW d \in AllWords, NEW key
  PROVE  Lookup(f \o <<k, d>>, key) =
           IF Lookup(f, key) = None /\ key = k THEN d ELSE Lookup(f, key)
<1> DEFINE n == Len(f)
           g == f \o <<k, d>>
<1>1. /\ Pairs(g) /\ Len(g) = n + 2 /\ DOMAIN g = 1 .. n + 2
      /\ \A i \in 1 .. n : g[i] = f[i]
      /\ g[n + 1] = k /\ g[n + 2] = d
  BY AppendedPair
<1>2. n \in Nat /\ n % 2 = 0 /\ DOMAIN f = 1 .. n
  BY DEF Pairs
<1>3. f # None /\ g # None /\ d # None
  BY <1>1 DEF SetAssumption, Pairs
<1> HIDE DEF g, n
<1>4. (n + 1) % 2 = 1 /\ (n + 2) % 2 = 0
  BY <1>2
<1>5. Places(g, key) = Places(f, key) \cup (IF key = k THEN {n + 1} ELSE {})
  <2>1. \A i \in 1 .. n + 2 : i \in 1 .. n \/ i = n + 1 \/ i = n + 2
    BY <1>2
  <2>2. 1 .. n \subseteq 1 .. n + 2 /\ n + 1 \in 1 .. n + 2 /\ n + 1 \notin 1 .. n
    BY <1>2
  <2> QED BY <1>1, <1>2, <1>4, <1>3, <2>1, <2>2 DEF Places
<1>6. ASSUME NEW i \in Places(f, key) PROVE i \in 1 .. n /\ i + 1 \in 1 .. n
  BY <1>2, <1>3 DEF Places
<1>7. /\ Places(g, key) = {} <=> Lookup(g, key) = None
      /\ Places(g, key) # {} => \E m \in Places(g, key) :
                                  /\ Lookup(g, key) = g[m + 1]
                                  /\ \A j \in Places(g, key) : m <= j
  BY <1>1, FoundWord
<1>8. CASE Places(f, key) = {}
  <2>1. Lookup(f, key) = None
    BY <1>8, FoundWord
  <2>2. CASE key = k
    <3>1. Places(g, key) = {n + 1}
      BY <1>5, <1>8, <2>2
    <3>2. Lookup(g, key) = g[(n + 1) + 1] /\ (n + 1) + 1 = n + 2
      BY <1>2, <1>7, <3>1
    <3> QED BY <1>1, <2>1, <2>2, <3>2 DEF g
  <2>3. CASE key # k
    BY <1>5, <1>7, <1>8, <2>1, <2>3 DEF g
  <2> QED BY <2>2, <2>3
<1>9. CASE Places(f, key) # {}
  <2>1. PICK m \in Places(f, key) : Lookup(f, key) = f[m + 1] /\ \A j \in Places(f, key) : m <= j
    BY <1>9, FoundWord
  <2>2. Lookup(f, key) # None
    BY <1>9, FoundWord
  <2>3. PICK q \in Places(g, key) : Lookup(g, key) = g[q + 1] /\ \A j \in Places(g, key) : q <= j
    BY <1>5, <1>7, <1>9
  <2>4. m \in Places(g, key) /\ m \in 1 .. n /\ m + 1 \in 1 .. n /\ q <= m
    BY <1>5, <1>6, <2>3
  <2>5. q \in Places(f, key) /\ q \in 1 .. n
    <3>1. q # n + 1
      <4>1. q = n + 1 => ~ (q <= m)
        BY <1>2, <2>4
      <4> QED BY <2>4, <4>1
    <3> QED BY <1>5, <1>6, <3>1
  <2>6. q = m
    BY <1>2, <2>1, <2>4, <2>5
  <2> QED BY <1>1, <2>1, <2>2, <2>3, <2>4, <2>6 DEF g
<1> QED BY <1>8, <1>9 DEF g

(* A getter that takes numbers from the file leaves the default where it   *)
(* fails, and a number of its type where it does not.                      *)
LEMMA NumberOfType ==
  ASSUME SetAssumption, NEW key, NEW def
  PROVE  /\ LET r == utils_config_get_long(key, def)
            IN  r.ret \in {0, 1} /\ (r.ret = 0 => r.value = def) /\ (r.ret = 1 => r.value \in Int)
         /\ LET r == utils_config_get_int(key, def)
            IN  /\ r.ret \in {0, 1} /\ (r.ret = 0 => r.value = def)
                /\ r.ret = 1 => r.value \in -IntMax - 1 .. IntMax
         /\ LET r == utils_config_get_bool(key, def)
            IN  r.ret \in {0, 1} /\ (r.ret = 0 => r.value = def) /\ (r.ret = 1 => r.value \in {0, 1})
         /\ LET r == utils_config_get_size(key, def)
            IN  r.ret \in {0, 1} /\ (r.ret = 0 => r.value = def) /\ (r.ret = 1 => r.value >= 0)
<1>1. LET r == utils_config_get_long(key, def)
      IN  r.ret \in {0, 1} /\ (r.ret = 0 => r.value = def) /\ (r.ret = 1 => r.value \in Int)
  BY DEF utils_config_get_long, Result, SetAssumption
<1>2. LET r == utils_config_get_int(key, def)
      IN  /\ r.ret \in {0, 1} /\ (r.ret = 0 => r.value = def)
          /\ r.ret = 1 => r.value \in -IntMax - 1 .. IntMax
  BY <1>1 DEF utils_config_get_int, Result
<1>3. LET r == utils_config_get_bool(key, def)
      IN  r.ret \in {0, 1} /\ (r.ret = 0 => r.value = def) /\ (r.ret = 1 => r.value \in {0, 1})
  BY <1>2 DEF utils_config_get_bool, Result
<1>4. LET r == utils_config_get_size(key, def)
      IN  r.ret \in {0, 1} /\ (r.ret = 0 => r.value = def) /\ (r.ret = 1 => r.value >= 0)
  BY <1>1 DEF utils_config_get_size, Result
<1> QED BY <1>1, <1>2, <1>3, <1>4

(* What a call returns is of its type.                                     *)
LEMMA ReturnsOfType ==
  ASSUME SetAssumption, SetInv, NEW a \in Apps,
         utils_config_get_str(a) \/ utils_config_write_str(a) \/ GetOther(a)
  PROVE  ValueOfType'
<1>1. CASE utils_config_get_str(a)
  <2>1. CASE UNCHANGED got
    BY <2>1 DEF SetInv, ValueOfType
  <2>2. CASE Return(a, Result(_utils_config_get_str(ask[a].key) # None,
                              _utils_config_get_str(ask[a].key), None))
             /\ (_utils_config_get_str(ask[a].key) = None => ask[a].def = None)
             /\ ask[a].op = "str"
    BY <2>2 DEF Return, Result, ValueOfType
  <2> QED BY <1>1, <2>1, <2>2 DEF utils_config_get_str
<1>2. CASE utils_config_write_str(a)
  <2>1. ask[a].op = "str"
    BY <1>2 DEF utils_config_write_str, SetInv, Appends
  <2> QED BY <1>2, <2>1 DEF utils_config_write_str, Return, Result, ValueOfType
<1>3. CASE GetOther(a)
  <2> DEFINE r == ask[a]
  <2>1. CASE r.op = "long" /\ Return(a, utils_config_get_long(r.key, r.def))
    BY <2>1, NumberOfType DEF Return, ValueOfType
  <2>2. CASE r.op = "int" /\ Return(a, utils_config_get_int(r.key, r.def))
    BY <2>2, NumberOfType DEF Return, ValueOfType
  <2>3. CASE r.op = "bool" /\ Return(a, utils_config_get_bool(r.key, r.def))
    BY <2>3, NumberOfType DEF Return, ValueOfType
  <2>4. CASE r.op = "size" /\ Return(a, utils_config_get_size(r.key, r.def))
    BY <2>4, NumberOfType DEF Return, ValueOfType
  <2>5. CASE r.op = "path" /\ Return(a, utils_config_alloc_path(r.key))
    BY <2>5 DEF Return, ValueOfType
  <2> QED BY <1>3, <2>1, <2>2, <2>3, <2>4, <2>5 DEF GetOther
<1> QED BY <1>1, <1>2, <1>3

(* What the getters read is a lookup in the file.                          *)
LEMMA IsLookup ==
  ASSUME NEW key
  PROVE  /\ _utils_config_get_str(key) = Lookup(file, key)
         /\ _utils_config_get_str(key)' = Lookup(file', key)
BY DEF _utils_config_get_str, Lookup, Places

LEMMA SetStart == SetAssumption /\ SetInit => SetInv
<1> SUFFICES ASSUME SetAssumption, SetInit PROVE SetInv
  OBVIOUS
<1>1. file # None => Pairs(file)
  BY DEF SetInit, SetAssumption
<1>2. ValueOfType
  BY DEF SetInit, ValueOfType
<1> QED BY <1>1, <1>2 DEF SetInit, SetInv

(* Steps that leave the file alone: nobody's word for a key changes.       *)
LEMMA SetFrame ==
  ASSUME SetInv, file' = file, NEW a \in Apps,
         spc' = [spc EXCEPT ![a] = spc'[a]], ask' = [ask EXCEPT ![a] = ask'[a]],
         spc'[a] = "scan" /\ ask'[a].op = "str" =>
           ask'[a].key \in Keys /\ ask'[a].def \in {None, Default[ask'[a].key]},
         spc'[a] = "append" => Appends(a)',
         agreed' = [k \in Keys |-> agreed'[k]],
         \A k \in Keys : \A v \in agreed'[k] : v # None /\ v = _utils_config_get_str(k),
         ValueOfType'
  PROVE  SetInv'
<1>1. \A k : _utils_config_get_str(k)' = _utils_config_get_str(k)
  BY DEF _utils_config_get_str
<1>2. ASSUME NEW b \in Apps, spc'[b] = "append" PROVE Appends(b)'
  <2>1. CASE b = a
    BY <1>2, <2>1
  <2>2. CASE b # a
    <3>1. Appends(b) /\ ask'[b] = ask[b]
      BY <1>2, <2>2 DEF SetInv
    <3> QED BY <1>1, <3>1 DEF Appends
  <2> QED BY <2>1, <2>2
<1>3. \A k \in Keys : \A v \in agreed'[k] : v # None /\ v = _utils_config_get_str(k)'
  BY <1>1
<1>4. file' # None => Pairs(file')
  BY DEF SetInv
<1>5. spc' = [b \in Apps |-> spc'[b]] /\ ask' = [b \in Apps |-> ask'[b]]
  BY DEF SetInv
<1>6. \A b \in Apps : spc'[b] = "scan" /\ ask'[b].op = "str" =>
        ask'[b].key \in Keys /\ ask'[b].def \in {None, Default[ask'[b].key]}
  BY DEF SetInv
<1> QED BY <1>2, <1>3, <1>4, <1>5, <1>6 DEF SetInv

(* A step that appends: whoever found no word, before or after another     *)
(* appended one, returns the default, which all ask with.                  *)
LEMMA WriteStep ==
  ASSUME SetAssumption, SetInv, NEW a \in Apps, utils_config_write_str(a)
  PROVE  SetInv'
<1> DEFINE f == IF file = None THEN <<>> ELSE file
<1> PICK k, d : k = ask[a].key /\ d = ask[a].def
  OBVIOUS
<1>1. Appends(a) /\ k \in Keys /\ d = Default[k] /\ k \in AllWords /\ d \in AllWords /\ d # None
  BY DEF utils_config_write_str, SetInv, Appends, AllWords, SetAssumption
<1>2. Pairs(f) /\ \A key : Lookup(f, key) = Lookup(file, key)
  <2>1. CASE file = None
    <3>1. f = <<>> /\ <<>> \in Seq(AllWords) /\ Len(<<>>) = 0 /\ DOMAIN <<>> = {}
      BY <2>1
    <3>2. \A key : Places(f, key) = {} /\ Places(file, key) = {}
      BY <2>1, <3>1 DEF Places
    <3>3. \A key : Lookup(f, key) = Lookup(file, key)
      BY <3>2 DEF Lookup
    <3>4. 0 % 2 = 0
      OBVIOUS
    <3>5. Pairs(f)
      BY <3>1, <3>4 DEF Pairs
    <3> QED BY <3>3, <3>5
  <2>2. CASE file # None
    BY <2>2 DEF SetInv
  <2> QED BY <2>1, <2>2
<1>3. file' = f \o <<k, d>>
  BY DEF utils_config_write_str
<1> HIDE DEF f
<1>4. Pairs(file')
  BY <1>1, <1>2, <1>3, AppendedPair
<1>5. ASSUME NEW key
      PROVE  _utils_config_get_str(key)' =
               IF _utils_config_get_str(key) = None /\ key = k THEN d
               ELSE _utils_config_get_str(key)
  BY <1>1, <1>2, <1>3, AppendedWord, IsLookup
<1>6. _utils_config_get_str(k)' = d
  BY <1>1, <1>5 DEF Appends
<1>7. ASSUME NEW b \in Apps, spc'[b] = "append" PROVE Appends(b)'
  <2>1. b # a /\ Appends(b) /\ ask'[b] = ask[b]
    BY <1>7 DEF utils_config_write_str, Return, SetInv
  <2> QED BY <1>1, <1>5, <1>6, <2>1 DEF Appends
<1>8. ASSUME NEW key \in Keys, NEW v \in agreed'[key]
      PROVE  v # None /\ v = _utils_config_get_str(key)'
  <2>1. CASE v \in agreed[key]
    BY <1>5, <2>1 DEF SetInv
  <2>2. CASE v \notin agreed[key]
    <3>1. key = k /\ v = d
      BY <1>8, <2>2 DEF utils_config_write_str, SetInv
    <3> QED BY <1>1, <1>6, <3>1
  <2> QED BY <2>1, <2>2
<1>9. /\ spc' = [b \in Apps |-> spc'[b]] /\ ask' = [b \in Apps |-> ask'[b]]
      /\ agreed' = [key \in Keys |-> agreed'[key]]
  BY DEF utils_config_write_str, Return, SetInv
<1>10. \A b \in Apps : spc'[b] = "scan" /\ ask'[b].op = "str" =>
         ask'[b].key \in Keys /\ ask'[b].def \in {None, Default[ask'[b].key]}
  BY DEF utils_config_write_str, Return, SetInv
<1>11. ValueOfType'
  BY ReturnsOfType
<1> QED BY <1>4, <1>7, <1>8, <1>9, <1>10, <1>11 DEF SetInv

LEMMA SetStep ==
  ASSUME SetAssumption, SetInv, [SetNext]_svars
  PROVE  SetInv'
<1>1. CASE UNCHANGED svars
  <2>1. \A k : _utils_config_get_str(k)' = _utils_config_get_str(k)
    BY <1>1 DEF svars, _utils_config_get_str
  <2> QED BY <1>1, <2>1 DEF svars, SetInv, ValueOfType, Appends
<1>2. ASSUME NEW a \in Apps, SetCall(a) PROVE SetInv'
  <2>1. file' = file /\ got' = got /\ agreed' = agreed /\ spc' = [spc EXCEPT ![a] = "scan"]
    BY <1>2 DEF SetCall
  <2>2. /\ ask' = [ask EXCEPT ![a] = ask'[a]]
        /\ ask'[a].op = "str" =>
             ask'[a].key \in Keys /\ ask'[a].def \in {None, Default[ask'[a].key]}
    <3>1. CASE \E k \in Keys, d \in BOOLEAN :
                 ask' = [ask EXCEPT ![a] = [op |-> "str", key |-> k,
                                            def |-> IF d THEN Default[k] ELSE None]]
      BY <3>1 DEF SetInv
    <3>2. CASE \E k \in Keys, op \in {"long", "int", "bool", "size"}, d \in Def :
                 ask' = [ask EXCEPT ![a] = [op |-> op, key |-> k, def |-> d]]
      BY <3>2 DEF SetInv
    <3>3. CASE \E p \in Paths : ask' = [ask EXCEPT ![a] = [op |-> "path", key |-> p, def |-> None]]
      BY <3>3 DEF SetInv
    <3> QED BY <1>2, <3>1, <3>2, <3>3 DEF SetCall
  <2>3. ValueOfType'
    BY <2>1 DEF SetInv, ValueOfType
  <2>4. spc' = [spc EXCEPT ![a] = spc'[a]] /\ spc'[a] = "scan"
    BY <2>1 DEF SetInv
  <2>5. /\ agreed' = [k \in Keys |-> agreed'[k]]
        /\ \A k \in Keys : \A v \in agreed'[k] : v # None /\ v = _utils_config_get_str(k)
    BY <2>1 DEF SetInv
  <2> QED BY <2>1, <2>2, <2>3, <2>4, <2>5, SetFrame
<1>3. ASSUME NEW a \in Apps, utils_config_get_str(a) PROVE SetInv'
  <2> DEFINE k == ask[a].key
             w == _utils_config_get_str(k)
  <2>1. /\ file' = file /\ spc[a] = "scan" /\ ask[a].op = "str"
        /\ k \in Keys /\ ask[a].def \in {None, Default[k]}
    BY <1>3 DEF utils_config_get_str, SetInv
  <2>2. ValueOfType'
    BY <1>3, ReturnsOfType
  <2>3. CASE w = None /\ ask[a].def # None
    <3>1. spc' = [spc EXCEPT ![a] = "append"] /\ ask' = ask /\ agreed' = agreed
      BY <1>3, <2>3 DEF utils_config_get_str
    <3>2. w' = w
      BY <2>1, <3>1 DEF _utils_config_get_str
    <3>3. Appends(a)'
      BY <2>1, <2>3, <3>1, <3>2 DEF Appends
    <3>4. /\ spc' = [spc EXCEPT ![a] = spc'[a]] /\ spc'[a] = "append"
          /\ ask' = [ask EXCEPT ![a] = ask'[a]]
      BY <3>1 DEF SetInv
    <3>5. /\ agreed' = [key \in Keys |-> agreed'[key]]
          /\ \A key \in Keys : \A v \in agreed'[key] : v # None /\ v = _utils_config_get_str(key)
      BY <3>1 DEF SetInv
    <3> QED BY <2>1, <2>2, <3>3, <3>4, <3>5, SetFrame
  <2>4. CASE ~(w = None /\ ask[a].def # None)
    <3>1. /\ spc' = [spc EXCEPT ![a] = "idle"] /\ ask' = [ask EXCEPT ![a] = None]
          /\ agreed' = [agreed EXCEPT ![k] = @ \cup ({w} \ {None})]
      BY <1>3, <2>4 DEF utils_config_get_str, Return
    <3>2. /\ spc' = [spc EXCEPT ![a] = spc'[a]] /\ spc'[a] = "idle"
          /\ ask' = [ask EXCEPT ![a] = ask'[a]]
      BY <3>1 DEF SetInv
    <3>3. /\ agreed' = [key \in Keys |-> agreed'[key]]
          /\ \A key \in Keys : \A v \in agreed'[key] : v # None /\ v = _utils_config_get_str(key)
      BY <2>1, <3>1 DEF SetInv
    <3> QED BY <2>1, <2>2, <3>2, <3>3, SetFrame
  <2> QED BY <2>3, <2>4
<1>4. ASSUME NEW a \in Apps, GetOther(a) PROVE SetInv'
  <2>1. PICK r : Return(a, r)
    BY <1>4 DEF GetOther
  <2>2. file' = file /\ agreed' = agreed
    BY <1>4 DEF GetOther
  <2>3. /\ spc' = [spc EXCEPT ![a] = spc'[a]] /\ spc'[a] = "idle"
        /\ ask' = [ask EXCEPT ![a] = ask'[a]]
    BY <2>1 DEF Return, SetInv
  <2>4. /\ agreed' = [key \in Keys |-> agreed'[key]]
        /\ \A key \in Keys : \A v \in agreed'[key] : v # None /\ v = _utils_config_get_str(key)
    BY <2>2 DEF SetInv
  <2>5. ValueOfType'
    BY <1>4, ReturnsOfType
  <2> QED BY <2>2, <2>3, <2>4, <2>5, SetFrame
<1> QED BY <1>1, <1>2, <1>3, <1>4, WriteStep DEF SetNext

(* Processes that ask for a string, whatever their number and whenever     *)
(* they append a default, get the same one, and what a getter leaves       *)
(* behind is of its type or the default.                                   *)
THEOREM SettingsAgree == SetAssumption => (SetSpec => [](ProcessesAgree /\ ValueOfType))
<1> SUFFICES ASSUME SetAssumption PROVE SetSpec => [](ProcessesAgree /\ ValueOfType)
  OBVIOUS
<1>1. SetInit => SetInv
  BY SetStart
<1>2. SetInv /\ [SetNext]_svars => SetInv'
  BY SetStep
<1>3. SetInv => ProcessesAgree /\ ValueOfType
  BY DEF SetInv, ProcessesAgree
<1> QED BY <1>1, <1>2, <1>3, PTL DEF SetSpec

-----------------------------------------------------------------------------
(* Attaching                                                               *)

USE AttachAssumption

\* Steps that change nothing that the invariant tells apart.
Quiet(t) ==
  WaitSha(t) \/ Refuse(t) \/ PublishSha(t) \/ SetupPipe(t) \/ Good(t) \/ CheckReady(t) \/ Wait(t)
  \/ SpuriousWake(t) \/ InitDone(t) \/ InitDoneNotify(t) \/ DestroyPipe(t) \/ ExitAborts(t)

\* Labels that it does not tell apart.
Alike(l, m) ==
  \/ l = m
  \/ {l, m} \subseteq {"publish", "setup", "sha", "refused", "attached"}
  \/ {l, m} \subseteq {"good", "check", "wait", "asleep", "in", "notify", "serve"}
  \/ {l, m} \subseteq {"destroy", "unmap", "unmaplast", "aborted"}

LEMMA NextCases ==
  ASSUME NEW t \in Threads, Enter(t) \/ InitStep(t) \/ SpuriousWake(t) \/ ExitStep(t)
  PROVE  \/ Quiet(t) \/ Enter(t) \/ Spin(t) \/ OpenShm(t) \/ HaveToMmap(t) \/ AddProcess(t)
         \/ Attached(t) \/ Exit(t) \/ DelProcess(t) \/ Unmap(t) \/ Clean(t)
BY DEF InitStep, ExitStep, Quiet

(* A quiet step leaves every thread where it is, for the invariant.        *)
LEMMA QuietSteps ==
  ASSUME TypeOK, PipeInv, NEW t \in Threads, Quiet(t)
  PROVE  /\ UNCHANGED <<segments, processes, proc_map, threads, initialized, vpipe, calls>>
         /\ pc' \in [Threads -> PC] /\ sha' \in [Segments -> Revisions \cup {NoRev}]
         /\ up' \in [Segments -> BOOLEAN] /\ cntrl_ready' \in [Segments -> BOOLEAN]
         /\ \A u \in Threads : Alike(pc[u], pc'[u])
<1> USE DEF TypeOK, Goto, PC, segments, pipe, state, Alike
<1>1. CASE WaitSha(t) \/ CheckReady(t) \/ Wait(t) \/ SpuriousWake(t) \/ Refuse(t) \/ ExitAborts(t)
  <2>1. CASE WaitSha(t)
    BY <2>1 DEF WaitSha
  <2>2. CASE CheckReady(t)
    BY <2>2 DEF CheckReady
  <2>3. CASE Wait(t)
    BY <2>3 DEF Wait
  <2>4. CASE SpuriousWake(t)
    BY <2>4 DEF SpuriousWake
  <2>5. CASE Refuse(t) \/ ExitAborts(t)
    BY <2>5 DEF Refuse, ExitAborts
  <2> QED BY <1>1, <2>1, <2>2, <2>3, <2>4, <2>5
<1>2. CASE PublishSha(t) \/ SetupPipe(t) \/ InitDone(t) \/ DestroyPipe(t)
  <2>1. CASE PublishSha(t)
    BY <2>1, BuildAssumption, ZenonT(60) DEF PublishSha
  <2>2. CASE SetupPipe(t)
    BY <2>2 DEF SetupPipe
  <2>3. CASE InitDone(t)
    BY <2>3 DEF InitDone
  <2>4. CASE DestroyPipe(t)
    BY <2>4 DEF DestroyPipe
  <2> QED BY <1>2, <2>1, <2>2, <2>3, <2>4
<1>3. CASE Good(t)
  BY <1>3 DEF Good, PipeInv, Unmapped
<1>4. CASE InitDoneNotify(t)
  BY <1>4 DEF InitDoneNotify
<1> QED BY <1>1, <1>2, <1>3, <1>4 DEF Quiet
(* A process has no thread inside if and only if threads is zero.          *)
LEMMA NobodyInside ==
  ASSUME IsFiniteSet(Threads), ThreadsInv, NEW p \in Processes
  PROVE  /\ IsFiniteSet(Inside(p)) /\ Cardinality(Inside(p)) \in Nat
         /\ threads[p] = 0 <=> Inside(p) = {}
<1>1. Inside(p) \subseteq Threads
  BY DEF Inside
<1> QED BY <1>1, FS_Subset, FS_EmptySet, FS_CardinalityType DEF ThreadsInv

(* threads counts the threads inside.                                      *)
LEMMA CountStep ==
  ASSUME IsFiniteSet(Threads), TypeOK, ThreadsInv, PipeInv, NEW t \in Threads,
         Enter(t) \/ InitStep(t) \/ SpuriousWake(t) \/ ExitStep(t)
  PROVE  \A p \in Processes : threads'[p] = Cardinality(Inside(p))'
<1> SUFFICES ASSUME NEW p \in Processes PROVE threads'[p] = Cardinality(Inside(p)')
  OBVIOUS
<1>0. /\ threads[p] = Cardinality(Inside(p)) /\ IsFiniteSet(Inside(p))
      /\ threads[p] \in Nat
  BY NobodyInside DEF ThreadsInv
<1>1. CASE Enter(t)
  <2>1. CASE p = Proc[t]
    <3>1. Inside(p)' = Inside(p) \cup {t} /\ t \notin Inside(p)
      BY <1>1, <2>1 DEF Inside, Enter, Goto, TypeOK, Going
    <3>2. threads'[p] = threads[p] + 1
      BY <1>1, <2>1 DEF Enter, TypeOK
    <3> QED BY <1>0, <3>1, <3>2, FS_AddElement
  <2>2. CASE p # Proc[t]
    <3>1. Inside(p)' = Inside(p) /\ threads'[p] = threads[p]
      BY <1>1, <2>2 DEF Inside, Enter, Goto, TypeOK
    <3> QED BY <1>0, <3>1
  <2> QED BY <2>1, <2>2
<1>2. CASE Exit(t)
  <2>1. CASE p = Proc[t]
    <3>1. Inside(p)' = Inside(p) \ {t} /\ t \in Inside(p)
      BY <1>2, <2>1 DEF Inside, Exit, Leaving, Goto, TypeOK, Going
    <3>2. threads'[p] = threads[p] - 1
      BY <1>2, <2>1 DEF Exit, TypeOK
    <3>3. Cardinality(Inside(p) \ {t}) = Cardinality(Inside(p)) - 1
      BY <1>0, <3>1, FS_RemoveElement
    <3> QED BY <1>0, <3>1, <3>2, <3>3
  <2>2. CASE p # Proc[t]
    <3>1. Inside(p)' = Inside(p) /\ threads'[p] = threads[p]
      BY <1>2, <2>2 DEF Inside, Exit, Goto, TypeOK
    <3> QED BY <1>0, <3>1
  <2> QED BY <2>1, <2>2
<1>3. CASE Quiet(t)
  <2>1. Inside(p)' = Inside(p) /\ threads'[p] = threads[p]
    BY <1>3, QuietSteps DEF Inside, Alike, Going
  <2> QED BY <1>0, <2>1
<1>4. CASE Spin(t) \/ OpenShm(t) \/ HaveToMmap(t) \/ AddProcess(t) \/ Attached(t)
  <2>1. Inside(p)' = Inside(p) /\ threads'[p] = threads[p]
    BY <1>4 DEF Inside, Going, Spin, OpenShm, HaveToMmap, AddProcess, Attached, Goto, TypeOK, state
  <2> QED BY <1>0, <2>1
<1>5. CASE DelProcess(t) \/ Unmap(t) \/ Clean(t)
  <2>1. Inside(p)' = Inside(p) /\ threads'[p] = threads[p]
    BY <1>5 DEF Inside, Going, DelProcess, Unmap, Clean, Goto, TypeOK, state
  <2> QED BY <1>0, <2>1
<1> QED BY <1>1, <1>2, <1>3, <1>4, <1>5, NextCases

(* One thread of a process attaches it; who leaves or spins.               *)
LEMMA ThreadsStep ==
  ASSUME IsFiniteSet(Threads), LeaversAlone, TypeOK, ThreadsInv, PipeInv, NEW t \in Threads,
         Enter(t) \/ InitStep(t) \/ SpuriousWake(t) \/ ExitStep(t)
  PROVE  ThreadsInv'
<1> USE DEF Goto, TypeOK, Going, Coming
<1>1. CASE Enter(t)
  <2>1. ASSUME threads[Proc[t]] = 0, NEW u \in Threads, Proc[u] = Proc[t], u # t
        PROVE  pc[u] = "out"
    <3>1. u \notin Inside(Proc[t])
      BY <2>1, NobodyInside
    <3> QED BY <2>1, <3>1 DEF Inside, ThreadsInv, LeaversAlone
  <2>2. ASSUME t \in Leavers
        PROVE  threads[Proc[t]] = 0
    <3>1. Inside(Proc[t]) = {}
      BY <1>1, <2>2 DEF Inside, Enter, LeaversAlone
    <3> QED BY <3>1, NobodyInside
  <2> QED BY <1>1, <2>1, <2>2, CountStep, ZenonT(60) DEF Enter, ThreadsInv
<1>2. CASE Spin(t)
  <2>1. t \notin Leavers
    BY <1>2 DEF Spin, ThreadsInv
  <2>2. \A u \in Threads : Proc[u] = Proc[t] => pc[u] \notin Coming
    BY <1>2, <2>1 DEF Spin, PipeInv, Of, LeaversAlone
  <2> QED BY <1>2, <2>1, <2>2, CountStep DEF Spin, ThreadsInv
<1>3. CASE Exit(t)
  BY <1>3, CountStep DEF Exit, Leaving, ThreadsInv, LeaversAlone
<1>4. CASE Quiet(t)
  BY <1>4, QuietSteps, CountStep, ZenonT(60) DEF Alike, ThreadsInv
<1>5. CASE OpenShm(t) \/ HaveToMmap(t) \/ AddProcess(t) \/ Attached(t)
  BY <1>5, CountStep, SMTT(30) DEF OpenShm, HaveToMmap, AddProcess, Attached, ThreadsInv
<1>6. CASE DelProcess(t) \/ Unmap(t) \/ Clean(t)
  <2>1. t \in Leavers /\ \A u \in Threads \ {t} : Proc[u] # Proc[t] /\ pc'[u] = pc[u]
    BY <1>6 DEF DelProcess, Unmap, Clean, ThreadsInv, LeaversAlone
  <2>2. pc'[t] \in Going \cup {"out"}
    BY <1>6 DEF DelProcess, Unmap, Clean
  <2> QED BY <2>1, <2>2, CountStep DEF ThreadsInv
<1> QED BY <1>1, <1>2, <1>3, <1>4, <1>5, <1>6, NextCases
(* Who leaves is alone inside, and detaches its process.                   *)
LEMMA LastOne ==
  ASSUME IsFiniteSet(Threads), LeaversAlone, TypeOK, ThreadsInv, NEW t \in Threads, Exit(t)
  PROVE  pc'[t] = "del"
<1>1. Inside(Proc[t]) = {t}
  BY DEF Exit, Leaving, Inside, LeaversAlone, Going
<1>2. threads[Proc[t]] = 1
  BY <1>1, FS_Singleton DEF ThreadsInv
<1> QED BY <1>2 DEF Exit, Goto, TypeOK

(* A step within the mapped labels, or within the others, keeps vpipe so.  *)
LEMMA PipeFrame ==
  ASSUME PipeInv, UNCHANGED <<segment, vpipe, initialized>>, linked' => linked,
         TypeOK, pc' \in [Threads -> PC],
         \A u \in Threads :
            /\ pc'[u] \in Unmapped <=> pc[u] \in Unmapped
            /\ pc'[u] \in Coming => pc[u] \in Coming
            /\ pc'[u] # "null"
  PROVE  PipeInv'
<1>1. ASSUME NEW p \in Processes, vpipe'[p] # 0
      PROVE  Of(p, PC \ Unmapped)'
  <2>1. PICK u \in Threads : Proc[u] = p /\ pc[u] \notin Unmapped
    BY <1>1 DEF PipeInv, Of
  <2>2. pc'[u] \in PC \ Unmapped
    BY <2>1
  <2> QED BY <2>1, <2>2 DEF Of
<1>2. ASSUME NEW p \in Processes, initialized'[p], \A u \in Leavers : Proc[u] # p
      PROVE  vpipe'[p] # 0 /\ ~Of(p, Coming)'
  BY <1>2 DEF PipeInv, Of
<1> QED BY <1>1, <1>2 DEF PipeInv, Seg

(* vpipe is set while it is relied on.                                     *)
LEMMA PipeStep ==
  ASSUME IsFiniteSet(Threads), LeaversAlone, TypeOK, ThreadsInv, PipeInv, NEW t \in Threads,
         Enter(t) \/ InitStep(t) \/ SpuriousWake(t) \/ ExitStep(t)
  PROVE  PipeInv'
<1> USE DEF Goto, TypeOK, Unmapped, Seg, Coming, segments, state
<1>1. CASE Enter(t)
  <2>1. linked' => segment' # 0
    BY <1>1 DEF Enter, PipeInv
  <2>2. \A u \in Threads : (pc'[u] \notin Unmapped => Seg(u)' # 0) /\ pc'[u] # "null"
    BY <1>1 DEF Enter, PipeInv
  <2>3. ASSUME NEW p \in Processes, vpipe'[p] # 0 PROVE Of(p, PC \ Unmapped)'
    BY <1>1, <2>3 DEF Enter, PipeInv, Of
  <2>4. ASSUME NEW p \in Processes, initialized'[p], \A u \in Leavers : Proc[u] # p
        PROVE  vpipe'[p] # 0 /\ ~Of(p, Coming)'
    <3>1. vpipe[p] # 0 /\ ~Of(p, Coming) /\ Of(p, PC \ Unmapped)
      BY <1>1, <2>4 DEF Enter, PipeInv
    <3>2. PICK u \in Threads : Proc[u] = p /\ pc[u] \notin Unmapped
      BY <3>1 DEF Of
    <3>3. u \in Inside(p)
      BY <2>4, <3>2 DEF Inside, ThreadsInv
    <3>4. threads[p] # 0
      BY <3>3, NobodyInside
    <3> QED BY <1>1, <3>1, <3>4 DEF Enter, Of
  <2> QED BY <2>1, <2>2, <2>3, <2>4 DEF PipeInv
<1>2. CASE Spin(t)
  <2>1. Seg(t) # 0 /\ UNCHANGED <<linked, segment, vpipe, initialized>>
    BY <1>2 DEF Spin, PipeInv, ThreadsInv, LeaversAlone
  <2> QED BY <1>2, <2>1 DEF Spin, PipeInv, Of, PC
<1>3. CASE OpenShm(t)
  <2>1. segment' # 0 /\ vpipe'[Proc[t]] # 0 /\ pc'[t] = "map" /\ pc[t] = "open"
    BY <1>3 DEF OpenShm, PipeInv
  <2>2. /\ \A u \in Threads \ {t} : pc'[u] = pc[u]
        /\ \A p \in Processes \ {Proc[t]} : vpipe'[p] = vpipe[p]
        /\ UNCHANGED initialized
    BY <1>3 DEF OpenShm
  <2>3. ASSUME NEW p \in Processes, vpipe'[p] # 0 PROVE Of(p, PC \ Unmapped)'
    <3>1. CASE p = Proc[t]
      BY <2>1, <3>1 DEF Of, PC
    <3>2. CASE p # Proc[t]
      <4>1. PICK u \in Threads : Proc[u] = p /\ pc[u] \in PC \ Unmapped
        BY <2>2, <2>3, <3>2 DEF PipeInv, Of
      <4> QED BY <2>1, <2>2, <4>1 DEF Of
    <3> QED BY <3>1, <3>2
  <2>4. ASSUME NEW p \in Processes, initialized'[p], \A u \in Leavers : Proc[u] # p
        PROVE  vpipe'[p] # 0 /\ ~Of(p, Coming)'
    BY <2>1, <2>2, <2>4 DEF PipeInv, Of
  <2>5. ASSUME NEW u \in Threads PROVE (pc'[u] \notin Unmapped => Seg(u)' # 0) /\ pc'[u] # "null"
    <3>1. CASE u = t
      BY <2>1, <3>1 DEF Seg
    <3>2. CASE u # t /\ Proc[u] = Proc[t]
      BY <2>1, <2>2, <3>2 DEF PipeInv, Seg
    <3>3. CASE u # t /\ Proc[u] # Proc[t]
      BY <2>2, <3>3 DEF PipeInv, Seg
    <3> QED BY <3>1, <3>2, <3>3
  <2> QED BY <2>1, <2>3, <2>4, <2>5 DEF PipeInv
<1>4. CASE HaveToMmap(t) \/ AddProcess(t)
  <2>1. CASE HaveToMmap(t)
    BY <2>1, PipeFrame DEF HaveToMmap, PipeInv, PC
  <2>2. CASE AddProcess(t)
    BY <2>2, PipeFrame DEF AddProcess, PipeInv, PC
  <2> QED BY <1>4, <2>1, <2>2
<1>5. CASE Attached(t)
  <2>1. Seg(t) # 0 /\ \A u \in Threads : Proc[u] = Proc[t] => pc'[u] \notin Coming
    BY <1>5 DEF Attached, PipeInv, ThreadsInv
  <2> QED BY <1>5, <2>1 DEF Attached, PipeInv, Of, PC
<1>6. CASE Exit(t)
  BY <1>6, LastOne, PipeFrame DEF Exit, Leaving, PipeInv, PC
<1>7. CASE DelProcess(t) \/ Clean(t)
  BY <1>7, PipeFrame DEF DelProcess, Clean, PipeInv, PC
<1>8. CASE Unmap(t)
  <2>1. t \in Leavers /\ pc'[t] \in Unmapped /\ vpipe'[Proc[t]] = 0
        /\ \A u \in Threads \ {t} : Proc[u] # Proc[t] /\ pc'[u] = pc[u] /\ Seg(u)' = Seg(u)
    BY <1>8 DEF Unmap, ThreadsInv, LeaversAlone, Going
  <2> QED BY <1>8, <2>1 DEF Unmap, PipeInv, Of, PC
<1>9. CASE Quiet(t)
  <2>1. /\ UNCHANGED <<linked, segment, vpipe, initialized>> /\ pc' \in [Threads -> PC]
        /\ \A u \in Threads : Alike(pc[u], pc'[u])
    BY <1>9, QuietSteps
  <2>2. \A u \in Threads :
           /\ pc'[u] \in Unmapped <=> pc[u] \in Unmapped
           /\ pc'[u] \in Coming => pc[u] \in Coming
           /\ pc'[u] # "null"
    BY <2>1 DEF Alike, PipeInv
  <2> QED BY <2>1, <2>2, PipeFrame
<1> QED BY <1>1, <1>2, <1>3, <1>4, <1>5, <1>6, <1>7, <1>8, <1>9, NextCases
(* A process that is about to open the segment has none mapped.            *)
LEMMA OpensUnmapped ==
  ASSUME TypeOK, ThreadsInv, PipeInv, NEW t \in Threads, pc[t] = "open"
  PROVE  Seg(t) = 0
<1>1. \A u \in Threads : Proc[u] = Proc[t] => pc[u] \in Unmapped
  BY DEF ThreadsInv, Coming, Unmapped
<1> QED BY <1>1 DEF PipeInv, Of, Seg

(* Only arax_pipe_add_process and arax_pipe_del_process change who is      *)
(* counted, only the map's operations change who is in it.                 *)
LEMMA SetsStep ==
  ASSUME LeaversAlone, TypeOK, ThreadsInv, PipeInv, NEW t \in Threads, NEW g \in Segments,
         Enter(t) \/ InitStep(t) \/ SpuriousWake(t) \/ ExitStep(t)
  PROVE  /\ ~AddProcess(t) /\ ~DelProcess(t) => Counted(g)' = Counted(g)
         /\ ~HaveToMmap(t) /\ ~Unmap(t) => Mapping(g)' = Mapping(g)
<1> USE DEF Goto, TypeOK, Segments, Counted, Uncounted, Mapping, Of
<1>1. CASE Quiet(t)
  BY <1>1, QuietSteps DEF Alike
<1>2. CASE Enter(t) \/ Spin(t) \/ Attached(t)
  BY <1>2 DEF Enter, Spin, Attached, state
<1>3. CASE OpenShm(t)
  <2>1. vpipe[Proc[t]] = 0 /\ pc'[t] = "map"
    BY <1>3, OpensUnmapped DEF OpenShm, Seg
  <2>2. /\ \A u \in Threads \ {t} : pc'[u] = pc[u]
        /\ \A p \in Processes \ {Proc[t]} : vpipe'[p] = vpipe[p]
    BY <1>3 DEF OpenShm
  <2>3. ASSUME NEW p \in Processes
        PROVE  (p \in Counted(g)' <=> p \in Counted(g)) /\ (p \in Mapping(g)' <=> p \in Mapping(g))
    <3>1. CASE p = Proc[t]
      BY <2>1, <3>1
    <3>2. CASE p # Proc[t]
      BY <2>2, <3>2
    <3> QED BY <3>1, <3>2
  <2>4. /\ Counted(g) \subseteq Processes /\ Counted(g)' \subseteq Processes
        /\ Mapping(g) \subseteq Processes /\ Mapping(g)' \subseteq Processes
    OBVIOUS
  <2> HIDE DEF Counted, Mapping
  <2>5. Counted(g)' = Counted(g)
    BY <2>3, <2>4
  <2>6. Mapping(g)' = Mapping(g)
    BY <2>3, <2>4
  <2> QED BY <2>5, <2>6
<1>4. CASE HaveToMmap(t) \/ Exit(t) \/ Clean(t)
  <2>1. /\ vpipe' = vpipe
        /\ \A u \in Threads, l \in Uncounted :
             ~(HaveToMmap(t) /\ u = t) => (pc'[u] = l <=> pc[u] = l)
        /\ HaveToMmap(t) => pc[t] = "map" /\ pc'[t] = "add"
    BY <1>4 DEF HaveToMmap, Exit, Leaving, Clean, state
  <2>2. \A p \in Processes : Of(p, Uncounted)' <=> Of(p, Uncounted)
    BY <2>1
  <2>3. ~HaveToMmap(t) => \A p \in Processes : Of(p, {"map"})' <=> Of(p, {"map"})
    BY <2>1
  <2> HIDE DEF Of
  <2>4. Counted(g)' = Counted(g)
    BY <2>1, <2>2
  <2>5. ~HaveToMmap(t) => Mapping(g)' = Mapping(g)
    BY <2>1, <2>3
  <2> QED BY <2>4, <2>5
<1>5. CASE AddProcess(t)
  BY <1>5 DEF AddProcess, state
<1>6. CASE DelProcess(t)
  BY <1>6 DEF DelProcess, state
<1>7. CASE Unmap(t)
  <2>1. /\ \A u \in Threads \ {t} : Proc[u] # Proc[t] /\ pc'[u] = pc[u]
        /\ \A p \in Processes \ {Proc[t]} : vpipe'[p] = vpipe[p]
    BY <1>7 DEF Unmap, ThreadsInv, LeaversAlone, Going
  <2>2. Proc[t] \notin Counted(g) \cup Counted(g)'
    BY <1>7 DEF Unmap
  <2>3. \A p \in Processes \ {Proc[t]} : p \in Counted(g) <=> p \in Counted(g)'
    BY <2>1
  <2> QED BY <1>7, <2>2, <2>3, SMTT(30)
<1> QED BY <1>1, <1>2, <1>3, <1>4, <1>5, <1>6, <1>7, NextCases

LEMMA CountedFinite ==
  ASSUME IsFiniteSet(Processes), NEW g \in Segments
  PROVE  /\ IsFiniteSet(Counted(g)) /\ Cardinality(Counted(g)) \in Nat
         /\ IsFiniteSet(Mapping(g)) /\ Cardinality(Mapping(g)) \in Nat
         /\ Cardinality(Counted(g)) <= Cardinality(Processes)
         /\ Cardinality(Mapping(g)) <= Cardinality(Processes)
<1>1. Counted(g) \subseteq Processes /\ Mapping(g) \subseteq Processes
  BY DEF Counted, Mapping
<1> QED BY <1>1, FS_Subset, FS_CardinalityType

(* pipe->processes is exact.                                               *)
LEMMA ProcessesStep ==
  ASSUME IsFiniteSet(Processes), LeaversAlone, TypeOK, ThreadsInv, PipeInv, ProcessesCounted,
         NEW t \in Threads, Enter(t) \/ InitStep(t) \/ SpuriousWake(t) \/ ExitStep(t)
  PROVE  ProcessesCounted'
<1> SUFFICES ASSUME NEW g \in Segments PROVE processes'[g] = Cardinality(Counted(g)')
  BY DEF ProcessesCounted
<1>0. /\ processes[g] = Cardinality(Counted(g)) /\ processes[g] \in Nat
      /\ IsFiniteSet(Counted(g))
  BY CountedFinite DEF ProcessesCounted
<1>1. CASE AddProcess(t) /\ g = Seg(t)
  <2>1. /\ \A u \in Threads : Proc[u] = Proc[t] /\ u # t => pc[u] \in {"out", "spin"}
        /\ \A u \in Threads \ {t} : pc'[u] = pc[u]
        /\ pc[t] = "add" /\ pc'[t] \in {"publish", "sha"} /\ vpipe' = vpipe
    BY <1>1 DEF AddProcess, ThreadsInv, Coming, Goto, TypeOK, state
  <2>2. Proc[t] \notin Counted(g) /\ Proc[t] \in Counted(g)'
    BY <1>1, <2>1 DEF Counted, Uncounted, Of, Seg
  <2>3. \A p \in Processes \ {Proc[t]} : p \in Counted(g) <=> p \in Counted(g)'
    BY <2>1 DEF Counted, Of
  <2>4. Counted(g)' = Counted(g) \cup {Proc[t]}
    BY <2>2, <2>3 DEF Counted
  <2>5. processes'[g] = processes[g] + 1
    BY <1>1 DEF AddProcess, TypeOK
  <2>6. Cardinality(Counted(g) \cup {Proc[t]}) = Cardinality(Counted(g)) + 1
    BY <1>0, <2>2, FS_AddElement
  <2> QED BY <1>0, <2>4, <2>5, <2>6
<1>2. CASE DelProcess(t) /\ g = Seg(t)
  <2>1. /\ \A u \in Threads \ {t} : Proc[u] # Proc[t] /\ pc'[u] = pc[u]
        /\ pc[t] = "del" /\ pc'[t] \in {"destroy", "unmap"} /\ vpipe' = vpipe
    BY <1>2 DEF DelProcess, ThreadsInv, LeaversAlone, Going, Goto, TypeOK, state
  <2>2. Proc[t] \in Counted(g) /\ Proc[t] \notin Counted(g)'
    BY <1>2, <2>1 DEF Counted, Uncounted, Of, Seg
  <2>3. \A p \in Processes \ {Proc[t]} : p \in Counted(g) <=> p \in Counted(g)'
    BY <2>1 DEF Counted, Of
  <2>4. Counted(g)' = Counted(g) \ {Proc[t]}
    BY <2>2, <2>3 DEF Counted
  <2>5. processes'[g] = processes[g] - 1
    BY <1>2 DEF DelProcess, TypeOK
  <2>6. Cardinality(Counted(g) \ {Proc[t]}) = Cardinality(Counted(g)) - 1
    BY <1>0, <2>2, FS_RemoveElement
  <2> QED BY <1>0, <2>4, <2>5, <2>6
<1>3. CASE (AddProcess(t) \/ DelProcess(t)) /\ g # Seg(t)
  <2>1. processes'[g] = processes[g] /\ vpipe' = vpipe /\ \A u \in Threads \ {t} : pc'[u] = pc[u]
    BY <1>3 DEF AddProcess, DelProcess, TypeOK, Goto, state
  <2>2. Counted(g)' = Counted(g)
    BY <1>3, <2>1 DEF Counted, Uncounted, Of, Seg
  <2> QED BY <1>0, <2>1, <2>2
<1>4. CASE ~AddProcess(t) /\ ~DelProcess(t)
  <2>1. processes'[g] = processes[g]
    <3>1. CASE Quiet(t)
      BY <3>1, QuietSteps
    <3>2. CASE ~Quiet(t)
      BY <1>4, <3>2, NextCases DEF Enter, Spin, OpenShm, HaveToMmap, Attached, Exit, Unmap, Clean, pipe
    <3> QED BY <3>1, <3>2
  <2> QED BY <1>0, <1>4, <2>1, SetsStep
<1> QED BY <1>1, <1>2, <1>3, <1>4
-----------------------------------------------------------------------------
(* The map of the processes *)

LEMMA FirstIs ==
  ASSUME NEW map, NEW values, NEW c \in Cells, map[c] \in values,
         \A d \in Cells : d < c => map[d] \notin values
  PROVE  First(map, values) = c
<1> DEFINE found == {d \in Cells : map[d] \in values}
<1>1. c \in found /\ \A d \in found : c <= d
  BY DEF Cells
<1>2. \A d \in found : (\A e \in found : d <= e) => d = c
  BY <1>1 DEF Cells
<1>3. First(map, values) = CHOOSE d \in found : \A e \in found : d <= e
  BY <1>1 DEF First
<1> QED BY <1>1, <1>2, <1>3

LEMMA DivMod ==
  ASSUME NEW w \in Nat \ {0}, NEW n \in Nat
  PROVE  n \div w \in Nat /\ n % w \in 0 .. w - 1 /\ n = (n \div w) * w + (n % w)
OBVIOUS

(* The bytes that memmove takes are enough for the cells in use.           *)
LEMMA EnoughBytes ==
  ASSUME NEW n \in Nat, NEW c \in Nat, c < n, NEW q \in Nat, NEW r \in Nat, r < CellBytes,
         n * CellBytes <= MapSize - 1 + CellBytes - PidBytes,
         MapSize - (c + 1) = q * CellBytes + r
  PROVE  n < MapSize /\ (n - c <= q \/ (n - c = q + 1 /\ r >= PidBytes))
<1> DEFINE m == n - c
<1>0. m \in Nat \ {0} /\ CellBytes \in Nat \ {0} /\ PidBytes \in Nat \ {0} /\ MapSize \in Nat
  OBVIOUS
<1>1. n * CellBytes = m * CellBytes + c * CellBytes
  OBVIOUS
<1>2. c <= c * CellBytes
  BY <1>0
<1> HIDE DEF m
<1>3. m * CellBytes <= q * CellBytes + r + CellBytes - PidBytes
  BY <1>0, <1>1, <1>2
<1>4. m <= q + 1
  <2>1. SUFFICES ASSUME m >= q + 2 PROVE FALSE
    BY <1>0
  <2>2. m * CellBytes >= (q + 2) * CellBytes
    BY <1>0, <2>1
  <2>3. (q + 2) * CellBytes = q * CellBytes + CellBytes + CellBytes
    BY <1>0
  <2> QED BY <1>0, <1>3, <2>2, <2>3
<1>5. m = q + 1 => r >= PidBytes
  <2>1. (q + 1) * CellBytes = q * CellBytes + CellBytes
    BY <1>0
  <2> QED BY <1>0, <1>3, <2>1
<1>6. n < MapSize
  <2>1. n * CellBytes = (n - 1) * CellBytes + CellBytes
    BY <1>0
  <2>2. n - 1 <= (n - 1) * CellBytes
    BY <1>0
  <2> QED BY <1>0, <2>1, <2>2
<1> QED BY <1>0, <1>4, <1>5, <1>6 DEF m

(* arax_pipe_have_to_mmap adds a pid that is not in the map yet.           *)
LEMMA MapAdds ==
  ASSUME NEW map \in [Cells -> Processes \cup {NoPid, Mixed}], NEW pids \in SUBSET Processes,
         IsFiniteSet(pids), Cardinality(pids) < MapSize, IsMap(map, pids),
         NEW pid \in Processes, pid \notin pids
  PROVE  /\ arax_pipe_have_to_mmap(map, pid) \in [Cells -> Processes \cup {NoPid, Mixed}]
         /\ IsMap(arax_pipe_have_to_mmap(map, pid), pids \cup {pid})
<1> DEFINE n == Cardinality(pids)
           new == arax_pipe_have_to_mmap(map, pid)
<1>1. n \in Nat /\ n \in Cells /\ Cardinality(pids \cup {pid}) = n + 1
  BY FS_CardinalityType, FS_AddElement DEF Cells
<1>2. /\ \A c \in Cells : c < n => map[c] \in pids
      /\ \A c \in Cells : c >= n => map[c] = NoPid
      /\ \A c, d \in Cells : map[c] = map[d] /\ map[c] # NoPid => c = d
      /\ \A p \in pids : \E c \in Cells : map[c] = p
  <2>1. \A c \in Cells : IF c < n THEN map[c] \in pids ELSE map[c] = NoPid
    BY Zenon DEF IsMap
  <2>2. /\ \A c, d \in Cells : map[c] = map[d] /\ map[c] # NoPid => c = d
        /\ \A p \in pids : \E c \in Cells : map[c] = p
    BY Zenon DEF IsMap
  <2> HIDE DEF n
  <2>3. \A c \in Cells : c >= n => ~(c < n)
    BY <1>1 DEF Cells
  <2> QED BY <2>1, <2>2, <2>3
<1> HIDE DEF n
<1>3. First(map, {pid, NoPid}) = n
  <2>1. map[n] \in {pid, NoPid} /\ \A d \in Cells : d < n => map[d] \notin {pid, NoPid}
    BY <1>1, <1>2
  <2> QED BY <1>1, <2>1, FirstIs
<1>4. new = [map EXCEPT ![n] = pid]
  <2>1. n < MapSize
    BY <1>1 DEF Cells
  <2> QED BY <1>3, <2>1, Zenon DEF arax_pipe_have_to_mmap
<1> HIDE DEF new
<1>5. \A c \in Cells : IF c < n + 1 THEN new[c] \in pids \cup {pid} ELSE new[c] = NoPid
  BY <1>1, <1>2, <1>4 DEF Cells
<1>6. \A c, d \in Cells : new[c] = new[d] /\ new[c] # NoPid => c = d
  BY <1>1, <1>2, <1>4 DEF Cells
<1>7. ASSUME NEW p \in pids \cup {pid} PROVE \E c \in Cells : new[c] = p
  <2>1. CASE p = pid
    BY <1>1, <1>4, <2>1
  <2>2. CASE p \in pids
    BY <1>1, <1>2, <1>4, <2>2
  <2> QED BY <2>1, <2>2
<1>8. new \in [Cells -> Processes \cup {NoPid, Mixed}]
  BY <1>1, <1>4
<1> QED BY <1>1, <1>5, <1>6, <1>7, <1>8 DEF IsMap, new
(* arax_pipe_mark_unmap removes a pid, if all of them fit.                 *)
LEMMA MapRemoves ==
  ASSUME NEW map \in [Cells -> Processes \cup {NoPid, Mixed}], NEW pids \in SUBSET Processes,
         IsFiniteSet(pids), IsMap(map, pids), NEW pid \in pids,
         Cardinality(pids) * CellBytes <= MapSize - 1 + CellBytes - PidBytes
  PROVE  /\ arax_pipe_mark_unmap(map, pid) \in [Cells -> Processes \cup {NoPid, Mixed}]
         /\ IsMap(arax_pipe_mark_unmap(map, pid), pids \ {pid})
<1> DEFINE n == Cardinality(pids)
           new == arax_pipe_mark_unmap(map, pid)
<1>1. n \in Nat /\ Cardinality(pids \ {pid}) = n - 1
  BY FS_CardinalityType, FS_RemoveElement
<1>2. /\ \A d \in Cells : d < n => map[d] \in pids
      /\ \A d \in Cells : d >= n => map[d] = NoPid
      /\ \A d, e \in Cells : map[d] = map[e] /\ map[d] # NoPid => d = e
      /\ \A p \in pids : \E d \in Cells : map[d] = p
  BY <1>1, SMTT(30) DEF IsMap, Cells
<1>3. PICK c \in Cells : map[c] = pid
  BY <1>2
<1>4. c < n /\ c \in Nat /\ c <= MapSize - 1 /\ MapSize \in Nat
  BY <1>1, <1>2, <1>3 DEF Cells
<1>5. First(map, {pid}) = c
  <2>1. map[c] \in {pid} /\ \A d \in Cells : d < c => map[d] \notin {pid}
    BY <1>2, <1>3 DEF Cells
  <2> QED BY <2>1, FirstIs
<1> DEFINE q == (MapSize - (c + 1)) \div CellBytes
           r == (MapSize - (c + 1)) % CellBytes
<1>6. q \in Nat /\ r \in Nat /\ r < CellBytes /\ MapSize - (c + 1) = q * CellBytes + r
  <2>1. MapSize - (c + 1) \in Nat /\ CellBytes \in Nat \ {0}
    BY <1>4
  <2>2. q \in Nat /\ r \in 0 .. CellBytes - 1 /\ MapSize - (c + 1) = q * CellBytes + r
    BY <2>1, DivMod, Zenon
  <2> HIDE DEF q, r
  <2> QED BY <2>1, <2>2
<1>7. new = [i \in Cells |-> CASE i = MapSize - 1 -> NoPid
                                [] i \in c .. (c + q) - 1 -> map[i + 1]
                                [] i = c + q /\ r >= PidBytes -> map[i + 1]
                                [] i = c + q /\ r \in 1 .. PidBytes - 1 ->
                                     IF map[i] = map[i + 1] THEN map[i] ELSE Mixed
                                [] OTHER -> map[i]]
  BY <1>5 DEF arax_pipe_mark_unmap
<1> HIDE DEF n, new, q, r
<1>8. n < MapSize /\ (n - c <= q \/ (n - c = q + 1 /\ r >= PidBytes))
  BY <1>1, <1>4, <1>6, EnoughBytes DEF n
<1>9. c + q + r <= MapSize - 1 /\ CellBytes \in Nat \ {0} /\ PidBytes \in Nat \ {0}
  <2>1. q <= q * CellBytes
    BY <1>6
  <2> QED BY <1>4, <1>6, <2>1
<1>10. \A i \in Cells : new[i] = IF i < c THEN map[i] ELSE IF i < n - 1 THEN map[i + 1] ELSE NoPid
  <2> SUFFICES ASSUME NEW i \in Cells
               PROVE  new[i] = IF i < c THEN map[i] ELSE IF i < n - 1 THEN map[i + 1] ELSE NoPid
    OBVIOUS
  <2>0. i \in Nat /\ i <= MapSize - 1
    BY <1>4 DEF Cells
  <2>1. CASE i < c
    BY <1>1, <1>4, <1>6, <1>7, <1>9, <2>0, <2>1
  <2>2. CASE c <= i /\ i < n - 1
    BY <1>1, <1>4, <1>6, <1>7, <1>8, <2>0, <2>2
  <2>3. CASE i = n - 1 /\ c <= i
    <3>1. i + 1 \in Cells /\ map[i + 1] = NoPid
      BY <1>1, <1>2, <1>8, <2>0, <2>3 DEF Cells
    <3>2. i # MapSize - 1 /\ (i \in c .. (c + q) - 1 \/ (i = c + q /\ r >= PidBytes))
      BY <1>1, <1>4, <1>6, <1>8, <2>0, <2>3
    <3> QED BY <1>4, <1>6, <1>7, <1>9, <3>1, <3>2
  <2>4. CASE i > n - 1 /\ i = MapSize - 1
    BY <1>1, <1>4, <1>6, <1>7, <1>8, <1>9, <2>0, <2>4
  <2>5. CASE i > n - 1 /\ i < MapSize - 1
    <3>1. i + 1 \in Cells /\ map[i + 1] = NoPid /\ map[i] = NoPid
      BY <1>1, <1>2, <1>8, <2>0, <2>5 DEF Cells
    <3> QED BY <1>1, <1>4, <1>6, <1>7, <2>0, <2>5, <3>1
  <2> QED BY <1>1, <1>4, <2>0, <2>1, <2>2, <2>3, <2>4, <2>5
<1>11. /\ \A i \in Cells : i < c => new[i] = map[i]
       /\ \A i \in Cells : c <= i /\ i < n - 1 => i + 1 \in Cells /\ new[i] = map[i + 1]
       /\ \A i \in Cells : i >= n - 1 => new[i] = NoPid
  BY <1>1, <1>4, <1>8, <1>10 DEF Cells
<1>12. \A i \in Cells : IF i < n - 1 THEN new[i] \in pids \ {pid} ELSE new[i] = NoPid
  BY <1>1, <1>2, <1>3, <1>4, <1>8, <1>11 DEF Cells
<1>13. ASSUME NEW i \in Cells, NEW j \in Cells, new[i] = new[j], new[i] # NoPid PROVE i = j
  <2>1. i < n - 1 /\ j < n - 1 /\ i \in Nat /\ j \in Nat
    BY <1>1, <1>11, <1>13 DEF Cells
  <2>2. CASE i < c /\ j < c
    BY <1>2, <1>11, <1>13, <2>2
  <2>3. CASE i < c /\ j >= c
    BY <1>2, <1>4, <1>11, <1>13, <2>1, <2>3
  <2>4. CASE i >= c /\ j < c
    BY <1>2, <1>4, <1>11, <1>13, <2>1, <2>4
  <2>5. CASE i >= c /\ j >= c
    <3>1. i + 1 = j + 1
      BY <1>2, <1>4, <1>11, <1>13, <2>1, <2>5
    <3> QED BY <2>1, <3>1
  <2> QED BY <1>4, <2>1, <2>2, <2>3, <2>4, <2>5
<1>14. ASSUME NEW p \in pids \ {pid} PROVE \E i \in Cells : new[i] = p
  <2>1. PICK d \in Cells : map[d] = p
    BY <1>2
  <2>2. d # c /\ d < n /\ d \in Nat
    BY <1>1, <1>2, <1>3, <2>1 DEF Cells
  <2>3. CASE d < c
    BY <1>1, <1>4, <1>11, <2>1, <2>2, <2>3
  <2>4. CASE d > c
    <3>1. d - 1 \in Cells /\ c <= d - 1 /\ d - 1 < n - 1 /\ (d - 1) + 1 = d
      BY <1>1, <1>4, <2>2, <2>4 DEF Cells
    <3> QED BY <1>11, <2>1, <3>1
  <2> QED BY <1>4, <2>2, <2>3, <2>4
<1>15. new \in [Cells -> Processes \cup {NoPid, Mixed}]
  BY <1>7, <1>12
<1> QED BY <1>1, <1>12, <1>13, <1>14, <1>15 DEF IsMap, new
(* Any set of processes fits the map as all of them do.                    *)
LEMMA Fits ==
  ASSUME IsFiniteSet(Processes), MapFits, NEW pids \in SUBSET Processes
  PROVE  /\ IsFiniteSet(pids) /\ Cardinality(pids) \in Nat
         /\ Cardinality(pids) < MapSize
         /\ Cardinality(pids) * CellBytes <= MapSize - 1 + CellBytes - PidBytes
<1> DEFINE k == Cardinality(Processes)
           n == Cardinality(pids)
<1>1. k \in Nat /\ n \in Nat /\ n <= k /\ IsFiniteSet(pids)
  BY FS_Subset, FS_CardinalityType
<1>2. k * CellBytes <= MapSize - 1 + CellBytes - PidBytes
  BY DEF MapFits
<1>3. CellBytes \in Nat \ {0} /\ PidBytes \in Nat \ {0} /\ MapSize \in Nat \ {0}
  OBVIOUS
<1> HIDE DEF k, n
<1>4. n * CellBytes <= k * CellBytes
  <2>1. k * CellBytes = n * CellBytes + (k - n) * CellBytes
    BY <1>1, <1>3
  <2>2. (k - n) * CellBytes >= 0
    BY <1>1, <1>3
  <2> QED BY <1>1, <1>3, <2>1, <2>2
<1>5. n * CellBytes <= MapSize - 1 + CellBytes - PidBytes
  BY <1>1, <1>2, <1>3, <1>4
<1>6. n < MapSize
  <2>1. CASE n = 0
    BY <1>3, <2>1
  <2>2. CASE n > 0
    <3>1. n * CellBytes = (n - 1) * CellBytes + CellBytes
      BY <1>1, <1>3
    <3>2. n - 1 <= (n - 1) * CellBytes
      BY <1>1, <1>3, <2>2
    <3> QED BY <1>1, <1>3, <1>5, <3>1, <3>2
  <2> QED BY <1>1, <2>1, <2>2
<1> QED BY <1>1, <1>5, <1>6 DEF n

LEMMA SegIn ==
  ASSUME TypeOK, PipeInv, NEW t \in Threads, pc[t] \notin Unmapped
  PROVE  Seg(t) \in Segments
<1>1. Seg(t) \in 0 .. MaxSegments /\ Seg(t) # 0
  BY DEF TypeOK, PipeInv, Seg
<1> QED BY <1>1 DEF Segments

(* proc_map is exact.                                                      *)
LEMMA MapStep ==
  ASSUME IsFiniteSet(Processes), MapFits, LeaversAlone, TypeOK, ThreadsInv, PipeInv, MapInv,
         NEW t \in Threads, Enter(t) \/ InitStep(t) \/ SpuriousWake(t) \/ ExitStep(t)
  PROVE  /\ proc_map' \in [Segments -> [Cells -> Processes \cup {NoPid, Mixed}]]
         /\ MapInv'
<1>0. /\ proc_map \in [Segments -> [Cells -> Processes \cup {NoPid, Mixed}]]
      /\ Proc[t] \in Processes
      /\ \A g \in Segments : Mapping(g) \in SUBSET Processes /\ IsMap(proc_map[g], Mapping(g))
  BY DEF TypeOK, MapInv, Mapping
<1>1. CASE HaveToMmap(t)
  <2>0. PICK g \in Segments : g = Seg(t)
    BY <1>1, SegIn DEF HaveToMmap, Unmapped
  <2>1. /\ vpipe' = vpipe /\ pc[t] = "map" /\ pc'[t] = "add"
        /\ \A u \in Threads \ {t} : pc'[u] = pc[u]
        /\ \A u \in Threads : Proc[u] = Proc[t] /\ u # t => pc[u] \in {"out", "spin"}
    BY <1>1 DEF HaveToMmap, TypeOK, Goto, ThreadsInv, Coming, state
  <2>2. Proc[t] \notin Mapping(g) /\ Mapping(g)' = Mapping(g) \cup {Proc[t]}
    <3>1. Proc[t] \notin Mapping(g) /\ Proc[t] \in Mapping(g)'
      BY <2>0, <2>1 DEF Mapping, Of, Seg
    <3>2. \A p \in Processes \ {Proc[t]} : p \in Mapping(g) <=> p \in Mapping(g)'
      BY <2>1 DEF Mapping, Of
    <3> QED BY <3>1, <3>2 DEF Mapping
  <2>3. \A h \in Segments \ {g} : Mapping(h)' = Mapping(h)
    BY <2>0, <2>1 DEF Mapping, Of, Seg
  <2> DEFINE new == arax_pipe_have_to_mmap(proc_map[g], Proc[t])
  <2>4. /\ proc_map' = [proc_map EXCEPT ![g] = new]
    BY <1>1, <2>0 DEF HaveToMmap
  <2>5. new \in [Cells -> Processes \cup {NoPid, Mixed}] /\ IsMap(new, Mapping(g)')
    <3>1. /\ proc_map[g] \in [Cells -> Processes \cup {NoPid, Mixed}]
          /\ Mapping(g) \in SUBSET Processes /\ IsMap(proc_map[g], Mapping(g))
      BY <1>0
    <3>2. /\ IsFiniteSet(Mapping(g)) /\ Cardinality(Mapping(g)) < MapSize
          /\ Cardinality(Mapping(g)) * CellBytes <= MapSize - 1 + CellBytes - PidBytes
      BY <3>1, Fits
    <3>3. /\ new \in [Cells -> Processes \cup {NoPid, Mixed}]
          /\ IsMap(new, Mapping(g) \cup {Proc[t]})
      BY <1>0, <2>2, <3>1, <3>2, MapAdds, Zenon
    <3> QED BY <2>2, <3>3
  <2> HIDE DEF new
  <2> QED BY <1>0, <2>3, <2>4, <2>5 DEF MapInv
<1>2. CASE Unmap(t)
  <2>0. PICK g \in Segments : g = Seg(t)
    BY <1>2, SegIn DEF Unmap, Unmapped
  <2>1. /\ vpipe'[Proc[t]] = 0 /\ pc[t] \in {"unmap", "unmaplast"} /\ vpipe[Proc[t]] = g
        /\ \A p \in Processes \ {Proc[t]} : vpipe'[p] = vpipe[p]
        /\ \A u \in Threads \ {t} : pc'[u] = pc[u] /\ Proc[u] # Proc[t]
    BY <1>2, <2>0 DEF Unmap, TypeOK, Goto, Seg, ThreadsInv, Going, LeaversAlone
  <2>2. Proc[t] \in Mapping(g) /\ Mapping(g)' = Mapping(g) \ {Proc[t]}
    <3>1. Proc[t] \in Mapping(g) /\ Proc[t] \notin Mapping(g)'
      BY <2>1 DEF Mapping, Of, Segments
    <3>2. \A p \in Processes \ {Proc[t]} : p \in Mapping(g) <=> p \in Mapping(g)'
      BY <2>1 DEF Mapping, Of
    <3> QED BY <3>1, <3>2 DEF Mapping
  <2>3. ASSUME NEW h \in Segments \ {g} PROVE Mapping(h)' = Mapping(h)
    <3>1. Proc[t] \notin Mapping(h) /\ Proc[t] \notin Mapping(h)'
      BY <2>1 DEF Mapping, Segments
    <3>2. \A p \in Processes \ {Proc[t]} : p \in Mapping(h) <=> p \in Mapping(h)'
      BY <2>1 DEF Mapping, Of
    <3> QED BY <3>1, <3>2 DEF Mapping
  <2> DEFINE new == arax_pipe_mark_unmap(proc_map[g], Proc[t])
  <2>4. proc_map' = [proc_map EXCEPT ![g] = new]
    BY <1>2, <2>0 DEF Unmap
  <2>5. new \in [Cells -> Processes \cup {NoPid, Mixed}] /\ IsMap(new, Mapping(g)')
    <3>1. /\ proc_map[g] \in [Cells -> Processes \cup {NoPid, Mixed}]
          /\ Mapping(g) \in SUBSET Processes /\ IsMap(proc_map[g], Mapping(g))
      BY <1>0
    <3>2. /\ IsFiniteSet(Mapping(g)) /\ Cardinality(Mapping(g)) < MapSize
          /\ Cardinality(Mapping(g)) * CellBytes <= MapSize - 1 + CellBytes - PidBytes
      BY <3>1, Fits
    <3>3. /\ new \in [Cells -> Processes \cup {NoPid, Mixed}]
          /\ IsMap(new, Mapping(g) \ {Proc[t]})
      BY <1>0, <2>2, <3>1, <3>2, MapRemoves, Zenon
    <3> QED BY <2>2, <3>3
  <2> HIDE DEF new
  <2> QED BY <1>0, <2>3, <2>4, <2>5 DEF MapInv
<1>3. CASE ~HaveToMmap(t) /\ ~Unmap(t)
  <2>1. proc_map' = proc_map
    <3>1. CASE Quiet(t)
      BY <3>1, QuietSteps
    <3>2. CASE ~Quiet(t)
      BY <1>3, <3>2, NextCases
      DEF Enter, Spin, OpenShm, AddProcess, Attached, Exit, DelProcess, Clean, pipe
    <3> QED BY <3>1, <3>2
  <2>2. \A g \in Segments : Mapping(g)' = Mapping(g)
    BY <1>3, SetsStep
  <2> QED BY <1>0, <2>1, <2>2 DEF MapInv
<1> QED BY <1>1, <1>2, <1>3

(* Who initialises is counted, so nobody else finds the count at zero.     *)
LEMMA InitialiserStep ==
  ASSUME IsFiniteSet(Processes), LeaversAlone, TypeOK, ThreadsInv, PipeInv, ProcessesCounted,
         OneInitialiser, NEW t \in Threads,
         Enter(t) \/ InitStep(t) \/ SpuriousWake(t) \/ ExitStep(t)
  PROVE  OneInitialiser'
<1> DEFINE Works(l) == l \in {"publish", "setup"}
<1>1. CASE AddProcess(t)
  <2>1. ASSUME NEW u \in Threads, Works(pc[u]), Seg(u) = Seg(t)
        PROVE  processes[Seg(t)] # 0
    <3>1. Seg(u) \in Segments
      BY <2>1, SegIn DEF Unmapped
    <3>2. \A w \in Threads : Proc[w] = Proc[u] /\ w # u => pc[w] \in {"out", "spin"}
      BY <2>1 DEF ThreadsInv, Coming
    <3>3. Proc[u] \in Counted(Seg(u))
      BY <2>1, <3>2 DEF Counted, Uncounted, Of, Seg
    <3> QED BY <2>1, <3>1, <3>3, CountedFinite, FS_EmptySet DEF ProcessesCounted
  <2>2. \A u \in Threads \ {t} : pc'[u] = pc[u] /\ Seg(u)' = Seg(u)
    BY <1>1 DEF AddProcess, TypeOK, Goto, Seg, state
  <2>3. Seg(t)' = Seg(t) /\ (Works(pc'[t]) => processes[Seg(t)] = 0)
    BY <1>1 DEF AddProcess, TypeOK, Goto, Seg, state
  <2> QED BY <2>1, <2>2, <2>3 DEF OneInitialiser
<1>2. CASE ~AddProcess(t)
  <2>1. \A u \in Threads : Works(pc'[u]) => Works(pc[u])
    <3>1. CASE Quiet(t)
      BY <3>1 DEF Quiet, WaitSha, Refuse, ExitAborts, PublishSha, SetupPipe, Good, CheckReady, Wait, SpuriousWake,
                  InitDone, InitDoneNotify, DestroyPipe, Goto, TypeOK
    <3>2. CASE Enter(t) \/ Spin(t) \/ OpenShm(t)
      BY <3>2 DEF Enter, Spin, OpenShm, Goto, TypeOK
    <3>3. CASE HaveToMmap(t) \/ Attached(t)
      BY <3>3 DEF HaveToMmap, Attached, Goto, TypeOK
    <3>4. CASE Exit(t) \/ DelProcess(t) \/ Unmap(t) \/ Clean(t)
      BY <3>4 DEF Exit, DelProcess, Unmap, Clean, Goto, TypeOK
    <3> QED BY <1>2, <3>1, <3>2, <3>3, <3>4, NextCases
  <2>2. \A u \in Threads : Works(pc[u]) => Seg(u)' = Seg(u)
    <3>1. CASE OpenShm(t) \/ Unmap(t)
      <4>1. \A u \in Threads : Works(pc[u]) => Proc[u] # Proc[t]
        BY <3>1 DEF OpenShm, Unmap, ThreadsInv, Coming, Going, LeaversAlone
      <4> QED BY <3>1, <4>1 DEF OpenShm, Unmap, Seg, TypeOK
    <3>2. CASE Quiet(t)
      BY <3>2, QuietSteps DEF Seg
    <3>3. CASE ~Quiet(t) /\ ~OpenShm(t) /\ ~Unmap(t)
      BY <1>2, <3>3, NextCases DEF Enter, Spin, HaveToMmap, Attached, Exit, DelProcess, Clean, Seg, state
    <3> QED BY <3>1, <3>2, <3>3
  <2> QED BY <2>1, <2>2 DEF OneInitialiser
<1> QED BY <1>1, <1>2
(* The types, given the counts.                                            *)
LEMMA TypeStep ==
  ASSUME IsFiniteSet(Threads), IsFiniteSet(Processes), MapFits, LeaversAlone, IInv, NEW t \in Threads,
         Enter(t) \/ InitStep(t) \/ SpuriousWake(t) \/ ExitStep(t), ThreadsInv', ProcessesCounted'
  PROVE  TypeOK'
<1>0. TypeOK /\ ThreadsInv /\ PipeInv /\ ProcessesCounted /\ MapInv
  BY DEF IInv
<1>1. proc_map' \in [Segments -> [Cells -> Processes \cup {NoPid, Mixed}]]
  BY <1>0, MapStep
<1>2. threads' \in [Processes -> 0 .. Cardinality(Threads)]
  <2>1. threads' = [p \in Processes |-> threads'[p]]
    <3>1. CASE Quiet(t)
      BY <1>0, <3>1, QuietSteps DEF TypeOK
    <3>2. CASE ~Quiet(t)
      BY <1>0, <3>2, NextCases DEF TypeOK, Enter, Spin, OpenShm, HaveToMmap, AddProcess, Attached, Exit,
                                   DelProcess, Unmap, Clean, state
    <3> QED BY <3>1, <3>2
  <2>2. ASSUME NEW p \in Processes PROVE threads'[p] \in 0 .. Cardinality(Threads)
    <3>1. Inside(p)' \subseteq Threads /\ threads'[p] = Cardinality(Inside(p)')
      BY DEF Inside, ThreadsInv
    <3>2. Cardinality(Inside(p)') \in Nat /\ Cardinality(Inside(p)') <= Cardinality(Threads)
      BY <3>1, FS_Subset, FS_CardinalityType
    <3> QED BY <3>1, <3>2, FS_CardinalityType
  <2> QED BY <2>1, <2>2
<1>3. processes' \in [Segments -> 0 .. Cardinality(Processes)]
  <2>1. processes' = [g \in Segments |-> processes'[g]]
    <3>1. CASE Quiet(t)
      BY <1>0, <3>1, QuietSteps DEF TypeOK
    <3>2. CASE ~Quiet(t)
      BY <1>0, <3>2, NextCases DEF TypeOK, Enter, Spin, OpenShm, HaveToMmap, AddProcess, Attached, Exit,
                                   DelProcess, Unmap, Clean, pipe
    <3> QED BY <3>1, <3>2
  <2>2. ASSUME NEW g \in Segments PROVE processes'[g] \in 0 .. Cardinality(Processes)
    <3>1. Counted(g)' \subseteq Processes /\ processes'[g] = Cardinality(Counted(g)')
      BY DEF Counted, ProcessesCounted
    <3>2. Cardinality(Counted(g)') \in Nat /\ Cardinality(Counted(g)') <= Cardinality(Processes)
      BY <3>1, FS_Subset, FS_CardinalityType
    <3> QED BY <3>1, <3>2, FS_CardinalityType
  <2> QED BY <2>1, <2>2
<1>4. /\ pc' \in [Threads -> PC] /\ calls' \in [Threads -> 0 .. MaxCalls]
      /\ linked' \in BOOLEAN /\ segment' \in 0 .. MaxSegments
      /\ vpipe' \in [Processes -> 0 .. MaxSegments] /\ initialized' \in [Processes -> BOOLEAN]
      /\ rev' \in Builds /\ sha' \in [Segments -> Revisions \cup {NoRev}] /\ up' \in [Segments -> BOOLEAN]
      /\ cntrl_ready' \in [Segments -> BOOLEAN]
  <2> USE <1>0 DEF TypeOK, Goto, PC, segments, pipe, state
  <2>1. CASE Quiet(t)
    BY <2>1, QuietSteps
  <2>2. CASE Enter(t)
    BY <2>2 DEF Enter
  <2>3. CASE OpenShm(t)
    <3>1. segment' \in 0 .. MaxSegments /\ linked' \in BOOLEAN
      BY <2>3 DEF OpenShm
    <3> QED BY <2>3, <3>1 DEF OpenShm
  <2>4. CASE Spin(t) \/ HaveToMmap(t) \/ AddProcess(t) \/ Attached(t)
    BY <2>4 DEF Spin, HaveToMmap, AddProcess, Attached
  <2>5. CASE Exit(t) \/ DelProcess(t) \/ Clean(t)
    BY <2>5 DEF Exit, DelProcess, Clean
  <2>6. CASE Unmap(t)
    BY <2>6 DEF Unmap
  <2> QED BY <2>1, <2>2, <2>3, <2>4, <2>5, <2>6, NextCases
<1> QED BY <1>1, <1>2, <1>3, <1>4 DEF TypeOK

(* At the start nobody is inside and nothing is mapped.                    *)
LEMMA AttachStart ==
  ASSUME IsFiniteSet(Threads), IsFiniteSet(Processes), Init
  PROVE  IInv
<1>1. /\ \A p \in Processes : Inside(p) = {}
      /\ \A g \in Segments : Counted(g) = {} /\ Mapping(g) = {}
  BY DEF Init, Inside, Counted, Mapping, Segments
<1>2. Cardinality({}) = 0 /\ Cardinality(Threads) \in Nat /\ Cardinality(Processes) \in Nat
  BY FS_EmptySet, FS_CardinalityType
<1>3. TypeOK
  <2>1. 0 \in 0 .. MaxSegments /\ 0 \in 0 .. MaxCalls /\ 0 \in 0 .. Cardinality(Threads)
        /\ 0 \in 0 .. Cardinality(Processes)
    BY <1>2
  <2>2. proc_map \in [Segments -> [Cells -> Processes \cup {NoPid, Mixed}]]
    BY DEF Init
  <2> QED BY <2>1, <2>2 DEF Init, TypeOK, PC
<1>4. ThreadsInv
  BY <1>1, <1>2 DEF Init, ThreadsInv, Coming, Going
<1>5. PipeInv
  BY DEF Init, PipeInv, Unmapped
<1>6. ProcessesCounted
  BY <1>1, <1>2 DEF Init, ProcessesCounted
<1>7. MapInv
  <2>1. \A c \in Cells : ~(c < 0)
    BY DEF Cells
  <2>2. ASSUME NEW g \in Segments PROVE IsMap(proc_map[g], {})
    <3>1. \A c \in Cells : proc_map[g][c] = NoPid
      BY DEF Init
    <3> QED BY <1>2, <2>1, <3>1 DEF IsMap
  <2> QED BY <1>1, <2>2 DEF MapInv
<1>8. OneInitialiser
  BY DEF Init, OneInitialiser
<1> QED BY <1>3, <1>4, <1>5, <1>6, <1>7, <1>8 DEF IInv

(* No step, of any thread in any order, leaves the invariant.  It holds    *)
(* for any number of processes, as long as their pids fit the map, and     *)
(* with any threads in them, as long as those that leave are alone.        *)
THEOREM AttachInvariant ==
  ASSUME IsFiniteSet(Threads), IsFiniteSet(Processes), LeaversAlone, MapFits
  PROVE  Spec => []IInv
<1>1. Init => IInv
  BY AttachStart
<1>2. IInv /\ [Next]_vars => IInv'
  <2> SUFFICES ASSUME IInv, [Next]_vars PROVE IInv'
    OBVIOUS
  <2>0. TypeOK /\ ThreadsInv /\ PipeInv /\ ProcessesCounted /\ MapInv /\ OneInitialiser
    BY DEF IInv
  <2>1. CASE UNCHANGED vars
    <3> USE <2>0, <2>1 DEF vars, segments, pipe, state, Of, Seg
    <3>1. TypeOK'
      BY DEF TypeOK
    <3>2. ThreadsInv'
      BY DEF ThreadsInv, Inside
    <3>3. PipeInv'
      BY DEF PipeInv
    <3>4. ProcessesCounted' /\ MapInv'
      BY DEF ProcessesCounted, MapInv, Counted, Mapping
    <3>5. OneInitialiser'
      BY DEF OneInitialiser
    <3> QED BY <3>1, <3>2, <3>3, <3>4, <3>5 DEF IInv
  <2>2. CASE Next
    <3>1. PICK t \in Threads : Enter(t) \/ InitStep(t) \/ SpuriousWake(t) \/ ExitStep(t)
      BY <2>2 DEF Next
    <3>2. ThreadsInv' /\ PipeInv'
      BY <2>0, <3>1, ThreadsStep, PipeStep
    <3>3. ProcessesCounted' /\ MapInv'
      BY <2>0, <3>1, ProcessesStep, MapStep
    <3>4. OneInitialiser'
      BY <2>0, <3>1, InitialiserStep
    <3>5. TypeOK'
      BY <3>1, <3>2, <3>3, TypeStep
    <3> QED BY <3>2, <3>3, <3>4, <3>5 DEF IInv
  <2> QED BY <2>1, <2>2
<1> QED BY <1>1, <1>2, PTL DEF Spec

(* pipe->processes is the number of attached processes, and proc_map names *)
(* each process that has the segment mapped, once and no other: the bytes  *)
(* that arax_pipe_mark_unmap moves are enough for MapFits processes.       *)
THEOREM AttachProcessesKnown ==
  ASSUME IsFiniteSet(Threads), IsFiniteSet(Processes), LeaversAlone, MapFits
  PROVE  Spec => []ProcessesKnown
<1>1. ASSUME IInv PROVE ProcessesKnown
  <2>1. ASSUME NEW g \in Segments
        PROVE  /\ {proc_map[g][c] : c \in Cells} \ {NoPid} = Mapping(g)
               /\ \A p \in Processes : Cardinality({c \in Cells : proc_map[g][c] = p}) <= 1
    <3> DEFINE map == proc_map[g]
    <3>1. /\ \A c \in Cells : map[c] \in Mapping(g) \/ map[c] = NoPid
          /\ \A c, d \in Cells : map[c] = map[d] /\ map[c] # NoPid => c = d
          /\ \A p \in Mapping(g) : \E c \in Cells : map[c] = p
      BY <1>1 DEF IInv, MapInv, IsMap
    <3>2. Mapping(g) \subseteq Processes
      BY DEF Mapping
    <3>3. {map[c] : c \in Cells} \ {NoPid} = Mapping(g)
      BY <3>1, <3>2
    <3>4. ASSUME NEW p \in Processes PROVE Cardinality({c \in Cells : map[c] = p}) <= 1
      <4> DEFINE S == {c \in Cells : map[c] = p}
      <4>1. CASE S = {}
        BY <4>1, FS_EmptySet
      <4>2. CASE S # {}
        <5>1. PICK c \in S : TRUE
          BY <4>2
        <5>2. S = {c}
          BY <3>1, <5>1
        <5> QED BY <5>2, FS_Singleton
      <4> QED BY <4>1, <4>2
    <3> QED BY <3>3, <3>4
  <2> QED BY <1>1, <2>1 DEF IInv, ProcessesKnown, ProcMapExact
<1> QED BY <1>1, AttachInvariant, PTL

(* No two processes initialise the same segment at the same time.          *)
THEOREM AttachOneInitialiser ==
  ASSUME IsFiniteSet(Threads), IsFiniteSet(Processes), LeaversAlone, MapFits
  PROVE  Spec => []OneInitialiser
<1>1. IInv => OneInitialiser
  BY DEF IInv
<1> QED BY <1>1, AttachInvariant, PTL

=============================================================================
