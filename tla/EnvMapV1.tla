------------------------------- MODULE EnvMapV1 -------------------------------
(***************************************************************************)
(* What native_environment and environment of version 1 promise: each is a *)
(* map from names to values, the first one that of the program; an entry   *)
(* refers to one name in one of them; a child gets the program's map with  *)
(* the changes that the initializers ask for, in their order.  A variable  *)
(* whose value is empty is not found, though the loops visit it.  Nothing  *)
(* is promised of what an entry shows once the program's environment was   *)
(* changed through it, where that environment is read from a copy.         *)
(***************************************************************************)
EXTENDS Integers, Sequences, FiniteSets, SequencesExt

CONSTANTS
  Objects,    \* the environment objects
  native,     \* the one that is the program's environment
  Keys,       \* the names, texts
  Refused,    \* those the system does not accept
  Texts,      \* the values, texts
  Lists,      \* the lists of values
  Changes,    \* the sequences of initializers a launch is given
  delim,      \* the character between the values of a list
  unset,      \* no value
  Copied,     \* whether the program's environment is read from a copy
  Paths,      \* the names that are the search path's, in any spelling
  EmptyFails  \* whether a launch with an empty environment is refused

VARIABLES
  map,      \* [Objects -> [Keys -> a value or unset]]
  usable,   \* the objects that have not been moved from
  held,     \* the variable that the entry at hand refers to, or <<>>
  certain,  \* whether the entry shows its variable
  request, answer,
  child     \* the map of the last child

vars == <<map, usable, held, certain, request, answer, child>>

Absent(v) == v = unset \/ v = <<>>
Empty     == [k \in Keys |-> unset]

Init ==
  /\ usable = Objects /\ held = <<>> /\ certain /\ request = <<"none">>
  /\ \A o \in Objects \ {native} : map[o] \in {Empty, map[native]}

(***************************************************************************)
(* Lists: the texts between the delimiters.                                *)
(***************************************************************************)
Cuts(v)   == {0, Len(v) + 1} \cup {i \in DOMAIN v : v[i] = delim}
Cut(v, n) == CHOOSE c \in Cuts(v) : Cardinality({d \in Cuts(v) : d < c}) = n
Pieces(v) == [n \in 1..Cardinality(Cuts(v)) - 1 |-> SubSeq(v, Cut(v, n - 1) + 1, Cut(v, n) - 1)]
Joins(v, vs) == v # unset /\ vs # <<>> /\ Pieces(v) = vs

Appended(old, v) == IF Absent(old) THEN v ELSE old \o <<delim>> \o v

(***************************************************************************)
(* Changes.  An entry is held only as long as nothing but itself has       *)
(* changed its environment.                                                *)
(***************************************************************************)
Becomes(o, k, v) ==
  IF o = native /\ k \in Refused THEN answer' = <<"error">> /\ UNCHANGED map
  ELSE answer' = <<"ok">> /\ map' = [map EXCEPT ![o][k] = v]

ForgetOf(O) ==
  IF held # <<>> /\ held[1] \in O THEN held' = <<>> /\ certain' ELSE UNCHANGED <<held, certain>>
Forget(o)   == ForgetOf({o})

Erase(o, k) == request' = <<"erase", o, k>> /\ Becomes(o, k, unset) /\ Forget(o) /\ UNCHANGED <<usable, child>>

Emplace(o, k, v) ==
  /\ request' = <<"emplace", o, k, v>>
  /\ IF ~Absent(map[o][k]) THEN answer' = <<"there", map[o][k]>> /\ UNCHANGED <<map, held, certain>>
     ELSE Becomes(o, k, v) /\ Forget(o)
  /\ UNCHANGED <<usable, child>>

Clear(o) ==
  /\ request' = <<"clear", o>>
  /\ map' = [map EXCEPT ![o] = Empty] /\ answer' = <<"ok">>
  /\ Forget(o) /\ UNCHANGED <<usable, child>>

Copy(o, p) ==
  /\ request' = <<"copy", o, p>>
  /\ map' = [map EXCEPT ![o] = map[p]] /\ usable' = usable \cup {o}
  /\ answer' = <<"ok">> /\ Forget(o) /\ UNCHANGED child

Move(o, p) ==
  /\ request' = <<"move", o, p>>
  /\ map' = [map EXCEPT ![o] = map[p], ![p] = Empty] /\ usable' = (usable \cup {o}) \ {p}
  /\ answer' = <<"ok">> /\ ForgetOf({o, p})
  /\ UNCHANGED child

(***************************************************************************)
(* The entry: made by operator[], it reads and writes its variable.        *)
(***************************************************************************)
Index(o, k) ==
  /\ request' = <<"index", o, k>>
  /\ held' = <<o, k>> /\ certain' /\ answer' = <<"empty", Absent(map[o][k])>>
  /\ UNCHANGED <<map, usable, child>>

ViaEntry(r, v) ==
  /\ request' = r /\ held # <<>>
  /\ Becomes(held[1], held[2], v)
  /\ certain' \in (IF Copied /\ held[1] = native THEN BOOLEAN ELSE {TRUE})
  /\ UNCHANGED <<held, usable, child>>

EntryAssign(v)  == ViaEntry(<<"assign", v>>, v)
EntryAppend(v)  ==
  /\ held # <<>> /\ request' = <<"append", v>>
  /\ \E old \in {map[held[1]][held[2]]} :
       \E new \in IF certain THEN {Appended(old, v)} ELSE {map'[held[1]][held[2]]} : ViaEntry(request', new)
EntryClear      == ViaEntry(<<"clear_entry">>, unset)
EntryList(vs)   ==
  /\ held # <<>> /\ request' = <<"assign_list", vs>>
  /\ \E v \in {map'[held[1]][held[2]]} :
       (held[2] \in Refused \/ Joins(v, vs)) /\ ViaEntry(request', v)

EntryRead ==
  /\ request' = <<"read">> /\ held # <<>>
  /\ \E v \in {map[held[1]][held[2]]} :
       certain => answer' = (IF Absent(v) THEN <<held[2], <<>>, <<>>>> ELSE <<held[2], v, Pieces(v)>>)
  /\ UNCHANGED <<map, usable, held, certain, child>>

(***************************************************************************)
(* Queries, and a launch.                                                  *)
(***************************************************************************)
Reply(r, a) == request' = r /\ answer' = a /\ UNCHANGED <<map, usable, held, certain, child>>

Set(o) == {k \in Keys : map[o][k] # unset}

Count(o, k) == Reply(<<"count", o, k>>, <<"count", IF Absent(map[o][k]) THEN 0 ELSE 1>>)
At(o, k)    == Reply(<<"at", o, k>>, IF Absent(map[o][k]) THEN <<"out_of_range">> ELSE <<"value", map[o][k]>>)
Visit(o)    == Reply(<<"visit", o>>, <<"all", {<<k, map[o][k]>> : k \in Set(o)}, Cardinality(Set(o))>>)

SearchPath ==
  /\ request' = <<"path">>
  /\ \E set \in {Paths \cap Set(native)} :
       \E v \in IF set = {} THEN {unset} ELSE {map[native][k] : k \in set} :
         Reply(request', <<"list", IF v = unset THEN <<>> ELSE Pieces(v)>>)

\* A change <<"set", k, v>>, <<"set_list", k, vs>>, <<"append", k, v>>, <<"reset", k>> or <<"init", o>>.
Change(m, c) ==
  CASE c[1] = "set"      -> [m EXCEPT ![c[2]] = c[3]]
    [] c[1] = "set_list" -> [m EXCEPT ![c[2]] = CHOOSE v \in Texts : Joins(v, c[3])]
    [] c[1] = "append"   -> [m EXCEPT ![c[2]] = Appended(@, c[3])]
    [] c[1] = "reset"    -> [m EXCEPT ![c[2]] = unset]
    [] c[1] = "init"     -> map[c[2]]

Launch(cs) ==
  /\ request' = <<"launch", cs>>
  /\ \E m \in {FoldLeft(Change, map[native], cs)} :
       IF EmptyFails /\ cs # <<>> /\ m = Empty THEN answer' = <<"error">> /\ UNCHANGED child
                                               ELSE answer' = <<"ok">> /\ child' = m
  /\ UNCHANGED <<map, usable, held, certain>>

Next ==
  \/ \E o \in usable, k \in Keys : Erase(o, k) \/ Index(o, k) \/ Count(o, k) \/ At(o, k)
  \/ \E o \in usable, k \in Keys, v \in Texts : Emplace(o, k, v)
  \/ \E o \in usable : Clear(o) \/ Visit(o)
  \/ \E o \in Objects \ {native}, p \in usable : Copy(o, p) \/ (p # native /\ Move(o, p))
  \/ \E v \in Texts : EntryAssign(v) \/ EntryAppend(v)
  \/ \E vs \in Lists : EntryList(vs)
  \/ EntryClear \/ EntryRead \/ SearchPath
  \/ \E cs \in Changes : Launch(cs)

Spec == Init /\ [][Next]_vars

===============================================================================
