-------------------------------- MODULE EnvMap --------------------------------
(***************************************************************************)
(* What environment:: promises: an environment is a map from keys to       *)
(* values, some of them lists; a launch gives the child the map it is      *)
(* told to give it, or else the program's.                                 *)
(***************************************************************************)
EXTENDS Integers, Sequences, FiniteSets, FiniteSetsExt, SequencesExt

CONSTANTS
  Keys,           \* the keys, texts
  Same(_, _),     \* whether two of them are the same key
  Refused,        \* the keys that cannot be set
  Texts,          \* the values
  Readable,       \* the values that get is sure to read
  Lists,          \* the lists
  Given,          \* the maps given to children
  unset,          \* no value
  delim,          \* the character between the values of a list
  Path, PathExt,  \* the keys find_executable looks at
  HomeKeys,       \* the keys home looks at
  Programs        \* the names of executables

VARIABLES
  map,         \* [Keys -> a value or unset], the program's environment
  fresh,       \* whether the launcher at hand is as new
  executable,  \* the paths <<directory, name>> of executable files
  request,     \* the last call
  answer,      \* what it returned
  child        \* the environment of the last child

vars == <<map, fresh, executable, request, answer, child>>

Init == fresh = TRUE /\ request = <<"none">>

(***************************************************************************)
(* A list: what is between its delimiters, but for an empty last element.  *)
(***************************************************************************)
Cuts(v) == {0, Len(v) + 1} \cup {i \in DOMAIN v : v[i] = delim}
Cut(v, i) == CHOOSE c \in Cuts(v) : Cardinality({d \in Cuts(v) : d < c}) = i
Pieces[v \in Seq(STRING)] ==
  [i \in {j \in 1..Cardinality(Cuts(v)) - 1 :
            Cut(v, j - 1) < Len(v) \/ j < Cardinality(Cuts(v)) - 1}
     |-> SubSeq(v, Cut(v, i - 1) + 1, Cut(v, i) - 1)]

Of(k) == LET same == {map[i] : i \in {j \in Keys : Same(j, k)}} \ {unset}
         IN  IF same = {} THEN <<>> ELSE CHOOSE v \in same : TRUE

Query == UNCHANGED <<map, fresh, executable, child>>

\* The value of k becomes v, nothing else changes.
Assign(k, v) ==
  /\ UNCHANGED <<executable, child>>
  /\ IF k \in Refused
       THEN answer' = <<"error">> /\ UNCHANGED <<map, fresh>>
       ELSE /\ answer' = <<"ok">>
            /\ fresh' = FALSE
            /\ \E m \in {map} : map' = [j \in Keys |-> IF Same(j, k) THEN v ELSE m[j]]

Set(k, v) == request' = <<"set", k, v>> /\ Assign(k, v)
Unset(k)  == request' = <<"unset", k>> /\ Assign(k, unset)

SetList(k, vs) ==
  /\ request' = <<"set_list", k, vs>>
  /\ \E v \in {map'[k]} : (k \in Refused \/ Pieces[v] = vs) /\ Assign(k, v)

Get(k) ==
  /\ request' = <<"get", k>>
  /\ \E v \in {map[k]} :
       IF v = unset THEN answer' = <<"error">> ELSE v \in Readable => answer' = <<"value", v>>
  /\ Query

List(k) ==
  /\ request' = <<"list", k>>
  /\ \E v \in {Of(k)} : answer' = <<"list", Pieces[v]>>
  /\ Query

Home ==
  /\ request' = <<"home">>
  /\ answer' = <<"value", FlattenSeq([i \in DOMAIN HomeKeys |-> Of(HomeKeys[i])])>>
  /\ Query

\* The first directory that has it, under the first of the names it may have.
FindExecutable(n) ==
  /\ request' = <<"find_executable", n>>
  /\ \E path \in {Of(Path)}, ext \in {Of(PathExt)} :
       \E dirs \in {Pieces[path]}, exts \in {Pieces[ext]} :
         LET names == <<n>> \o [i \in DOMAIN exts |-> n \o exts[i]]
             at(i) == {j \in DOMAIN names : <<dirs[i], names[j]>> \in executable}
             found == {i \in DOMAIN dirs : at(i) # {}}
         IN  answer' = (IF found = {} THEN <<"none">>
                        ELSE <<"path", dirs[Min(found)], names[Min(at(Min(found)))]>>)
  /\ Query

NewLauncher ==
  request' = <<"launcher">> /\ fresh' = TRUE /\ UNCHANGED <<map, executable, answer, child>>

Look == request' = <<"begin">> /\ UNCHANGED <<map, fresh, executable, answer, child>>

Inherit ==
  request' = <<"launch">> /\ child' = map /\ UNCHANGED <<map, fresh, executable, answer>>

\* Through a launcher used before, if it has been set since: anything.
InheritAgain ==
  /\ request' = <<"launch_again">>
  /\ fresh => child' = map
  /\ UNCHANGED <<map, fresh, executable, answer>>

Give(m) ==
  /\ request' = <<"launch_with", m>>
  /\ child' = m
  /\ fresh' = FALSE
  /\ UNCHANGED <<map, executable, answer>>

Next ==
  \/ \E k \in Keys : Get(k) \/ Unset(k) \/ List(k)
  \/ \E k \in Keys, v \in Texts : Set(k, v)
  \/ \E k \in Keys, vs \in Lists : SetList(k, vs)
  \/ Home \/ Look \/ NewLauncher \/ Inherit \/ InheritAgain
  \/ \E n \in Programs : FindExecutable(n)
  \/ \E m \in Given : Give(m)

Spec == Init /\ [][Next]_vars

===============================================================================
