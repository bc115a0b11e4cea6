---------------------------- MODULE EnvironmentV1 ----------------------------
(***************************************************************************)
(* environment, native_environment and the initializer env of version 1.   *)
(* An object keeps strings "name=value" and an array of pointers to them,  *)
(* which its queries read: every change has to be followed by reload().    *)
(* An entry, what operator[] returns, keeps such a pointer too.  The object *)
(* native is the program's environment: on POSIX with narrow characters    *)
(* its array is environ itself, else a copy that reload() reads again.     *)
(***************************************************************************)
EXTENDS Integers, Sequences, FiniteSets, FiniteSetsExt, SequencesExt

CONSTANTS
  windows,    \* whether the code is compiled for Windows
  wide,       \* whether the characters are wchar_t
  Own,        \* the objects of class environment: default-constructed, or copied from native
  native,     \* the object of class native_environment, not among Own
  Keys, Texts, Lists,  \* the names, values and lists of values the program uses
  Inits,      \* the environments it may have been started with
  Changes,    \* the sequences of initializers it launches children with
  unset, null, dangling, NoEntry,
  MaxCalls    \* bound: calls made by the program

equal_sign    == "="
env_seperator == IF windows THEN ";" ELSE ":"
PATH          == <<"P">>     \* "PATH"; the names are shortened
Upper(k)      == [i \in DOMAIN k |-> IF k[i] = "p" THEN "P" ELSE k[i]]

Objects  == Own \cup {native}
Buffered == windows \/ wide  \* native_environment reads a copy

VARIABLES
  store,    \* [Objects -> Seq of texts]: the strings; of native, those of the C library
  shown,    \* [Objects -> what the array of pointers shows, or dangling once moved from]
  entry,    \* the entry the program holds: [env, name, data], or NoEntry
  request,  \* the last call
  answer,   \* what it returned
  child,    \* the strings the last child got
  calls     \* the number of calls

vars == <<store, shown, entry, request, answer, child, calls>>

Init ==
  /\ \E e \in Inits, C \in {{}, Own} : store = [o \in Objects |-> IF o \in C \cup {native} THEN e ELSE <<>>]
  /\ shown = store
  /\ entry = NoEntry /\ request = <<"none">> /\ answer = <<"none">> /\ child = <<>> /\ calls = 0

Usable == {o \in Objects : shown[o] # dangling}

-------------------------------------------------------------------------------
(***************************************************************************)
(* The strings of an object, whose name ends at the first '='.             *)
(***************************************************************************)
String(k, v)  == k \o <<equal_sign>> \o v
Prefix(k)     == Append(k, equal_sign)
NameEnd(t)    == Min({i \in DOMAIN t : t[i] = equal_sign})
NameOf(t)     == SubSeq(t, 1, NameEnd(t) - 1)
ValueOf(t)    == SubSeq(t, NameEnd(t) + 1, Len(t))
Lowest(S)     == IF S = {} THEN 0 ELSE Min(S)

\* Where a string with the name k is.
Position(es, k) == Lowest({i \in DOMAIN es : IsPrefix(Prefix(k), es[i])})

\* set and reset of an environment.  On Windows the strings are one block: its first string is
\* compared, the others are searched for behind the NUL that precedes them, and set appends.
ResetIn(es, k) ==
  IF ~windows THEN LET i == Position(es, k) IN IF i = 0 THEN es ELSE RemoveAt(es, i)
  ELSE LET rest == IF es # <<>> /\ IsPrefix(Prefix(k), es[1]) THEN Tail(es) ELSE es
           i    == Lowest({j \in DOMAIN rest : j > 1 /\ IsPrefix(Prefix(k), rest[j])})
       IN  IF i = 0 THEN rest ELSE RemoveAt(rest, i)

SetIn(es, k, v) ==
  LET i == Position(es, k)
  IN  IF ~windows /\ i # 0 THEN [es EXCEPT ![i] = String(k, v)]
                           ELSE Append(ResetIn(es, k), String(k, v))

\* setenv and unsetenv, SetEnvironmentVariable: they refuse an empty name.
SystemSet(es, k, v) ==
  LET i == Position(es, k)
  IN  IF i # 0 THEN [es EXCEPT ![i] = String(k, v)] ELSE Append(es, String(k, v))
SystemReset(es, k) == SelectSeq(es, LAMBDA t : ~IsPrefix(Prefix(k), t))

Refuses(o, k) == o = native /\ k = <<>>
After(o, k, v) ==
  CASE o = native /\ v = unset -> SystemReset(store[o], k)
    [] o = native /\ v # unset -> SystemSet(store[o], k, v)
    [] o # native /\ v = unset -> ResetIn(store[o], k)
    [] o # native /\ v # unset -> SetIn(store[o], k, v)

\* What set and reset leave in the array: they reload it, but for the copies of native.
Reloads(o) == ~(o = native /\ Buffered)
Array(o, k, v) == IF Reloads(o) THEN After(o, k, v) ELSE shown[o]

-------------------------------------------------------------------------------
(***************************************************************************)
(* find compares with a string longer than "name=": a variable without a   *)
(* value is not found.                                                     *)
(***************************************************************************)
Finds(es, k) == Lowest({i \in DOMAIN es : IsPrefix(Prefix(k), es[i]) /\ Len(es[i]) > Len(Prefix(k))})
find(o, k)   == Finds(shown[o], k)

\* What only asks comes last: it changes nothing for the calls that would follow.
Call(r)   == calls < MaxCalls - 1 /\ calls' = calls + 1 /\ request' = r
Ask(r)    == calls < MaxCalls /\ calls' = MaxCalls /\ request' = r
Reply(a)  == answer' = a /\ UNCHANGED <<store, shown, entry, child>>
Forget(O) == entry' = IF entry # NoEntry /\ entry.env \in O THEN NoEntry ELSE entry

\* erase and emplace: the change, then reload().
Put(o, k, v) ==
  /\ IF Refuses(o, k) THEN answer' = <<"error">> /\ UNCHANGED <<store, shown>>
     ELSE /\ answer' = <<"ok">>
          /\ store' = [store EXCEPT ![o] = After(o, k, v)]
          /\ shown' = [shown EXCEPT ![o] = store'[o]]
  /\ Forget({o}) /\ UNCHANGED child

erase(o, k) == Call(<<"erase", o, k>>) /\ Put(o, k, unset)

emplace(o, k, v) ==
  /\ Call(<<"emplace", o, k, v>>)
  /\ IF find(o, k) # 0 THEN Reply(<<"there", ValueOf(shown[o][find(o, k)])>>) ELSE Put(o, k, v)

\* clear resets each of the names it reads first; native_environment throws at a refused one.
clear(o) ==
  /\ Call(<<"clear", o>>)
  /\ store' = [store EXCEPT ![o] =
       FoldLeft(LAMBDA es, t : IF o = native THEN SystemReset(es, NameOf(t)) ELSE ResetIn(es, NameOf(t)),
                @, shown[o])]
  /\ shown' = [shown EXCEPT ![o] = store'[o]]
  /\ answer' = <<"ok">> /\ Forget({o}) /\ UNCHANGED child

-------------------------------------------------------------------------------
(***************************************************************************)
(* Copies of native and of other objects load an array of their own; a     *)
(* move takes the strings and the array along.                             *)
(***************************************************************************)
copy(o, p) ==
  /\ Call(<<"copy", o, p>>)
  /\ store' = [store EXCEPT ![o] = store[p]]
  /\ shown' = [shown EXCEPT ![o] = store'[o]]
  /\ answer' = <<"ok">> /\ Forget({o}) /\ UNCHANGED child

move(o, p) ==
  /\ Call(<<"move", o, p>>)
  /\ o # p
  /\ store' = [store EXCEPT ![o] = store[p], ![p] = <<>>]
  /\ shown' = [shown EXCEPT ![o] = shown[p], ![p] = dangling]
  /\ answer' = <<"ok">> /\ Forget({o, p}) /\ UNCHANGED child

-------------------------------------------------------------------------------
(***************************************************************************)
(* entry.  After each change it looks itself up, and then has its object   *)
(* read the strings again: where they are copies, its pointer is left      *)
(* dangling when its name was in the previous copy, and null when not.     *)
(***************************************************************************)
index(o, k) ==
  LET i == find(o, k)
  IN  /\ Call(<<"index", o, k>>)
      /\ entry' = [env |-> o, name |-> k, data |-> IF i = 0 THEN null ELSE ValueOf(shown[o][i])]
      /\ answer' = <<"empty", i = 0>>
      /\ UNCHANGED <<store, shown, child>>

\* Mutant: the entry keeps its pointer.
entry_reload_Not(o, k, es) == entry.data

\* What _data is after reload(), when the array shows es before.
entry_reload(o, k, es) ==
  LET i == Finds(es, k)
  IN  IF i = 0 THEN null ELSE IF Reloads(o) THEN ValueOf(es[i]) ELSE dangling

ViaEntry(r, v) ==
  LET o == entry.env
      k == entry.name
  IN  /\ Call(r)
      /\ entry # NoEntry
      /\ IF Refuses(o, k) THEN answer' = <<"error">> /\ UNCHANGED <<store, shown, entry>>
         ELSE /\ answer' = <<"ok">>
              /\ store' = [store EXCEPT ![o] = After(o, k, v)]
              /\ shown' = [shown EXCEPT ![o] = store'[o]]
              /\ entry' = [entry EXCEPT !.data = IF v = unset THEN null
                                                 ELSE entry_reload(o, k, Array(o, k, v))]
      /\ UNCHANGED child

\* Joins the values; the separator goes before each but the first.
Joined(vs) ==
  FlattenSeq([i \in DOMAIN vs |-> IF i = 1 THEN vs[i] ELSE <<env_seperator>> \o vs[i]])

assign(v)       == ViaEntry(<<"assign", v>>, v)
assign_list(vs) == ViaEntry(<<"assign_list", vs>>, Joined(vs))
append(v)       == entry # NoEntry /\ entry.data # dangling
                   /\ ViaEntry(<<"append", v>>, IF entry.data = null THEN v
                                                ELSE entry.data \o <<env_seperator>> \o v)
entry_clear     == ViaEntry(<<"clear_entry">>, unset)

\* to_vector: boost::split between the separators.
Split(v) ==
  LET step(parts, c) == IF c = env_seperator THEN Append(parts, <<>>)
                        ELSE [parts EXCEPT ![Len(parts)] = Append(@, c)]
  IN  FoldLeft(step, <<<<>>>>, v)

\* get_name, to_string and to_vector.
read ==
  /\ entry # NoEntry /\ entry.data # dangling
  /\ Ask(<<"read">>)
  /\ Reply(IF entry.data = null THEN <<entry.name, <<>>, <<>>>>
           ELSE <<entry.name, entry.data, Split(entry.data)>>)

-------------------------------------------------------------------------------
(***************************************************************************)
(* Queries.                                                                *)
(***************************************************************************)
count(o, k) == Ask(<<"count", o, k>>) /\ Reply(<<"count", IF find(o, k) = 0 THEN 0 ELSE 1>>)

at(o, k) ==
  /\ Ask(<<"at", o, k>>)
  /\ Reply(IF find(o, k) = 0 THEN <<"out_of_range">> ELSE <<"value", ValueOf(shown[o][find(o, k)])>>)

\* A loop from begin() to end(), and size().
visit(o) ==
  /\ Ask(<<"visit", o>>)
  /\ Reply(<<"all", {<<NameOf(t), ValueOf(t)>> : t \in ToSet(shown[o])}, Len(shown[o])>>)

\* this_process::path(): of the first variable whose name is PATH in capitals.
search_path ==
  LET i == Lowest({j \in DOMAIN store[native] : Upper(NameOf(store[native][j])) = PATH})
  IN  Ask(<<"path">>) /\ Reply(<<"list", IF i = 0 THEN <<>> ELSE Split(ValueOf(store[native][i]))>>)

-------------------------------------------------------------------------------
(***************************************************************************)
(* The initializer env: env_builder starts from a copy of native, applies  *)
(* each env_set, env_append, env_reset and env_init, and moves the result  *)
(* into the env_init whose array the executor gives to the child.          *)
(***************************************************************************)
\* make_env_string: each value and a separator, the last one of which is cut off.
make_env_string(vs) ==
  LET s == FlattenSeq([i \in DOMAIN vs |-> Append(vs[i], env_seperator)]) IN SubSeq(s, 1, Len(s) - 1)

Build(es, c) ==
  CASE c[1] = "init"     -> store[c[2]]
    [] c[1] = "set"      -> SetIn(es, c[2], c[3])
    [] c[1] = "set_list" -> SetIn(es, c[2], make_env_string(c[3]))
    [] c[1] = "append"   -> LET i == Finds(es, c[2])
                            IN  SetIn(es, c[2], IF i = 0 THEN c[3]
                                                ELSE ValueOf(es[i]) \o <<env_seperator>> \o c[3])
    [] c[1] = "reset"    -> ResetIn(es, c[2])

\* on_setup of env_init; Windows refuses an environment without strings.
Given(es) ==
  IF windows /\ es = <<>> THEN answer' = <<"error">> /\ UNCHANGED child
                          ELSE answer' = <<"ok">> /\ child' = es

launch(cs) ==
  /\ Ask(<<"launch", cs>>)
  /\ \A i \in DOMAIN cs : cs[i][1] = "init" => cs[i][2] \in Usable
  /\ IF cs = <<>> THEN answer' = <<"ok">> /\ child' = store[native]
     ELSE \E es \in {FoldLeft(Build, store[native], cs)} : Given(es)
  /\ UNCHANGED <<store, shown, entry>>

-------------------------------------------------------------------------------
Next ==
  \/ \E o \in Usable, k \in Keys : erase(o, k) \/ index(o, k) \/ count(o, k) \/ at(o, k)
  \/ \E o \in Usable, k \in Keys, v \in Texts : emplace(o, k, v)
  \/ \E o \in Usable : clear(o) \/ visit(o)
  \/ \E o \in Own, p \in Usable : copy(o, p)
  \/ \E o \in Own, p \in Usable \ {native} : move(o, p)
  \/ \E v \in Texts : assign(v) \/ append(v)
  \/ \E vs \in Lists : assign_list(vs)
  \/ entry_clear \/ read \/ search_path
  \/ \E cs \in Changes : launch(cs)

Spec == Init /\ [][Next]_vars

-------------------------------------------------------------------------------
Defines(t, k) == IsPrefix(Append(k, equal_sign), t)
MapOf(es) ==
  [k \in Keys |-> IF \E i \in DOMAIN es : Defines(es[i], k)
                    THEN LET t == es[CHOOSE i \in DOMAIN es : Defines(es[i], k)]
                         IN  SubSeq(t, Len(k) + 2, Len(t))
                    ELSE unset]

\* Whether the entry shows what its variable is.
Shows == \E i \in {Finds(store[entry.env], entry.name)} :
           IF i = 0 THEN entry.data = null
           ELSE entry.data \notin {null, dangling} /\ entry.data = ValueOf(store[entry.env][i])

Map == INSTANCE EnvMapV1 WITH
  map <- [o \in Objects |-> MapOf(store[o])],
  usable <- Usable,
  held <- IF entry = NoEntry THEN <<>> ELSE <<entry.env, entry.name>>,
  certain <- entry = NoEntry \/ Reloads(entry.env) \/ Shows,
  child <- MapOf(child), Copied <- Buffered,
  Refused <- {<<>>}, delim <- env_seperator, Paths <- {k \in Keys : Upper(k) = PATH}, EmptyFails <- windows

\* The environments of version 1 behave as maps: names that begin with one another, lists,
\* empty values, copies, moves, entries held over changes of their own, and the environment
\* that the initializers build for a child.
IsMapV1 == Map!Spec

\* A step that appends adds to the value the variable has, as the documentation of entries says.
Appends ==
  \A v \in Texts :
    (entry # NoEntry /\ request' = <<"append", v>> /\ calls' > calls /\ answer' = <<"ok">>) =>
    \E old \in {MapOf(store[entry.env])[entry.name]} :
      MapOf(store'[entry.env])[entry.name] =
        IF old = unset \/ old = <<>> THEN v ELSE old \o <<env_seperator>> \o v

==============================================================================
