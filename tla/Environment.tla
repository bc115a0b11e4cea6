----------------------------- MODULE Environment -----------------------------
(***************************************************************************)
(* environment:: and process_environment: the program's environment as     *)
(* the C library (or Windows) keeps it, the queries on it, and what a      *)
(* launcher hands to the child.  The environment is an array of entries.   *)
(* setenv moves the array when it grows, while launchers and views keep    *)
(* pointing to where it was.                                               *)
(***************************************************************************)
EXTENDS EnvText

CONSTANTS
  Keys,        \* the keys the program uses
  Texts,       \* the values it gives them
  Lists,       \* the lists of values it builds entries of
  Given,       \* the environments, [Keys -> value or unset], it gives to children
  Inits,       \* the arrays of entries it may have been started with
  unset,       \* no value
  Programs,    \* the names of executables it looks for
  Executables, \* the sets of executable files, paths <<directory, name>>, there may be
  BufLen,      \* GetEnvironmentVariable is given buffers of this many characters
  MaxBlocks,   \* bound: arrays allocated
  MaxCalls     \* bound: calls made by the program

PATH     == <<"P">>             \* "PATH"; the names are shortened
PATHEXT  == <<"P", "X">>
HomeKeys == IF windows THEN <<<<"H", "A">>, <<"H">>>> ELSE <<<<"H">>>>
freed    == <<"freed">>

VARIABLES
  block,       \* [1..MaxBlocks -> the entries in it, or freed], arrays in memory
  used,        \* how many arrays have been allocated
  environ,     \* the array that is the program's environment
  env,         \* default_launcher::env: the array the launcher points to, 0: NULL
  fresh,       \* the launcher was given no environment and none was set since it was made
  executable,  \* the executable files
  request,     \* the last call
  answer,      \* what it returned
  child,       \* the entries of the last child, or freed memory
  iter,        \* the iterator over a current_view: its array, position and end, and
               \* whether no key was added or removed since
  seen,        \* the keys it has visited
  calls        \* the number of calls

state == <<block, used, environ>>
view  == <<iter, seen>>
vars  == <<state, env, fresh, executable, request, answer, child, view, calls>>

entries == block[environ]

Idle == [at |-> 0, pos |-> 0, end |-> 0, steady |-> TRUE]

Init ==
  /\ \E e \in Inits : block = [b \in 1..MaxBlocks |-> IF b = 1 THEN e ELSE <<>>]
  /\ used = 1 /\ environ = 1
  /\ env = (IF windows THEN 0 ELSE 1)
  /\ fresh = TRUE
  /\ executable \in Executables
  /\ request = <<"none">> /\ answer = <<"none">>
  /\ child = <<>>
  /\ iter = Idle /\ seen = <<>>
  /\ calls = 0

Call(r) == calls < MaxCalls /\ calls' = calls + 1 /\ request' = r

-------------------------------------------------------------------------------
(***************************************************************************)
(* set and unset: setenv and unsetenv refuse an empty key and one with a   *)
(* '='.  An entry is replaced where it is; a new one makes setenv move the *)
(* array, and free the previous one if it had allocated it.                *)
(***************************************************************************)
Defines(t, k) == \E i \in DOMAIN t : t[i] = equality_sign /\ SameKey(SubSeq(t, 1, i - 1), k)
IsKey(k) == k # <<>> /\ Find(k, equality_sign) = 0
\* The entries with the key k, and those the system takes for the variable k: "k=...".
Has(e, k)  == {i \in DOMAIN e : SameKey(Key[e[i]], k)}
Vars(e, k) == {i \in DOMAIN e : Defines(e[i], k)}

setenv(k, v) ==
  IF Vars(entries, k) # {}
    THEN /\ block' = [block EXCEPT ![environ][Min(Vars(entries, k))] = Entry(k, v)]
         /\ UNCHANGED <<used, environ>>
    ELSE /\ used < MaxBlocks
         /\ used' = used + 1
         /\ environ' = used'
         /\ block' = [block EXCEPT ![used'] = Append(entries, Entry(k, v)),
                                   ![environ] = IF environ = 1 THEN @ ELSE freed]

Without(e, k) == FoldLeft(LAMBDA rest, t : IF Defines(t, k) THEN rest ELSE Append(rest, t), <<>>, e)

unsetenv(k) ==
  /\ block' = [block EXCEPT ![environ] = Without(@, k)]
  /\ UNCHANGED <<used, environ>>

Change(r, k, how) ==
  /\ Call(r)
  /\ IF IsKey(k) THEN how /\ answer' = <<"ok">> /\ fresh' = FALSE
                 ELSE answer' = <<"error">> /\ UNCHANGED <<state, fresh>>
  /\ iter' = [iter EXCEPT !.steady =
                 iter = Idle \/ (@ /\ environ' = environ /\ Len(entries') = Len(entries))]
  /\ UNCHANGED <<env, executable, child, seen>>

set(k, v) == Change(<<"set", k, v>>, k, setenv(k, v))

set_list(k, vs) ==
  LET t == EntryOfList(k, vs)
  IN  Change(<<"set_list", k, vs>>, k, setenv(Key[t], Value[t]))

unset_key(k) == Change(<<"unset", k>>, k, unsetenv(k))

-------------------------------------------------------------------------------
(***************************************************************************)
(* Queries.  find_key takes the first entry with the key.  get asks the C  *)
(* library; on Windows a value that does not fit in the buffer is read     *)
(* into one of the right size, but not read again.                         *)
(***************************************************************************)
Reply(r, a) ==
  /\ Call(r)
  /\ answer' = a
  /\ UNCHANGED <<state, env, fresh, executable, child, view>>

find_key(e, k) == IF Has(e, k) = {} THEN <<>> ELSE Value[e[Min(Has(e, k))]]

\* What get may return for v.
Reads(v) ==
  IF ~windows \/ (v # <<>> /\ Len(v) < BufLen) THEN {<<"value", v>>}
  ELSE IF v = <<>> THEN {<<"error">>, <<"value", v>>}
  ELSE {<<"value", <<>>>>}

get(k) ==
  LET at == Vars(entries, k)
  IN  \E a \in (IF at = {} THEN {<<"error">>} ELSE Reads(Value[entries[Min(at)]])) :
        Reply(<<"get", k>>, a)

list(k) == Reply(<<"list", k>>, <<"list", Elements(find_key(entries, k))>>)

home == Reply(<<"home">>,
              <<"value", FlattenSeq([i \in DOMAIN HomeKeys |-> find_key(entries, HomeKeys[i])])>>)

(***************************************************************************)
(* find_executable tries each directory of PATH in turn and, on Windows,   *)
(* in each of them the name as it is and with each extension.              *)
(***************************************************************************)
Extensions == IF windows THEN <<<<>>>> \o Elements(find_key(entries, PATHEXT)) ELSE <<<<>>>>

is_executable(dir, n) == <<dir, n>> \in executable

find_executable(name) ==
  LET dirs == Elements(find_key(entries, PATH))
      hits == {h \in (DOMAIN dirs) \X (DOMAIN Extensions) :
                 is_executable(dirs[h[1]], name \o Extensions[h[2]])}
      hit  == CHOOSE h \in hits : \A g \in hits : h[1] < g[1] \/ (h[1] = g[1] /\ h[2] <= g[2])
  IN  Reply(<<"find_executable", name>>,
            IF hits = {} THEN <<"none">>
            ELSE <<"path", dirs[hit[1]], name \o Extensions[hit[2]]>>)

-------------------------------------------------------------------------------
(***************************************************************************)
(* current_view: on POSIX the environment itself, on Windows a copy.  A    *)
(* range-for takes the end once, before the first step.                    *)
(***************************************************************************)
\* Mutant: the end is one entry early.
find_end_Early(e) == Len(e)

find_end(e) == Len(e) + 1

begin ==
  /\ Call(<<"begin">>)
  /\ iter = Idle
  /\ seen' = <<>>
  /\ IF windows
       THEN /\ used < MaxBlocks
            /\ used' = used + 1
            /\ block' = [block EXCEPT ![used'] = entries]
            /\ UNCHANGED environ
       ELSE UNCHANGED state
  /\ iter' = [at |-> IF windows THEN used' ELSE environ, pos |-> 1, end |-> find_end(entries),
               steady |-> TRUE]
  /\ UNCHANGED <<env, fresh, executable, answer, child>>

\* What the iterator points to: past the terminator, or in a freed array, anything.
dereference ==
  IF block[iter.at] = freed \/ iter.pos > Len(block[iter.at]) THEN freed
  ELSE Key[block[iter.at][iter.pos]]

next ==
  /\ iter # Idle /\ iter.pos # iter.end
  /\ seen' = Append(seen, dereference)
  /\ iter' = [iter EXCEPT !.pos = @ + 1]
  /\ UNCHANGED <<state, env, fresh, executable, request, answer, child, calls>>

finish ==
  /\ iter # Idle /\ iter.pos = iter.end
  /\ iter' = Idle
  /\ block' = IF windows THEN [block EXCEPT ![iter.at] = freed] ELSE block
  /\ UNCHANGED <<used, environ, env, fresh, executable, request, answer, child, seen, calls>>

-------------------------------------------------------------------------------
(***************************************************************************)
(* Launching.  default_launcher takes environ when it is constructed (on   *)
(* Windows a null pointer, for which CreateProcess takes the environment   *)
(* of the moment).  process_environment copies pairs into entries, points  *)
(* the launcher to them and goes away after the launch: a launcher that is *)
(* used again still points to where they were.                             *)
(***************************************************************************)
build_env(m) == [i \in 1..Cardinality({k \in Keys : m[k] # unset}) |->
                   LET k == SetToSeq({j \in Keys : m[j] # unset})[i] IN Entry(k, m[k])]

NewLauncher ==
  /\ Call(<<"launcher">>)
  /\ env' = (IF windows THEN 0 ELSE environ)
  /\ fresh' = TRUE
  /\ UNCHANGED <<state, executable, answer, child, view>>

CreateProcess(e) == child' = IF e = 0 THEN entries ELSE block[e]

\* A process constructed with a launcher of its own.
LaunchDefault ==
  /\ Call(<<"launch">>)
  /\ CreateProcess(IF windows THEN 0 ELSE environ)
  /\ UNCHANGED <<state, env, fresh, executable, answer, view>>

\* A launcher called without a process_environment.
LaunchAgain ==
  /\ Call(<<"launch_again">>)
  /\ CreateProcess(env)
  /\ UNCHANGED <<state, env, fresh, executable, answer, view>>

LaunchWith(m) ==
  /\ Call(<<"launch_with", m>>)
  /\ used < MaxBlocks
  /\ used' = used + 1
  /\ child' = build_env(m)
  /\ block' = [block EXCEPT ![used'] = freed]
  /\ env' = used'
  /\ fresh' = FALSE
  /\ UNCHANGED <<environ, executable, answer, view>>

-------------------------------------------------------------------------------
Next ==
  \/ \E k \in Keys : get(k) \/ unset_key(k) \/ list(k)
  \/ \E k \in Keys, v \in Texts : set(k, v)
  \/ \E k \in Keys, vs \in Lists : set_list(k, vs)
  \/ home
  \/ \E n \in Programs : find_executable(n)
  \/ begin \/ next \/ finish
  \/ NewLauncher \/ LaunchDefault \/ LaunchAgain
  \/ \E m \in Given : LaunchWith(m)

Spec == Init /\ [][Next]_vars

(***************************************************************************)
(* The program sees and hands out a map, whatever the entries look like:   *)
(* a '=' in a value, an entry without one, a key in two spellings, a key   *)
(* that occurs twice, and lists with empty elements.                       *)
(***************************************************************************)
MapOf(e) ==
  IF e = freed THEN freed
  ELSE [k \in Keys |-> LET at == Has(e, k) IN IF at = {} THEN unset ELSE Value[e[Min(at)]]]

Map == INSTANCE EnvMap WITH
  map <- MapOf(entries), child <- MapOf(child), Same <- SameKey,
  Refused <- {k \in Keys : ~IsKey(k)},
  Readable <- {v \in Texts : Reads(v) = {<<"value", v>>}},
  delim <- delimiter,  Path <- PATH, PathExt <- PATHEXT

IsMap == [][Map!Next]_Map!vars

(***************************************************************************)
(* A loop over current() visits every key, in order and once, if no key    *)
(* is added or removed in its body (values may change); on Windows it may  *)
(* even do that.                                                           *)
(***************************************************************************)
VisitsEachKey ==
  iter # Idle /\ iter.pos = iter.end /\ (windows \/ iter.steady) =>
    seen = [i \in DOMAIN block[iter.at] |-> Key[block[iter.at][i]]]

===============================================================================
