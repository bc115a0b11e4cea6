------------------------------ MODULE Commands ------------------------------
(***************************************************************************)
(* The arguments of a child of version 2: the vector that the POSIX         *)
(* launcher builds and the command line that the Windows launchers write,   *)
(* and the class shell, which takes a command line of the user apart.       *)
(***************************************************************************)
EXTENDS Quoting

CONSTANTS
  windows,    \* whether the code is compiled for Windows
  Lines,      \* the programs and arguments that a launcher is given
  Typed,      \* the words of which the user writes a command line for a shell
  Broken,     \* the command lines that no shell takes
  Shells,     \* the objects of class shell
  SsoLen,     \* the longest text that a string keeps within itself
  MaxCalls,   \* bound: calls made by the program
  unset, none, null

VARIABLES
  launcher,   \* argv_ of the program's POSIX launcher
  shell,      \* [Shells -> [array, words, line, view, meant], or none]
  live,       \* the arrays of words that wordexp allocated and nobody freed
  wanted,     \* the argv the caller may expect, or unset
  child,      \* the argv the last child got, or none
  calls       \* the number of calls

vars == <<launcher, shell, live, wanted, child, calls>>

Init ==
  /\ launcher = <<>> /\ shell = [s \in Shells |-> none] /\ live = {}
  /\ wanted = unset /\ child = none /\ calls = 0

\* Launches come last: they change nothing for the shells.
Call == calls < MaxCalls /\ calls' = calls + 1 /\ child = none

-------------------------------------------------------------------------------
(***************************************************************************)
(* The command line of the Windows launchers: each argument is measured,   *)
(* the string gets that size, and then they are written one after another.  *)
(***************************************************************************)
needs_escape(w) == Has(w, {Space}) /\ ~(Head(w) = Quote /\ Last(w) = Quote)

\* Mutant: quotes are not counted.
escaped_argv_length_Quotes(w) == IF w = <<>> THEN 2 ELSE IF needs_escape(w) THEN Len(w) + 2 ELSE Len(w)

escaped_argv_length(w) ==
  IF w = <<>> THEN 2 ELSE IF needs_escape(w) THEN Len(w) + Count(w, Quote) + 2 ELSE Len(w)

\* Nothing is written when it does not fit.
escape_argv_string(max_size, w) ==
  CASE escaped_argv_length(w) > max_size -> <<>>
    [] escaped_argv_length(w) <= max_size ->
         IF w = <<>> THEN <<Quote, Quote>>
         ELSE IF needs_escape(w) THEN Quoted(Replace(w, Quote, <<Backslash, Quote>>)) ELSE w

RequiredSize(ws) == FoldLeft(LAMBDA n, w : n + 1 + escaped_argv_length(w), escaped_argv_length(Head(ws)), Tail(ws))
Filled(size, line) == [i \in 1..size |-> IF i <= Len(line) THEN line[i] ELSE Space]

build_command_line(ws) ==
  LET size == RequiredSize(ws)
  IN  Filled(size, Run(LAMBDA line, w : line \o <<Space>> \o escape_argv_string(size - Len(line) - 1, w),
                       escape_argv_string(size, Head(ws)), Tail(ws)))

\* What it can express: argv[0] is read without escapes; quotes need a space beside them.
Unslashed(w) == \A i \in DOMAIN w : w[i] = Backslash => i < Len(w) /\ w[i + 1] # Quote
ForRuntime(w) == IF w # <<>> /\ needs_escape(w) THEN Unslashed(w) ELSE ~Has(w, {Tab, Quote})
Expressible(ws) ==
  windows => ~Has(Head(ws), {Quote, Tab}) /\ \A i \in 2..Len(ws) : ForRuntime(ws[i])

-------------------------------------------------------------------------------
(***************************************************************************)
(* A launch with arguments.  A POSIX launcher that is used again appends to *)
(* what it built before, and exec reads up to the first null: nothing is    *)
(* promised of it.                                                         *)
(***************************************************************************)
build_argv_(old, ws) == old \o ws \o <<null>>
UpToNull(v) == SubSeq(v, 1, (CHOOSE i \in DOMAIN v : v[i] = null /\ \A j \in 1..(i-1) : v[j] # null) - 1)

Launch(ws) ==
  /\ calls < MaxCalls /\ calls' = calls + 1
  /\ child # none => launcher # <<>> /\ ws \in Typed
  /\ launcher' = IF windows THEN launcher ELSE build_argv_(launcher, ws)
  /\ \E line \in {IF windows THEN build_command_line(ws) ELSE <<>>} :
       child' = IF windows THEN RuntimeWords(line) ELSE UpToNull(launcher')
  /\ wanted' = IF Expressible(ws) /\ launcher = <<>> THEN ws ELSE unset
  /\ UNCHANGED <<shell, live>>

-------------------------------------------------------------------------------
(***************************************************************************)
(* shell.  input_ is a view of the text: of the caller's, or of buffer_,    *)
(* which holds a converted or counted one.  A move takes the array of words *)
(* and the buffer along, but the view stays where a short text was.         *)
(***************************************************************************)
Written(w) == LET e == Replace(w, Quote, <<Backslash, Quote>>) IN IF Has(e, {Space}) \/ e = <<>> THEN Quoted(e) ELSE e
LineOf(ws) == Joined([i \in DOMAIN ws |-> Written(ws[i])])

Empty == [array |-> 0, words |-> <<>>, line |-> <<>>, view |-> "caller", meant |-> <<>>]
default(s) == Call /\ shell[s] = none /\ shell' = [shell EXCEPT ![s] = Empty] /\ UNCHANGED <<launcher, live, wanted, child>>

\* parse_: the constructor throws when the line cannot be taken apart.
parse(s, line, meant, view) ==
  /\ Call /\ shell[s] = none
  /\ \E words \in {IF windows THEN RuntimeWords(line) ELSE ShellWords(line)} :
       IF ~windows /\ ShellFails(line) THEN UNCHANGED <<shell, live>>
       ELSE /\ shell' = [shell EXCEPT ![s] = [array |-> calls', words |-> words, line |-> line,
                                              view |-> view, meant |-> meant]]
            /\ live' = live \cup {calls'}
  /\ UNCHANGED <<launcher, wanted, child>>

Moved(o) == [o EXCEPT !.view = IF @ = "buffer" /\ Len(o.line) <= SsoLen THEN "lost" ELSE @]

move_construct(s, t) ==
  /\ Call /\ shell[s] = none /\ shell[t] # none
  /\ shell' = [shell EXCEPT ![s] = Moved(shell[t]), ![t] = Empty]
  /\ UNCHANGED <<launcher, live, wanted, child>>

\* Mutant: what the object held is not freed.
move_assign_Leaks(s, t) ==
  /\ Call /\ shell[s] # none /\ shell[t] # none /\ s # t
  /\ shell' = [shell EXCEPT ![s] = Moved(shell[t]), ![t] = Empty]
  /\ UNCHANGED <<launcher, live, wanted, child>>

\* A temporary takes what the object held, and frees it: also when it is moved to itself.
move_assign(s, t) ==
  /\ Call /\ shell[s] # none /\ shell[t] # none
  /\ shell' = IF s = t THEN [shell EXCEPT ![s] = Empty]
              ELSE [shell EXCEPT ![s] = Moved(shell[t]), ![t] = Empty]
  /\ live' = live \ {shell[s].array}
  /\ UNCHANGED <<launcher, wanted, child>>

destroy(s) ==
  /\ Call /\ shell[s] # none
  /\ shell' = [shell EXCEPT ![s] = none] /\ live' = live \ {shell[s].array}
  /\ UNCHANGED <<launcher, wanted, child>>

\* process(ctx, s.exe(), s.args()): args are all words on POSIX, the text itself on Windows.
launch_shell(s) ==
  /\ Call /\ shell[s] # none /\ shell[s].words # <<>>
  /\ child' = IF windows THEN RuntimeWords(shell[s].line) ELSE shell[s].words
  /\ wanted' = IF windows /\ shell[s].view = "lost" THEN unset ELSE shell[s].meant
  /\ UNCHANGED <<launcher, shell, live>>

Next ==
  \/ \E ws \in Lines : Launch(ws)
  \/ \E s \in Shells : \/ default(s) \/ destroy(s) \/ launch_shell(s)
                       \/ \E ws \in Typed, v \in {"caller", "buffer"} : parse(s, LineOf(ws), ws, v)
                       \/ \E line \in Broken : parse(s, line, unset, "caller")
                       \/ \E t \in Shells : move_construct(s, t) \/ move_assign(s, t)

Spec == Init /\ [][Next]_vars

\* A child gets the arguments its parent gave, as far as they can be expressed: through a
\* launcher used once, or a shell whose short text was not moved.
ArgsKept == wanted # unset => child = wanted

\* Every array of words has one owner, and is freed once, whatever is moved to what.
ArraysOwned ==
  /\ \A s \in Shells : shell[s] # none => shell[s].array \in live \cup {0}
  /\ \A a \in live : Cardinality({s \in Shells : shell[s] # none /\ shell[s].array = a}) = 1
=============================================================================
