----------------------------- MODULE CommandsV1 -----------------------------
(***************************************************************************)
(* The command of a child of version 1: the texts, paths, exe, args and     *)
(* shell given to a launch, which exe_builder collects in their order and    *)
(* turns into an initializer; the initializer cmd; and the argv and program *)
(* which the child then gets.                                              *)
(***************************************************************************)
EXTENDS Quoting

CONSTANTS
  windows,    \* whether the code is compiled for Windows
  Words,      \* the texts the program gives as arguments
  Programs,   \* and those it names a program by
  Lines,      \* the sequences of words of which it writes command lines
  Files,      \* the files that can be executed
  PathDirs,   \* the directories in PATH
  MaxInits,   \* bound: the initializers of a launch
  unset, none

Slash == "/"
Sh    == <<Slash, "s", "h">>      \* the path of the shell

VARIABLES
  said,       \* the initializers, as the caller gave them
  builder,    \* exe_builder: [exe, args, not_cmd, shell]
  wanted,     \* the argv the caller may expect, or unset
  child       \* what the child got: [file, argv], or none

vars == <<said, builder, wanted, child>>

Init ==
  /\ said = <<>> /\ wanted = unset /\ child = none
  /\ builder = [exe |-> <<>>, args |-> <<>>, not_cmd |-> FALSE, shell |-> FALSE]

-------------------------------------------------------------------------------
(***************************************************************************)
(* exe_builder: the first text is the program, all others are arguments.    *)
(***************************************************************************)
\* Mutant: args = appends.
arg_assign_Appends(ws) == [builder EXCEPT !.args = @ \o ws]

arg_assign(ws) == [builder EXCEPT !.args = ws]
arg_append(ws) == [builder EXCEPT !.args = @ \o ws]
text(w)        == IF builder.exe = <<>> THEN [builder EXCEPT !.exe = w] ELSE arg_append(<<w>>)
path(w)        == [text(w) EXCEPT !.not_cmd = TRUE]
vector(ws)     == IF ws = <<>> THEN builder
                  ELSE IF builder.exe = <<>> THEN [builder EXCEPT !.exe = Head(ws), !.args = @ \o Tail(ws)]
                  ELSE arg_append(ws)
exe_assign(w)  == [builder EXCEPT !.not_cmd = TRUE, !.exe = w]
use_shell      == [builder EXCEPT !.shell = TRUE]

Say(kind, ws, b) ==
  /\ child = none /\ Len(said) < MaxInits
  /\ said' = Append(said, [kind |-> kind, words |-> ws]) /\ builder' = b
  /\ UNCHANGED <<wanted, child>>

Initializer ==
  \/ \E w \in Words : Say("text", <<w>>, text(w))
  \/ \E w \in Programs : Say("path", <<w>>, path(w))
  \/ \E w \in Programs : builder.exe = <<>> /\ Say("exe", <<w>>, exe_assign(w))
  \/ \E ws \in {<<>>} \cup (Programs \X Words) : Say("vector", ws, vector(ws))
  \/ \E ws \in {<<>>} \cup {<<w>> : w \in Words} : \/ Say("args=", ws, arg_assign(ws))
                                                  \/ Say("args+=", ws, arg_append(ws))
  \/ Say("shell", <<>>, use_shell)

-------------------------------------------------------------------------------
(***************************************************************************)
(* Command lines that the library writes.                                  *)
(***************************************************************************)
\* Mutant: an empty argument is left out.
ArgWindows_Empty(w) ==
  IF Has(w, {Space, Quote}) THEN Quoted(Replace(w, Quote, <<Quote, Quote>>)) ELSE w

\* build_args on Windows, of a word and of the whole; the name of the program may be empty.
ArgWindows(w) ==
  IF w = <<>> THEN <<Quote, Quote>>
  ELSE IF Has(w, {Space, Quote}) THEN Quoted(Replace(w, Quote, <<Quote, Quote>>)) ELSE w
LineWindows(exe, args) ==
  Joined((IF exe = <<>> THEN <<>> ELSE <<ArgWindows(exe)>>) \o [i \in DOMAIN args |-> ArgWindows(args[i])])

\* build_cmd_shell on POSIX.
ArgShell(w) ==
  LET e == Replace(w, Quote, <<Backslash, Quote>>) IN IF Has(e, {Space}) THEN Quoted(e) ELSE e
LineShell(exe, args) == Run(LAMBDA l, w : (IF l = <<>> THEN l ELSE Append(l, Space)) \o ArgShell(w), exe, args)

(***************************************************************************)
(* Command lines that it reads: build_args on POSIX splits at spaces        *)
(* outside quotes, strips the outer quotes and unescapes the inner ones;    *)
(* build_cmd of the initializer cmd only splits, and not at a space where a *)
(* word would begin: the word begins with it.                              *)
(***************************************************************************)
Escapes(t, i) == t[i] = Backslash /\ i < Len(t) /\ t[i + 1] = Quote
Unescape(t)   == FlattenSeq([i \in DOMAIN t |-> IF Escapes(t, i) THEN <<>> ELSE <<t[i]>>])
\* Mutant: quotes are kept.
make_entry_Quotes(t) == Unescape(t)

\* A lone quote is its own end: what is assigned of it is undefined (see LaunchLine).
make_entry(t) ==
  Unescape(IF Head(t) = Quote /\ Last(t) = Quote THEN SubSeq(t, 2, Len(t) - 1) ELSE t)

\* Where a line is split: the spaces with an even number of quotes before them.
Splits(line)  == {i \in DOMAIN line : line[i] = Space /\ Count(SubSeq(line, 1, i), Quote) % 2 = 0}
Parts(line)   ==
  LET ends == SetToSortSeq(Splits(line) \cup {0, Len(line) + 1}, <)
  IN  [i \in 1..(Len(ends) - 1) |-> SubSeq(line, ends[i] + 1, ends[i + 1] - 1)]
Reversed(line) == \E i \in DOMAIN Parts(line) : Parts(line)[i] = <<Quote>>
build_args(line) ==
  LET ps == SelectSeq(Parts(line), LAMBDA p : p # <<>>) IN [i \in DOMAIN ps |-> make_entry(ps[i])]

CmdStep(r, c) ==
  LET quoted == (c = Quote) # r.quoted
  IN  IF ~quoted /\ c = Space /\ r.part # <<>>
      THEN [r EXCEPT !.words = Append(@, r.part), !.part = <<>>]
      ELSE [r EXCEPT !.part = Append(@, c), !.quoted = quoted]
build_cmd(line) ==
  LET r == Run(CmdStep, [words |-> <<>>, part |-> <<>>, quoted |-> FALSE], line)
  IN  IF r.part = <<>> THEN r.words ELSE Append(r.words, r.part)

\* cmd_setter_ of wchar_t on POSIX: str() puts the words together again, with '='.
Restored(line) ==
  Run(LAMBDA r, w : (IF r = <<>> THEN r ELSE Append(r, "=")) \o w, <<>>, build_cmd(line))

-------------------------------------------------------------------------------
(***************************************************************************)
(* exe_cmd_init and its on_setup: the program and its arguments.           *)
(***************************************************************************)
\* prepare_cmd_style: a name without '/' is looked for here, and then in PATH.
Found(exe) ==
  LET dirs == SelectSeq(PathDirs, LAMBDA d : (d \o <<Slash>> \o exe) \in Files)
  IN  IF Has(exe, {Slash}) \/ exe \in Files \/ dirs = <<>> THEN exe ELSE Head(dirs) \o <<Slash>> \o exe

Exec(file, argv)  == [file |-> file, argv |-> argv]
CmdStyle(argv)    == Exec(IF argv = <<>> THEN <<>> ELSE Found(Head(argv)), argv)
\* The shell runs the line that it is given.
ThroughShell(line) == IF ShellFails(line) THEN none ELSE CmdStyle(ShellWords(line))
\* CreateProcess takes the program from the line when it is given none.
Create(exe, line) == Exec(IF exe = <<>> THEN Head(RuntimeWords(line)) ELSE exe, RuntimeWords(line))

\* exe_args, exe_args_shell, cmd_shell and cmd.
Launched(b) ==
  LET exe_args == b.not_cmd \/ b.args # <<>>
  IN  CASE windows /\ exe_args -> Create(b.exe, LineWindows(b.exe, b.args))
        [] windows /\ ~exe_args -> Create(<<>>, b.exe)
        [] ~windows /\ exe_args /\ b.shell   -> ThroughShell(LineShell(b.exe, b.args))
        [] ~windows /\ exe_args /\ ~b.shell  -> IF b.exe = <<>> THEN CmdStyle(b.args)
                                                ELSE Exec(b.exe, <<b.exe>> \o b.args)
        [] ~windows /\ ~exe_args /\ b.shell  -> ThroughShell(b.exe)
        [] ~windows /\ ~exe_args /\ ~b.shell -> CmdStyle(build_args(b.exe))

-------------------------------------------------------------------------------
(***************************************************************************)
(* What the caller may expect: the program, then the arguments that follow  *)
(* it or the last args =, provided that they can be expressed.             *)
(***************************************************************************)
Positional(s) == s.kind \in {"text", "path", "vector", "exe"} /\ s.words # <<>>
Chosen        == {i \in DOMAIN said : Positional(said[i])}
Program       == CHOOSE i \in Chosen : \A j \in Chosen : i <= j
Rest(i)       == IF i = Program THEN Tail(said[i].words) ELSE said[i].words
LastSet       == {i \in DOMAIN said : said[i].kind = "args=" /\ \A j \in i+1..Len(said) : said[j].kind # "args="}
Meant         ==
  <<Head(said[Program].words)>> \o
  FlattenSeq([i \in DOMAIN said |-> IF \A j \in LastSet : j <= i THEN Rest(i) ELSE <<>>])

\* No backslash before one of C, and none at the end.
Unslashed(w, C) == \A i \in DOMAIN w : w[i] = Backslash => i < Len(w) /\ w[i + 1] \notin C
ForRuntime(w) == IF Has(w, {Space, Quote}) THEN Unslashed(w, {Quote}) ELSE ~Has(w, {Tab})
ForShell(w)   == w # <<>> /\ IF Has(w, {Space}) THEN Unslashed(w, {Quote, Backslash}) ELSE ~Has(w, {Tab, Pipe, Backslash})
Plain(w)      == w # <<>> /\ ~Has(w, {Space, Tab, Quote, Pipe, Backslash})
\* Every pair of quotes within a word encloses its spaces not.
Paired(w)     == /\ Count(w, Quote) % 2 = 0
                 /\ \A i \in DOMAIN w : w[i] = Space => Count(SubSeq(w, 1, i), Quote) % 2 = 0

Expressible(ws) ==
  LET args == {ws[i] : i \in 2..Len(ws)}
  IN  /\ Head(ws) # <<>>
      /\ CASE windows -> ~Has(Head(ws), {Quote, Tab}) /\ \A w \in args : ForRuntime(w)
           [] ~windows /\ builder.shell  -> Plain(Head(ws)) /\ \A w \in args : ForShell(w)
           [] ~windows /\ ~builder.shell -> TRUE

-------------------------------------------------------------------------------
(***************************************************************************)
(* The launches.  A single text is a command line: the caller writes it     *)
(* word by word.  What cmd.exe does with a line is not modelled.           *)
(***************************************************************************)
Written(w)  == LET e == Replace(w, Quote, <<Backslash, Quote>>) IN IF Has(e, {Space}) \/ e = <<>> THEN Quoted(e) ELSE e
LineOf(ws)  == Joined([i \in DOMAIN ws |-> Written(ws[i])])

Launch ==
  /\ child = none /\ Chosen # {} /\ ~(windows /\ builder.shell)
  /\ builder.not_cmd \/ builder.args # <<>>
  /\ wanted' = IF Expressible(Meant) THEN Meant ELSE unset
  /\ \E b \in {builder} : child' = Launched(b)
  /\ UNCHANGED <<said, builder>>

\* build_args assigns a lone quote from behind its end to before it: undefined, an entry without
\* a character or the end of the launch.
LaunchLine(ws, shell) ==
  /\ child = none /\ said = <<>> /\ ~(windows /\ shell)
  /\ \E b \in {[builder EXCEPT !.exe = LineOf(ws), !.shell = shell]} :
       \/ child' = Launched(b)
       \/ ~windows /\ ~shell /\ Reversed(b.exe) /\ child' = none
  /\ wanted' = IF CASE windows              -> ~Has(ws[1], {Quote, Tab}) /\ \A i \in DOMAIN ws : ForRuntime(ws[i])
                    [] ~windows /\ shell    -> \A i \in DOMAIN ws : ws[i] = <<>> \/ ForShell(ws[i])
                    [] ~windows /\ ~shell   -> \A i \in DOMAIN ws : Paired(ws[i])
               THEN ws ELSE unset
  /\ UNCHANGED <<said, builder>>

\* cmd = line: build_cmd keeps quotes, and wide lines lose their spaces.
LaunchCmd(ws, wide) ==
  /\ child = none /\ said = <<>>
  /\ wanted' = IF \A i \in DOMAIN ws : Plain(ws[i]) /\ (wide /\ ~windows => Len(ws) = 1) THEN ws ELSE unset
  /\ \E line \in {IF wide /\ ~windows THEN Restored(LineOf(ws)) ELSE LineOf(ws)} :
       child' = IF windows THEN Create(<<>>, line) ELSE CmdStyle(build_cmd(line))
  /\ UNCHANGED <<said, builder>>

Next ==
  \/ Initializer
  \/ Launch
  \/ \E ws \in Lines, shell \in BOOLEAN : LaunchLine(ws, shell)
  \/ \E ws \in Lines, wide \in BOOLEAN : LaunchCmd(ws, wide)

Spec == Init /\ [][Next]_vars

\* A child gets the arguments that its parent gave, in number and in text, whatever their
\* spaces, quotes and backslashes, as far as they can be expressed; it runs an executable of
\* that name if there is one here or in PATH.
ArgsKept ==
  wanted # unset =>
    /\ child # none /\ child.argv = wanted
    /\ ~windows => \/ child.file = Head(wanted)
                   \/ child.file \in Files /\ IsSuffix(<<Slash>> \o Head(wanted), child.file)
==============================================================================
