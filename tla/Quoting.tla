------------------------------- MODULE Quoting -------------------------------
(***************************************************************************)
(* How the programs outside the library take a command line apart: the C    *)
(* runtime of a Windows program, and the shell (sh -c, wordexp) on POSIX.   *)
(* A text is a sequence of characters.                                     *)
(***************************************************************************)
EXTENDS Integers, Sequences, FiniteSets, SequencesExt

Space     == " "
Tab       == "\t"
Quote     == "\""
Backslash == "\\"
Pipe      == "|"

Has(t, C)    == \E i \in DOMAIN t : t[i] \in C
Count(t, c)  == Cardinality({i \in DOMAIN t : t[i] = c})
Quoted(t)    == <<Quote>> \o t \o <<Quote>>
\* A fold whose step is given the value of what comes before it, which TLC then has once.
Run(Step(_, _), base, t) == FoldLeft(LAMBDA s, c : CHOOSE x \in {Step(v, c) : v \in {s}} : TRUE, base, t)

\* boost::replace_all of one character, and join with spaces.
Replace(t, c, by) == FoldLeft(LAMBDA r, x : r \o (IF x = c THEN by ELSE <<x>>), <<>>, t)
Joined(ws)        == Run(LAMBDA r, w : IF r = <<>> THEN w ELSE Append(r, Space) \o w, <<>>, ws)

\* The words a parser has completed, the one it is in, and what it has seen of it.
Start == [words |-> <<>>, word |-> <<>>, open |-> FALSE, quoted |-> FALSE, slashes |-> 0, closed |-> FALSE]
Flush(s) == IF s.open THEN [s EXCEPT !.words = Append(@, s.word), !.word = <<>>, !.open = FALSE] ELSE s

-------------------------------------------------------------------------------
(***************************************************************************)
(* The C runtime.  Backslashes are literal but before a quote: there two   *)
(* make one, and an odd one makes the quote literal.  "" within quotes is a *)
(* literal quote.  The name of the program ends at its closing quote, or at *)
(* a space, and has no escapes.                                            *)
(***************************************************************************)
Slashes(n) == [i \in 1..n |-> Backslash]
Literal(s, t) == [s EXCEPT !.word = @ \o Slashes(s.slashes) \o t, !.open = TRUE, !.slashes = 0, !.closed = FALSE]

RuntimeQuote(s) ==
  LET t == [s EXCEPT !.word = @ \o Slashes(s.slashes \div 2), !.open = TRUE, !.slashes = 0, !.closed = FALSE]
  IN  CASE s.slashes % 2 = 1           -> [t EXCEPT !.word = Append(@, Quote)]
        [] s.closed /\ s.slashes = 0   -> [t EXCEPT !.word = Append(@, Quote), !.quoted = TRUE]
        [] OTHER                       -> [t EXCEPT !.quoted = ~@, !.closed = s.quoted]

RuntimeFlush(s) == IF s.open THEN Flush(Literal(s, <<>>)) ELSE s

RuntimeStep(s, c) ==
  CASE s.words = <<>> /\ c = Quote            -> [s EXCEPT !.quoted = ~@, !.open = TRUE]
    [] s.words = <<>> /\ c = Backslash        -> [s EXCEPT !.word = Append(@, c), !.open = TRUE]
    [] s.words # <<>> /\ c = Backslash        -> [s EXCEPT !.slashes = @ + 1, !.open = TRUE, !.closed = FALSE]
    [] s.words # <<>> /\ c = Quote            -> RuntimeQuote(s)
    [] c \in {Space, Tab} /\ ~s.quoted        -> RuntimeFlush(s)
    [] OTHER                                  -> Literal(s, <<c>>)

RuntimeWords(line) == RuntimeFlush(Run(RuntimeStep, Start, line)).words

-------------------------------------------------------------------------------
(***************************************************************************)
(* The shell.  A backslash quotes the next character, within quotes only a *)
(* quote or a backslash; an unfinished quote or a bare operator is an error.*)
(***************************************************************************)
ShellStep(s, c) ==
  CASE s.slashes = 1 -> [Literal([s EXCEPT !.slashes = IF s.quoted /\ c \notin {Quote, Backslash} THEN 1 ELSE 0],
                                 <<c>>) EXCEPT !.slashes = 0]
    [] s.slashes = 0 /\ c = Backslash -> [s EXCEPT !.slashes = 1, !.open = TRUE]
    [] s.slashes = 0 /\ c = Quote     -> [s EXCEPT !.quoted = ~@, !.open = TRUE]
    [] s.slashes = 0 /\ c \in {Space, Tab} /\ ~s.quoted -> Flush(s)
    [] s.slashes = 0 /\ c = Pipe /\ ~s.quoted           -> [s EXCEPT !.closed = TRUE]
    [] OTHER -> [s EXCEPT !.word = Append(@, c), !.open = TRUE]

ShellEnd(line)   == Run(ShellStep, Start, line)
ShellFails(line) == LET s == ShellEnd(line) IN s.quoted \/ s.slashes = 1 \/ s.closed
ShellWords(line) == Flush(ShellEnd(line)).words
==============================================================================
