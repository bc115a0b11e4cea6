------------------------------- MODULE MCTexts -------------------------------
(***************************************************************************)
(* Small instances of the modules about texts, as compiled for POSIX and for *)
(* Windows: Environment, EnvironmentV1, EnvValues, Commands, CommandsV1 and *)
(* Encodings.  A behaviour has one topic, which is one of them.            *)
(***************************************************************************)
EXTENDS Integers, Sequences

CONSTANTS unset, none, null, dangling, NoEntry, MaxBlocks, MaxCalls, Names, Shells

VARIABLES topic, calls, child, request, answer, wanted,
          block, used, environ, env, fresh, executable, iter, seen,
          store, shown, entry,
          object,
          said, builder,
          launcher, shell, live,
          meant, given, kind, texts, paged, last

Only(m, keys) == [k \in keys |-> IF k \in DOMAIN m THEN m[k] ELSE unset]

-------------------------------------------------------------------------------
UnixKeys  == {<<"a">>, <<"H">>, <<"P">>, <<>>}
UnixTexts == {<<>>, <<":", "a", ":", "b", ":">>}
UnixLists == {<<<<"b">>, <<"a", "=", "b">>>>}
UnixGiven == {[k \in UnixKeys |-> IF k = <<"P">> THEN <<"b">> ELSE IF k = <<"a">> THEN <<"=">> ELSE unset]}
\* An entry without '=', PATH=b:a, HOME=h and a twice.
UnixInits == {<<<<"x">>, <<"P", "=", "b", ":", "a">>, <<"H", "=", "h">>, <<"a", "=", "b">>, <<"a", "=", "x">>>>}
UnixFiles == {{<<<<"a">>, <<"x">>>>, <<<<>>, <<"x">>>>, <<<<"b">>, <<"y">>>>}}

Unix == INSTANCE Environment WITH
  windows <- FALSE, Keys <- UnixKeys, Texts <- UnixTexts, Lists <- UnixLists,
  Given <- UnixGiven, Inits <- UnixInits, Programs <- {<<"x">>}, Executables <- UnixFiles,
  BufLen <- 4

-------------------------------------------------------------------------------
WinKeys  == {<<"a">>, <<"A">>, <<"P">>, <<"P", "X">>, <<"H", "A">>}
WinTexts == {<<>>, <<"b", ";", "a">>}
WinLists == {<<<<"a">>, <<"b">>>>}
WinGiven == {[k \in WinKeys |-> IF k = <<"P">> THEN <<"b">> ELSE IF k \in {<<"a">>, <<"A">>} THEN <<"=">> ELSE unset]}
\* A current directory of a drive, path=a;b, PATHEXT=.x;.b and HOMEDRIVE.
WinInits == {<<<<"=", "A", "=", "b">>, <<"p", "=", "a", ";", "b">>, <<"P", "X", "=", ".", "x", ";", ".", "b">>,
              <<"H", "A", "=", "h">>>>}
WinFiles == {{<<<<"a">>, <<"x", ".", "b">>>>, <<<<"b">>, <<"x">>>>, <<<<"a">>, <<"x", ".", "x">>>>}}

Windows == INSTANCE Environment WITH
  windows <- TRUE, Keys <- WinKeys, Texts <- WinTexts, Lists <- WinLists,
  Given <- WinGiven, Inits <- WinInits, Programs <- {<<"x">>}, Executables <- WinFiles,
  BufLen <- 3

-------------------------------------------------------------------------------
\* Version 1: a name that begins another one, lists, and a variable without a value.
V1Keys  == {<<"a">>, <<"a", "b">>, <<"p">>}
V1Own   == {"e", "f"}
ListOf(sep)  == <<"b", sep, "a">>
V1Texts(sep) == {<<>>, ListOf(sep)}
V1Lists  == {<<<<"b">>, <<"a">>>>}
V1Inits(sep) == {<<<<"a", "b", "=", "x">>, <<"p", "=", "x", sep>>, <<"a", "=", "b">>>>,
                 <<<<"a", "b", "=">>, <<"a", "=", "x">>>>}
V1Changes == {<<>>, <<<<"append", <<"a">>, <<"x">>>>, <<"set_list", <<"p">>, <<<<"b">>, <<"a">>>>>>>>,
              <<<<"init", "e">>, <<"append", <<"p">>, <<"x">>>>, <<"reset", <<"a">>>>>>,
              <<<<"set", <<"a">>, <<>>>>, <<"init", "e">>>>}

V1Posix == INSTANCE EnvironmentV1 WITH windows <- FALSE, wide <- FALSE, Own <- V1Own, native <- "n",
  Keys <- V1Keys \cup {<<>>}, Texts <- V1Texts(":"), Lists <- V1Lists, Inits <- V1Inits(":"),
  Changes <- V1Changes
V1Wide == INSTANCE EnvironmentV1 WITH windows <- FALSE, wide <- TRUE, MaxCalls <- MaxCalls - 1, Own <- V1Own, native <- "n",
  Keys <- V1Keys, Texts <- V1Texts(":"), Lists <- V1Lists, Inits <- V1Inits(":"),
  Changes <- V1Changes
V1Windows == INSTANCE EnvironmentV1 WITH windows <- TRUE, wide <- TRUE, Own <- V1Own, native <- "n",
  Keys <- V1Keys, Texts <- V1Texts(";"), Lists <- V1Lists, Inits <- V1Inits(";"),
  Changes <- V1Changes

-------------------------------------------------------------------------------
\* Values: a key with a capital and one that begins with '=', values that hold a '=' or a delimiter.
ValKeys  == {<<"a">>, <<"A", "b">>, <<"=", "a">>}
ValTexts == {<<>>, <<"b">>, <<"b", "=">>, <<"b", ":", "a">>}
ValPairs == {<<"a", "=", "b">>, <<"A", "=", "b">>, <<"a", ".", "=">>}
ValLists == {<<<<"b">>, <<"a">>>>, <<<<"b", "=">>, <<>>>>}

ValuesPosix == INSTANCE EnvValues WITH
  windows <- FALSE, KeyTexts <- ValKeys, ValueTexts <- ValTexts, PairTexts <- ValPairs, ValueLists <- ValLists,
  MaxCalls <- 4
ValuesWindows == INSTANCE EnvValues WITH
  windows <- TRUE, KeyTexts <- ValKeys, ValueTexts <- ValTexts, PairTexts <- ValPairs, ValueLists <- ValLists,
  MaxCalls <- 4

-------------------------------------------------------------------------------
\* Commands: words that are empty, have spaces, quotes, or backslashes before them, and one that
\* leaves a lone quote.
SpaceQ == <<"a", " ", "\"">>
Cmd1Words == {<<"a">>, <<>>, <<"a", " ", "b">>, SpaceQ}
Cmd1Names == {<<"a">>, <<"a", " ", "b">>}
Cmd1Lines == UNION {[1..n -> {<<"a">>, <<>>, <<"a", " ", "b">>, <<"a", "\"">>, <<"\\">>}] : n \in 1..2}
               \cup {<<<<"a">>, SpaceQ, <<"b">>>>, <<<<"\"", " ">>>>}
Cmd1Files == {<<"d", "/", "a">>}
Cmd1Path  == <<<<"e">>, <<"d">>>>

CmdV1Posix == INSTANCE CommandsV1 WITH
  windows <- FALSE, Words <- Cmd1Words, Programs <- Cmd1Names, Lines <- Cmd1Lines, Files <- Cmd1Files,
  PathDirs <- Cmd1Path, MaxInits <- 3
CmdV1Windows == INSTANCE CommandsV1 WITH
  windows <- TRUE, Words <- Cmd1Words, Programs <- Cmd1Names, Lines <- Cmd1Lines, Files <- Cmd1Files,
  PathDirs <- Cmd1Path, MaxInits <- 3

Cmd2Words == {<<>>, <<"a">>, <<"a", " ", "b">>, <<"a", " ", "\"">>, <<"\"", "a", " ", "\"">>, <<"a", " ", "\\">>}
Cmd2Lines == {<<v, w>> : v \in {<<"a">>, <<"a", " ", "b">>}, w \in Cmd2Words}
               \cup {<<v, w, <<"a">>>> : v \in {<<>>, <<"a">>}, w \in Cmd2Words}
Cmd2Typed == {<<<<"a">>>>, <<<<"a">>, <<"a", " ", "\"">>>>}

CmdV2Posix == INSTANCE Commands WITH
  windows <- FALSE, Lines <- Cmd2Typed \cup Cmd2Lines, Typed <- Cmd2Typed, Broken <- {<<"a", " ", "\"">>, <<"a", "|">>},
  SsoLen <- 3, MaxCalls <- 4
CmdV2Windows == INSTANCE Commands WITH
  windows <- TRUE, Lines <- Cmd2Typed \cup Cmd2Lines, Typed <- Cmd2Typed, Broken <- {<<"a", " ", "\"">>, <<"a", "|">>},
  SsoLen <- 3, MaxCalls <- 4

-------------------------------------------------------------------------------
\* Encodings: a character of each length, and octets of which some are cut short.
EncTexts == {<<>>, <<65>>, <<233>>, <<12354, 65>>, <<66304>>, <<66304, 233, 65>>, <<8364, 12354>>}
EncLists == UNION {[1..n -> EncTexts] : n \in 1..2}
\* A code page that has some of them, one in two octets.
EncPage == [p \in {63, 65, 233, 12354} |-> IF p = 12354 THEN <<130, 160>> ELSE <<p>>]
EncGarbage == UNION {[1..n -> {65, 130, 195, 226, 240, 255}] : n \in 1..4}

EncPosix == INSTANCE Encodings WITH
  windows <- FALSE, Lists <- EncLists, Garbage <- EncGarbage, Page <- EncPage, MaxCalls <- 4
EncWindows == INSTANCE Encodings WITH
  windows <- TRUE, Lists <- EncLists, Garbage <- EncGarbage, Page <- EncPage, MaxCalls <- 4

-------------------------------------------------------------------------------
env2Only == <<block, used, environ, env, fresh, executable, iter, seen>>
env1Only == <<store, shown, entry>>
cmd1Only == <<said, builder>>
cmd2Only == <<launcher, shell, live>>
encOnly  == <<meant, given, kind, texts, paged, last>>
queries  == <<request, answer>>
vars     == <<topic, env2Only, env1Only, object, cmd1Only, cmd2Only, encOnly, queries, calls, child, wanted>>

\* What a topic leaves alone.
BesideEnv2   == <<env1Only, object, cmd1Only, cmd2Only, encOnly, wanted>>
BesideEnv1   == <<env2Only, object, cmd1Only, cmd2Only, encOnly, wanted>>
BesideValues == <<env2Only, env1Only, cmd1Only, cmd2Only, encOnly, child, queries, wanted>>
BesideCmd1   == <<env2Only, env1Only, object, cmd2Only, encOnly, calls, queries>>
BesideCmd2   == <<env2Only, env1Only, object, cmd1Only, encOnly, queries>>
BesideEnc    == <<env2Only, env1Only, object, cmd1Only, cmd2Only, child, queries, wanted>>

NoEnv2 == /\ block = <<>> /\ used = 0 /\ environ = 0 /\ env = 0 /\ fresh = FALSE
          /\ executable = {} /\ iter = <<>> /\ seen = <<>>
NoEnv1 == store = <<>> /\ shown = <<>> /\ entry = NoEntry
NoValue == object = <<>>
NoCmd1 == said = <<>> /\ builder = <<>>
NoCmd2 == launcher = <<>> /\ shell = <<>> /\ live = {}
NoEnc  == meant = unset /\ given = <<>> /\ kind = "narrow" /\ texts = <<>> /\ paged = FALSE /\ last = "none"
NoQuery == request = <<>> /\ answer = <<>>
NoCall  == calls = 0
NoChild == child = none
NoWish  == wanted = unset

OnlyEnv2    == NoEnv1 /\ NoValue /\ NoCmd1 /\ NoCmd2 /\ NoEnc /\ NoWish
OnlyEnv1    == NoEnv2 /\ NoValue /\ NoCmd1 /\ NoCmd2 /\ NoEnc /\ NoWish
OnlyValues  == NoEnv2 /\ NoEnv1 /\ NoCmd1 /\ NoCmd2 /\ NoEnc /\ NoChild /\ NoQuery /\ NoWish
OnlyCmd1    == NoEnv2 /\ NoEnv1 /\ NoValue /\ NoCmd2 /\ NoEnc /\ NoCall /\ NoQuery
OnlyCmd2    == NoEnv2 /\ NoEnv1 /\ NoValue /\ NoCmd1 /\ NoEnc /\ NoQuery
OnlyEnc     == NoEnv2 /\ NoEnv1 /\ NoValue /\ NoCmd1 /\ NoCmd2 /\ NoChild /\ NoQuery /\ NoWish

Init ==
  \/ topic = "posix" /\ Unix!Init /\ OnlyEnv2
  \/ topic = "windows" /\ Windows!Init /\ OnlyEnv2
  \/ topic = "v1 posix" /\ V1Posix!Init /\ OnlyEnv1
  \/ topic = "v1 wide" /\ V1Wide!Init /\ OnlyEnv1
  \/ topic = "v1 windows" /\ V1Windows!Init /\ OnlyEnv1
  \/ topic = "values posix" /\ ValuesPosix!Init /\ OnlyValues
  \/ topic = "values windows" /\ ValuesWindows!Init /\ OnlyValues
  \/ topic = "commands v1 posix" /\ CmdV1Posix!Init /\ OnlyCmd1
  \/ topic = "commands v1 windows" /\ CmdV1Windows!Init /\ OnlyCmd1
  \/ topic = "commands v2 posix" /\ CmdV2Posix!Init /\ OnlyCmd2
  \/ topic = "commands v2 windows" /\ CmdV2Windows!Init /\ OnlyCmd2
  \/ topic = "encodings posix" /\ EncPosix!Init /\ OnlyEnc
  \/ topic = "encodings windows" /\ EncWindows!Init /\ OnlyEnc

Next ==
  /\ UNCHANGED topic
  /\ \/ topic = "posix" /\ Unix!Next /\ UNCHANGED BesideEnv2
     \/ topic = "windows" /\ Windows!Next /\ UNCHANGED BesideEnv2
     \/ topic = "v1 posix" /\ V1Posix!Next /\ UNCHANGED BesideEnv1
     \/ topic = "v1 wide" /\ V1Wide!Next /\ UNCHANGED BesideEnv1
     \/ topic = "v1 windows" /\ V1Windows!Next /\ UNCHANGED BesideEnv1
     \/ topic = "values posix" /\ ValuesPosix!Next /\ UNCHANGED BesideValues
     \/ topic = "values windows" /\ ValuesWindows!Next /\ UNCHANGED BesideValues
     \/ topic = "commands v1 posix" /\ CmdV1Posix!Next /\ UNCHANGED BesideCmd1
     \/ topic = "commands v1 windows" /\ CmdV1Windows!Next /\ UNCHANGED BesideCmd1
     \/ topic = "commands v2 posix" /\ CmdV2Posix!Next /\ UNCHANGED BesideCmd2
     \/ topic = "commands v2 windows" /\ CmdV2Windows!Next /\ UNCHANGED BesideCmd2
     \/ topic = "encodings posix" /\ EncPosix!Next /\ UNCHANGED BesideEnc
     \/ topic = "encodings windows" /\ EncWindows!Next /\ UNCHANGED BesideEnc

Spec == Init /\ [][Next]_vars

-------------------------------------------------------------------------------
\* A loop over current() visits every key once: Environment's VisitsEachKey.
VisitsEachKey == topic \in {"posix", "windows"} =>
  CASE topic = "posix" -> Unix!VisitsEachKey
    [] topic = "windows" -> Windows!VisitsEachKey

\* The environment is a map, in every query and for every child: Environment's IsMap and
\* EnvironmentV1's IsMapV1.
IsMap == [][CASE topic = "posix" -> Unix!Map!Next
              [] topic = "windows" -> Windows!Map!Next
              [] topic = "v1 posix" -> V1Posix!Map!Next
              [] topic = "v1 wide" -> V1Wide!Map!Next
              [] topic = "v1 windows" -> V1Windows!Map!Next
              [] OTHER -> TRUE]_<<topic, request, answer, child, calls>>

\* Comparisons and hashes of environment keys, values and pairs agree: EnvValues' OrderCoherent.
OrderCoherent == topic \in {"values posix", "values windows"} =>
  CASE topic = "values posix" -> ValuesPosix!OrderCoherent
    [] topic = "values windows" -> ValuesWindows!OrderCoherent

\* A text arrives as it was meant: a child gets the arguments that its parent gave (ArgsKept of
\* CommandsV1 and of Commands), a conversion keeps the text or throws (Encodings' TextKept: but for
\* the characters that version 1 replaces on Windows), and a pair gives back the key and the list
\* it was built of (EnvValues' PartsKept).
TextsKept ==
  CASE topic = "commands v1 posix" -> CmdV1Posix!ArgsKept
    [] topic = "commands v1 windows" -> CmdV1Windows!ArgsKept
    [] topic = "commands v2 posix" -> CmdV2Posix!ArgsKept
    [] topic = "commands v2 windows" -> CmdV2Windows!ArgsKept
    [] topic = "encodings posix" -> EncPosix!TextKept
    [] topic = "encodings windows" -> EncWindows!TextKept
    [] topic = "values posix" -> ValuesPosix!PartsKept
    [] topic = "values windows" -> ValuesWindows!PartsKept
    [] OTHER -> TRUE

\* The arrays of words have one owner and are freed once: Commands' ArraysOwned.
ArraysOwned == topic \in {"commands v2 posix", "commands v2 windows"} =>
  CASE topic = "commands v2 posix" -> CmdV2Posix!ArraysOwned
    [] topic = "commands v2 windows" -> CmdV2Windows!ArraysOwned

\* operator+= of an entry appends to its variable: the documentation of class entry of version 1.
AppendKeeps == [][CASE topic = "v1 posix" -> V1Posix!Appends
                    [] topic = "v1 wide" -> V1Wide!Appends
                    [] topic = "v1 windows" -> V1Windows!Appends
                    [] OTHER -> TRUE]_vars
===============================================================================
