----------------------------- MODULE ExtQueries -----------------------------
(***************************************************************************)
(* ext::cmd, ext::env, ext::cwd and ext::exe: the command line, the         *)
(* environment, the directory and the program of another process.  Linux    *)
(* reads files of /proc chunk by chunk, the other systems ask for a length  *)
(* and then for the text, or read another process's memory by address:      *)
(* the process goes on between any two of these steps.                      *)
(***************************************************************************)
EXTENDS Queries

CONSTANTS ArgsOf,     \* the arguments of each image: a sequence of texts
          EnvOf,      \* its environment: a sequence of texts
          PathOf,     \* its path: a text
          ChunkLen    \* 4096: what one read of /proc asks for

VARIABLES offset,     \* how much of a file has been read
          size,       \* the length asked for first
          buf,        \* what has been read so far
          seen,       \* history: the right answers during the call, each with the program it was true of
          mark        \* where the loop over the answer of env() is

Ops == {"cmd", "env", "cwd", "exe"}
NUL == 0     \* the byte that ends a string
EOF == 255   \* (char)EOF, in /proc the byte 0xFF

\* Texts are bytes but NUL, and but 0xFF, which cmd and env take for their end mark.
Letters == Nat \ {NUL, EOF}
TextsGiven ==
  /\ ArgsOf \in [Images -> Seq(Seq(Letters))] /\ EnvOf \in [Images -> Seq(Seq(Letters))]
  /\ PathOf \in [Images -> Seq(Letters)] /\ Dirs \subseteq Seq(Letters)
  /\ ChunkLen \in Nat \ {0}

extQuery == <<platform, pc, call, held, offset, size, buf, answer, ec, mark>>
extVars  == <<procs, events, extQuery, seen>>

noone == [born |-> -1, loaded |-> 0]
ExtInit == /\ ProcessesInit
           /\ platform \in Platforms
           /\ pc = "idle" /\ call = [op |-> "none", pid |-> 0]
           /\ held = noone /\ offset = 0 /\ size = 0 /\ buf = <<>> /\ answer = <<>> /\ ec = "none"
           /\ seen = {} /\ mark = 0

\* Texts, each with its NUL, as /proc and the kernel keep them.
Blob(texts) == FlattenSeq([i \in DOMAIN texts |-> Append(texts[i], NUL)])

Unknown == <<>>
Of(r, op) == CASE op = "cmd" -> ArgsOf[r.image]
               [] op = "env" -> EnvOf[r.image]
               [] op = "cwd" -> r.cwd
               [] op = "exe" -> PathOf[r.image]
\* What is true of the process; a zombie has no command line, nor anything else.
ExtTruth == IF call.op \in Ops /\ Alive(call.pid) THEN Of(procs[call.pid], call.op) ELSE Unknown
Program  == IF call.op \in Ops /\ Alive(call.pid) THEN procs[call.pid].loaded ELSE -1
Now      == [is |-> ExtTruth, program |-> Program]

ExtFails(e)   == Goto("done") /\ ec' = e /\ answer' = <<>> /\ UNCHANGED <<held, offset, size, buf, mark>>
ExtReturns(v) == Goto("done") /\ answer' = v /\ UNCHANGED <<held, offset, size, buf, ec, mark>>
ExtAt(l, ops) == pc = l /\ call.op \in ops
Target        == procs[call.pid]

ExtStart == /\ pc = "idle" /\ pc' = "begin"
            /\ \E op \in Ops, p \in Pids : call' = [op |-> op, pid |-> p]
            /\ UNCHANGED <<platform, procs, events, held, offset, size, buf, answer, ec, mark>>

-------------------------------------------------------------------------------
(* Linux.  cmdline is that of the program the process runs at each read,    *)
(* environ that of the program it ran when the file was opened.             *)
Held      == held' = IF Exists(call.pid) THEN [born |-> Target.born, loaded |-> Target.loaded] ELSE noone
LinuxOpen == /\ platform = "linux" /\ ExtAt("begin", {"cmd", "env"})
             /\ Goto("read")
             /\ Held \/ held' = noone      \* or no descriptor is free
             /\ UNCHANGED <<offset, size, buf, answer, ec, mark>>

Content == IF ~Alive(call.pid) THEN <<>>
           ELSE IF call.op = "cmd" THEN Blob(ArgsOf[Target.image])
           ELSE IF Target.loaded = held.loaded THEN Blob(EnvOf[Target.image]) ELSE <<>>
Chunk   == SubSeq(Content, offset + 1, Min({Len(Content), offset + ChunkLen}))
Short_Full(chunk) == Len(chunk) <= ChunkLen    \* Mutant
Short(chunk) == Len(chunk) < ChunkLen

\* One read; it fails when the open did, which nobody looked at, or when the process is gone.
LinuxRead == /\ platform = "linux" /\ pc = "read"
             /\ IF ~Is(call.pid, held.born) THEN ExtFails(IF held = noone THEN "EBADF" ELSE "ESRCH")
                ELSE /\ buf' = buf \o Chunk
                     /\ offset' = offset + Len(Chunk)
                     /\ Goto(IF Short(Chunk) THEN "split" ELSE "read")
                     /\ UNCHANGED <<held, size, answer, ec, mark>>

\* cmd: argv gets the start of the string before each NUL, and in its last place the start
\* of what is behind them.  mark is that place, 0 would be the null pointer.
Nuls(s)    == {i \in DOMAIN s : s[i] = NUL}
NthNul(s, n)   == CHOOSE i \in Nuls(s) : Cardinality({j \in Nuls(s) : j <= i}) = n
Starts(s)  == <<1>> \o [n \in 1..Cardinality(Nuls(s)) |-> NthNul(s, n) + 1]
NulFrom(s, i)  == LET I == {j \in Nuls(s) : j >= i} IN IF I = {} THEN 0 ELSE Min(I)
StringAt(s, i) == SubSeq(s, i, NulFrom(s, i) - 1)
Trimmed(s) == IF s # <<>> /\ Last(s) = EOF THEN Front(s) ELSE s
\* A command line without a character, like that of a zombie, has no last one: looking at it is
\* undefined, and without consequence or, when it looks like EOF, the end of the string is lost.
LinuxCmdEmpty == /\ platform = "linux" /\ ExtAt("split", {"cmd"}) /\ buf = <<>>
                 /\ Goto("overrun") /\ UNCHANGED <<held, offset, size, buf, answer, ec, mark>>
LinuxCmd == /\ platform = "linux" /\ ExtAt("split", {"cmd"})
            /\ \E s \in {Trimmed(buf)} :
                 /\ answer' = [n \in 1..Cardinality(Nuls(s)) |-> StringAt(s, Starts(s)[n])]
                 /\ mark' = Last(Starts(s))
            /\ Goto("done") /\ UNCHANGED <<held, offset, size, buf, ec>>

LinuxEnv_NoEnd == /\ platform = "linux" /\ ExtAt("split", {"env"})     \* Mutant
                  /\ Goto("walk") /\ mark' = 1
                  /\ UNCHANGED <<held, offset, size, buf, answer, ec>>

\* env: the bytes themselves, with EOF behind them.
LinuxEnv == /\ platform = "linux" /\ ExtAt("split", {"env"})
            /\ Goto("walk") /\ buf' = Append(buf, EOF) /\ mark' = 1
            /\ UNCHANGED <<held, offset, size, answer, ec>>

\* cwd, exe: a symbolic link of /proc, there for a process that is no zombie.
Link == /\ platform \in {"linux", "sun"} /\ ExtAt("begin", {"cwd", "exe"})
        /\ IF Alive(call.pid) THEN ExtReturns(ExtTruth) ELSE ExtFails("ENOENT")

-------------------------------------------------------------------------------
(* The BSDs.                                                                *)
KvmFails == /\ platform \in Bsd \cup {"sun"} /\ ExtAt("begin", {"cmd", "env"}) /\ ExtFails("EMFILE")
KvmProc == /\ platform \in Bsd /\ ExtAt("begin", {"cmd", "env"})
           /\ IF ~Exists(call.pid) THEN ExtFails("ESRCH")
              ELSE /\ Goto("argv") /\ Held
                   /\ UNCHANGED <<offset, size, buf, answer, ec, mark>>
\* kvm_getargv, by the pid that was found: a copy of the strings, with a null pointer at the end.
KvmArgv == /\ platform \in Bsd /\ ExtAt("argv", {"cmd"})
           /\ IF Alive(call.pid) THEN ExtReturns(ExtTruth) ELSE ExtFails("ESRCH")
\* kvm_getenvv: the strings with their NULs, and one NUL more.
KvmEnvv == /\ platform \in Bsd /\ ExtAt("argv", {"env"})
           /\ IF Alive(call.pid)
                THEN /\ Goto("walk") /\ buf' = Append(Blob(ExtTruth), NUL) /\ mark' = 1
                     /\ UNCHANGED <<held, offset, size, answer, ec>>
                ELSE ExtFails("ESRCH")

\* sysctl twice, for the length and for the text.
BySysctl == \/ platform \in Bsd \ {"dragonfly"} /\ ExtAt("begin", {"cwd"})
            \/ platform \in Bsd \ {"openbsd"} /\ ExtAt("begin", {"exe"})
AskLength == /\ BySysctl
             /\ IF Alive(call.pid)
                  THEN Goto("text") /\ size' = Len(ExtTruth) + 1 /\ UNCHANGED <<held, offset, buf, answer, ec, mark>>
                  ELSE ExtFails("ESRCH")
AskText == /\ pc = "text"
           /\ IF ~Alive(call.pid) THEN ExtFails("ESRCH")
              ELSE IF Len(ExtTruth) + 1 > size THEN ExtFails("ENOMEM")
              ELSE ExtReturns(ExtTruth)
\* DragonFly asks for the directory once, into a buffer of the greatest length.
AskCwd == /\ platform = "dragonfly" /\ ExtAt("begin", {"cwd"})
          /\ IF Alive(call.pid) THEN ExtReturns(ExtTruth) ELSE ExtFails("ESRCH")
NoExe == /\ platform = "openbsd" /\ ExtAt("begin", {"exe"}) /\ ExtFails("ENOTSUP")

-------------------------------------------------------------------------------
(* Solaris: the process, its user area and its memory, by the address that  *)
(* was found.                                                               *)
SunProc == /\ platform = "sun" /\ ExtAt("begin", {"cmd", "env"})
           /\ IF ~Exists(call.pid) THEN ExtFails("ESRCH")
              ELSE /\ Goto("user") /\ Held
                   /\ UNCHANGED <<offset, size, buf, answer, ec, mark>>
Addressed == Is(call.pid, held.born) /\ Alive(call.pid)
SunUser == /\ pc = "user"
           /\ IF ~Addressed THEN ExtFails("EFAULT")
              ELSE Goto("memory") /\ UNCHANGED <<held, offset, size, buf, answer, ec, mark>>
SunCmd  == /\ platform = "sun" /\ ExtAt("memory", {"cmd"})
           /\ IF Addressed THEN ExtReturns(ExtTruth) ELSE ExtFails("EFAULT")
SunEnv  == /\ platform = "sun" /\ ExtAt("memory", {"env"})
           /\ IF ~Addressed THEN ExtFails("EFAULT")
              ELSE /\ Goto("walk") /\ buf' = Append(Blob(ExtTruth), NUL) /\ mark' = 1
                   /\ UNCHANGED <<held, offset, size, answer, ec>>

-------------------------------------------------------------------------------
(* Windows: the parameters of the process hold the address and the length   *)
(* of each text; a process that has ended cannot be read any more.          *)
Self == 1     \* the process that asks
\* exe of the process itself: GetModuleFileNameW, which needs no handle.
ModuleFileName == /\ platform = "windows" /\ ExtAt("begin", {"exe"}) /\ call.pid = Self
                  /\ ExtReturns(ExtTruth)
OpenProcess == /\ platform = "windows" /\ pc = "begin" /\ (call.op = "exe" => call.pid # Self)
               /\ IF Exists(call.pid)
                    THEN Goto("params") /\ Held /\ UNCHANGED <<offset, size, buf, answer, ec, mark>>
                    ELSE ExtFails("ERROR_INVALID_PARAMETER")
Readable == Is(call.pid, held.born)
ReadParams == /\ platform = "windows" /\ ExtAt("params", {"cmd", "env", "cwd"})
              /\ IF Readable
                   THEN Goto("memory") /\ size' = Len(ExtTruth) /\ UNCHANGED <<held, offset, buf, answer, ec, mark>>
                   ELSE ExtFails("ERROR_PARTIAL_COPY")
ReadCmd == /\ platform = "windows" /\ ExtAt("memory", {"cmd"})
           /\ IF Readable THEN ExtReturns(ExtTruth) ELSE ExtFails("ERROR_PARTIAL_COPY")
\* The directory is written over in place: of a longer one the old length is read, a shorter
\* one leaves a NUL in the path, which cannot be resolved.
ReadCwd == /\ ExtAt("memory", {"cwd"})
           /\ IF ~Readable THEN ExtFails("ERROR_PARTIAL_COPY")
              ELSE IF Len(ExtTruth) < size THEN ExtFails("ERROR_INVALID_NAME")
              ELSE ExtReturns(SubSeq(ExtTruth, 1, size))
ReadEnv == /\ platform = "windows" /\ ExtAt("memory", {"env"})
           /\ IF Readable
                THEN /\ Goto("walk") /\ buf' = Append(Blob(ExtTruth), NUL) /\ mark' = 1
                     /\ UNCHANGED <<held, offset, size, answer, ec>>
                ELSE ExtFails("ERROR_PARTIAL_COPY")
ImageName == /\ platform = "windows" /\ ExtAt("params", {"exe"})
             /\ IF Readable THEN ExtReturns(ExtTruth) ELSE ExtFails("ERROR_GEN_FAILURE")

-------------------------------------------------------------------------------
(* macOS: cmd takes the first bytes of the program's path for the number of *)
(* arguments, of which there are never so many; the loop of env never       *)
(* counts an argument and collects nothing.                                 *)
MacCmd  == platform = "macos" /\ ExtAt("begin", {"cmd"}) /\ ExtFails(IF Alive(call.pid) THEN "EINVAL" ELSE "ESRCH")
MacEnv  == /\ platform = "macos" /\ ExtAt("begin", {"env"})
           /\ IF Alive(call.pid) THEN ExtReturns(<<>>) ELSE ExtFails("ESRCH")
MacPath == /\ platform = "macos" /\ ExtAt("begin", {"cwd", "exe"})
           /\ IF Alive(call.pid) THEN ExtReturns(ExtTruth) ELSE ExtFails("ESRCH")

ExtUnsupported == /\ platform = "other" /\ ExtAt("begin", {"cmd", "cwd", "exe"}) /\ ExtFails("ENOTSUP")

-------------------------------------------------------------------------------
(* The caller's loop over the env_view: but on Linux its end is the end of   *)
(* the first text, which the loop steps over.                               *)
find_end == IF platform = "linux" THEN SelectInSeq(buf, LAMBDA c : c = EOF)
                                  ELSE SelectInSeq(buf, LAMBDA c : c \in {NUL, NUL + 1})

Walk == /\ pc = "walk"
        /\ IF mark = find_end THEN Goto("done") /\ UNCHANGED <<answer, mark>>
           ELSE IF mark > Len(buf) \/ NulFrom(buf, mark) = 0
                THEN Goto("overrun") /\ UNCHANGED <<answer, mark>>
           ELSE /\ Goto("walk")
                /\ answer' = Append(answer, StringAt(buf, mark))
                /\ mark' = NulFrom(buf, mark) + 1
        /\ UNCHANGED <<held, offset, size, buf, ec>>

ExtReturn == /\ pc = "done" /\ pc' = "idle" /\ call' = [op |-> "none", pid |-> 0]
             /\ held' = noone /\ offset' = 0 /\ size' = 0 /\ buf' = <<>> /\ answer' = <<>> /\ ec' = "none"
             /\ mark' = 0 /\ UNCHANGED <<platform, procs, events>>

ExtStep == \/ ExtStart \/ ExtReturn \/ Walk \/ LinuxOpen \/ LinuxRead \/ LinuxCmd \/ LinuxCmdEmpty \/ LinuxEnv \/ Link
           \/ KvmFails \/ KvmProc \/ KvmArgv \/ KvmEnvv \/ AskCwd \/ AskLength \/ AskText \/ NoExe
           \/ SunProc \/ SunUser \/ SunCmd \/ SunEnv
           \/ ModuleFileName \/ OpenProcess \/ ReadParams \/ ReadCmd \/ ReadCwd \/ ReadEnv \/ ImageName
           \/ MacCmd \/ MacEnv \/ MacPath \/ ExtUnsupported

ExtOthers == ProcessStep(platform = "windows") /\ UNCHANGED extQuery

ExtRemember == \E now \in {Now'} :
                 seen' = IF "idle" \in {pc, pc'} THEN {now}
                         ELSE IF pc \in {"done", "overrun"} THEN seen ELSE seen \cup {now}

ExtNext == (ExtStep \/ ExtOthers) /\ ExtRemember
ExtSpec == ExtInit /\ [][ExtNext]_extVars

-------------------------------------------------------------------------------
Answered == pc = "done" /\ ec = "none"
Undisturbed == Cardinality(seen) = 1
RightAnswers == {s.is : s \in seen}

\* What cmd, env, cwd and exe return without an error is the process's own, complete and in
\* order, when it neither ran another program nor changed its directory nor ended meanwhile;
\* and a directory or a program path that it had at some moment in any case (but on Windows,
\* where a directory can be cut).  env only on Linux: on macOS it is always empty, and
\* elsewhere the loop over it does not find its end.
AnswersTruthful ==
  Answered /\ (call.op = "env" => platform = "linux") =>
    /\ Undisturbed => answer \in RightAnswers
    /\ call.op \in {"cwd", "exe"} /\ platform # "windows" => answer \in RightAnswers

\* On Linux the loop over the environment of another process stays inside it, unless the process
\* ran another program or ended while it was read; and cmd stays inside the command line of a
\* process that has one all the time.
LoopEnds ==
  pc = "overrun" /\ platform = "linux" =>
    CASE call.op = "env" -> ~Undisturbed
      [] call.op = "cmd" -> Unknown \in RightAnswers

\* "args is a null-terminated list": argv of the shell that cmd returns has a null pointer
\* behind the last argument.
ArgvTerminated == Answered /\ call.op = "cmd" => mark = 0
===============================================================================
