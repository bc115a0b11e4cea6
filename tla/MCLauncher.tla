----------------------------- MODULE MCLauncher -----------------------------
(***************************************************************************)
(* A small instance of Launcher, two launches on POSIX, and of              *)
(* WindowsProcess: two launches with their streams, two without one after    *)
(* another, one object with its calls and waits, and two objects that are   *)
(* moved, asked and waited for.                                            *)
(***************************************************************************)
EXTENDS Launcher, WindowsProcess

CONSTANTS a1, a2, l1, l2

VARIABLE platform

OneLauncherEach == [a \in Launches |-> IF a = a1 THEN l1 ELSE l2]

\* A terminal on 0 (for stdio), a log on 1 and a socket on 2.
ThreeOpen ==
  [d \in Fds |->
    IF d = 0 THEN <<"user", "tty">>
    ELSE IF d = 1 THEN <<"user", "log">>
    ELSE IF d = 2 THEN <<"user", "socket">>
    ELSE Closed]

To(target, fd) == [target |-> target, fd |-> fd]

\* Nothing; the log as stdout and the socket as itself.
NoConflict == {<<>>, <<To(0, 1), To(2, 2)>>}

Pair(first, second) == [l \in Launchers |-> IF l = l1 THEN first ELSE second]

EachKind == {Pair("default", "pipe_fork"), Pair("default", "vfork"), Pair("fork_and_forget", "pipe_fork")}

-------------------------------------------------------------------------------
WinPair(first, second) == [a \in WinLaunches |-> IF a = a1 THEN first ELSE second]

EachWinKind == {WinPair("default", "as_user"), WinPair("with_token", "with_logon")}

WinFiles == [f \in {"tty", "log"} |-> IF f = "tty" THEN 1 ELSE 2]
Stream(k, f) == [kind |-> k, file |-> f]
Streams == {Stream("none", "tty"), Stream("std", "tty"), Stream("handle", "log"), Stream("pipe", "tty"),
            Stream("file", "tty")}

allVars == <<platform, vars, winVars>>

\* What is looked at: on POSIX the launchers; on Windows the launchers with streams, two launches
\* that may get the same pid, one launch without streams and the calls on its process, or two
\* and the calls on both processes.
Platforms == {"posix", "windows streams", "windows pids", "windows calls", "windows objects"}

\* What is not looked at stays as it is at first.
AllInit == /\ platform \in Platforms
           /\ Init /\ (platform # "posix" => kind = Pair("default", "vfork"))
           /\ WinInit
           /\ launcher = IF platform = "windows pids" THEN WinPair("with_token", "with_logon")
                         ELSE WinPair("default", "as_user")

\* The bounds of each of the four; each leaves a launch that has begun a way to go on.
Bounded ==
  \/ /\ platform = "windows streams" /\ UNCHANGED <<wait, done>>
     /\ \A c \in Children : process'[c].state = "ended" => process'[c].code = 0
  \/ /\ platform = "windows pids" /\ UNCHANGED <<bound, wait>> /\ done' <= 2
     /\ \A c \in Children : process'[c].pid \in {0, 11}
  \/ /\ platform = "windows calls" /\ UNCHANGED bound /\ stage'[a2] = "idle"
  \/ /\ platform = "windows objects" /\ UNCHANGED bound /\ done' <= 2
     /\ (stage'[a2] # "idle" => stage[a1] = "done")
     /\ process'[a1].pid \in {0, 11} /\ process'[a2].pid \in {0, 12}

OnlyPosix   == platform = "posix" /\ UNCHANGED <<platform, winVars>>
OnlyWindows == platform # "posix" /\ UNCHANGED <<platform, vars>>

AllNext == \/ OnlyPosix /\ Next
           \/ OnlyWindows /\ WinNext /\ Bounded

\* The fairness of Launcher and of WindowsProcess.
AllSpec == /\ AllInit /\ [][AllNext]_allVars
           /\ \A a \in Launches : WF_vars(ParentStep(a)) /\ WF_vars(ChildStep(a))
           /\ WinFairness

\* A launch reports what it has done, and an error leaves no process behind: LaunchTruthful and
\* NoZombie of Launcher, WinLaunchTruthful of WindowsProcess.
LaunchesTruthful == LaunchTruthful /\ NoZombie /\ WinLaunchTruthful

\* A child gets what its launch gives it and nothing else: OnlyWhitelisted and InheritsGiven.
InheritsOnlyGiven == OnlyWhitelisted /\ InheritsGiven

\* Every path out of a launch, and every end of an object, leaves nothing open that it opened,
\* and closes nothing else: NoLeak and HandlesOwned.
NothingLeft == NoLeak /\ HandlesOwned

\* Every launch returns, as each is made once: LaunchReturns of Launcher and of WindowsProcess.
Busy == \/ \E a \in Launches : pc[a] \notin {"idle", "done"}
        \/ \E a \in WinLaunches : stage[a] \notin {"idle", "done"}
LaunchesReturn == Busy ~> ~Busy
===============================================================================
