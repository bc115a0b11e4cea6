-------------------------------- MODULE Launcher --------------------------------
(***************************************************************************)
(* The POSIX launchers: default_launcher (fork and an error pipe),         *)
(* pipe_fork_launcher (a second pipe to wait with), fork_and_forget_       *)
(* launcher and vfork_launcher, with the initializers bind_fd and          *)
(* process_stdio.  Launches run on threads of one parent process and share *)
(* its descriptor table; each child has a copy of it until it calls        *)
(* execve.                                                                 *)
(*                                                                         *)
(* A descriptor is a number; what it refers to is a pair: <<a, "er">> is   *)
(* the read end of the error pipe of launch a, "ew" the write end, "wr"    *)
(* and "ww" the ends of its wait pipe; <<"user", f>> is a file of the      *)
(* program.                                                                *)
(***************************************************************************)
EXTENDS Integers, Sequences, FiniteSets, FiniteSetsExt

CONSTANTS
  Launches,   \* the calls of a launcher, each on a thread of its own
  Launchers,  \* the launcher objects
  Uses,       \* [Launches -> the launcher object each of them calls]
  Kinds,      \* the [Launchers -> type] to look at
  parent,     \* the process that launches
  MaxFd,      \* bound: the highest descriptor, RLIMIT_NOFILE
  StdFds,     \* STDIN_FILENO, STDOUT_FILENO and STDERR_FILENO
  UserFiles,  \* the files the program has opened and will open
  Opened,     \* [Fds -> what is open in the parent at first]
  Flagged,    \* the descriptors that are close-on-exec at first
  Bindings,   \* the sequences of bindings [target, fd] a launch may be given
  Errnos      \* what a failing on_exec_setup may leave in errno; 0: it sets none

Fds     == 0..MaxFd
Ends    == {"er", "ew", "wr", "ww"}
Closed  == <<"none", "closed">>
Users   == {<<"user", f>> : f \in UserFiles}
Pipes   == Launches \X Ends
File    == {Closed} \cup Users \cup Pipes
Process == Launches \cup {parent}

ASSUME LauncherAssumption ==
  /\ MaxFd \in Nat
  /\ parent \notin Launches
  /\ UserFiles \cap Ends = {}    \* no file has the name of an end of a pipe
  /\ Uses \in [Launches -> Launchers]
  /\ Kinds \subseteq [Launchers -> {"default", "pipe_fork", "fork_and_forget", "vfork"}]
  /\ StdFds \subseteq Fds /\ Flagged \subseteq Fds
  /\ Opened \in [Fds -> {Closed} \cup Users]
  /\ Bindings \subseteq Seq([target : Fds, fd : Fds])
  /\ Errnos \subseteq {"0", "E"}

VARIABLES
  kind,       \* [Launchers -> its type]
  whitelist,  \* [Launchers -> fd_whitelist, as a set]
  table,      \* [Process -> [Fds -> File]], the descriptor tables
  cloexec,    \* [Process -> the descriptors flagged FD_CLOEXEC]
  binds,      \* [Launches -> the bindings it was given]
  pc,         \* [Launches -> where its thread is]
  p,          \* [Launches -> [Ends -> the descriptors of its pipes, -1 if none]]
  guard,      \* [Launches -> the ends its pipe_guards have still to close]
  child,      \* [Launches -> state of its child]
  left,       \* [Launches -> bindings its child has not applied yet]
  kept,       \* [Launches -> fd_whitelist in its child]
  told,       \* [Launches -> the errno its child wrote for the parent]
  result      \* [Launches -> what the caller gets]

parentVars == <<kind, binds, pc, p, guard, result>>
childVars  == <<child, left, kept, told>>
fdVars     == <<whitelist, table, cloexec>>
vars       == <<parentVars, childVars, fdVars>>

Kind(a)     == kind[Uses[a]]
ErrorPipe(a) == Kind(a) \in {"default", "pipe_fork"}
Targets(s)  == {s[i].target : i \in DOMAIN s}
IsOpen(q, d) == table[q][d] # Closed
Held(f)     == \E q \in Process, d \in Fds : table[q][d] = f

TypeOK ==
  /\ kind \in Kinds
  /\ whitelist \in [Launchers -> SUBSET Fds]
  /\ table \in [Process -> [Fds -> File]]
  /\ cloexec \in [Process -> SUBSET Fds]
  /\ binds \in [Launches -> Bindings \cup {<<>>}]
  /\ pc \in [Launches -> {"idle", "pipe", "flag", "wait_pipe", "wait_flag", "setup",
                          "fork", "close", "read", "vfork", "reap", "done"}]
  /\ p \in [Launches -> [Ends -> Fds \cup {-1}]]
  /\ guard \in [Launches -> SUBSET Ends]
  /\ child \in [Launches -> {"none", "setup", "exec", "exiting", "zombie", "reaped",
                             "running", "exited"}]
  /\ left \in [Launches -> Seq([target : Fds, fd : Fds])]
  /\ kept \in [Launches -> SUBSET Fds]
  /\ told \in [Launches -> {"nothing", "0", "E"}]
  /\ result \in [Launches -> {"none", "ok", "error"}]

Init ==
  /\ kind \in Kinds
  /\ whitelist = [l \in Launchers |-> StdFds]
  /\ table = [q \in Process |-> IF q = parent THEN Opened ELSE [d \in Fds |-> Closed]]
  /\ cloexec = [q \in Process |-> IF q = parent THEN Flagged ELSE {}]
  /\ binds = [a \in Launches |-> <<>>]
  /\ pc = [a \in Launches |-> "idle"]
  /\ p = [a \in Launches |-> [e \in Ends |-> -1]]
  /\ guard = [a \in Launches |-> {}]
  /\ child = [a \in Launches |-> "none"]
  /\ left = [a \in Launches |-> <<>>]
  /\ kept = [a \in Launches |-> {}]
  /\ told = [a \in Launches |-> "nothing"]
  /\ result = [a \in Launches |-> "none"]

Goto(a, next) == pc' = [pc EXCEPT ![a] = next]

(***************************************************************************)
(* Return to the caller with r: ~pipe_guard closes, by number, the ends it *)
(* still holds, except for those that were swapped out of it.              *)
(***************************************************************************)
CloseEnds(a, ends) ==
  LET closing == {p[a][e] : e \in ends}
  IN  /\ table' = [table EXCEPT ![parent] =
           [d \in Fds |-> IF d \in closing THEN Closed ELSE @[d]]]
      /\ cloexec' = [cloexec EXCEPT ![parent] = @ \ closing]

\* Mutant: closes the error pipe only.
Return_OnlyErrorPipe(a, r, swapped) ==
  /\ result' = [result EXCEPT ![a] = r]
  /\ CloseEnds(a, guard[a] \cap {"er", "ew"})
  /\ guard' = [guard EXCEPT ![a] = {}]
  /\ Goto(a, "done")
  /\ UNCHANGED <<kind, binds, p>>

Return(a, r, swapped) ==
  /\ result' = [result EXCEPT ![a] = r]
  /\ CloseEnds(a, guard[a] \ swapped)
  /\ guard' = [guard EXCEPT ![a] = {}]
  /\ Goto(a, "done")
  /\ UNCHANGED <<kind, binds, p>>

Fail(a)    == Return(a, "error", {})
Succeed(a) == Return(a, "ok", IF Kind(a) = "pipe_fork" THEN {"wr"} ELSE {})


-------------------------------------------------------------------------------
(***************************************************************************)
(* The launching thread, up to the fork.  fork_and_forget_launcher and     *)
(* vfork_launcher open no pipe.                                            *)
(***************************************************************************)
Launch(a) ==
  /\ pc[a] = "idle"
  /\ \A b \in Launches \ {a} : Uses[b] = Uses[a] => pc[b] \in {"idle", "done"}
  /\ \E s \in Bindings : binds' = [binds EXCEPT ![a] = s]
  /\ Goto(a, IF ErrorPipe(a) THEN "pipe" ELSE "setup")
  /\ UNCHANGED <<kind, p, guard, result, childVars, fdVars>>

Free == {d \in Fds : ~IsOpen(parent, d)}

\* pipe(2): the two lowest free descriptors, or EMFILE.
OpenPipe(a, re, we, next) ==
  \/ /\ Cardinality(Free) < 2 /\ Fail(a)
     /\ UNCHANGED <<whitelist, childVars>>
  \/ /\ Cardinality(Free) >= 2
     /\ LET r == Min(Free)
            w == Min(Free \ {r})
        IN  /\ p' = [p EXCEPT ![a] = [@ EXCEPT ![re] = r, ![we] = w]]
            /\ table' = [table EXCEPT ![parent] = [@ EXCEPT ![r] = <<a, re>>, ![w] = <<a, we>>]]
     /\ guard' = [guard EXCEPT ![a] = @ \cup {re, we}]
     /\ Goto(a, next)
     /\ UNCHANGED <<kind, binds, result, whitelist, cloexec, childVars>>

\* Mutant: leaves the descriptor to be inherited.
SetCloexec_Not(a, we, next) ==
  /\ Goto(a, next)
  /\ UNCHANGED <<kind, binds, p, guard, result, fdVars, childVars>>

SetCloexec(a, we, next) ==
  /\ cloexec' = [cloexec EXCEPT ![parent] = @ \cup {p[a][we]}]
  /\ Goto(a, next)
  /\ UNCHANGED <<kind, binds, p, guard, result, whitelist, table, childVars>>

OpenErrorPipe(a) == pc[a] = "pipe" /\ OpenPipe(a, "er", "ew", "flag")
FlagErrorPipe(a) ==
  pc[a] = "flag" /\ SetCloexec(a, "ew", IF Kind(a) = "pipe_fork" THEN "wait_pipe" ELSE "setup")
OpenWaitPipe(a) == pc[a] = "wait_pipe" /\ OpenPipe(a, "wr", "ww", "wait_flag")
FlagWaitPipe(a) == pc[a] = "wait_flag" /\ SetCloexec(a, "ww", "setup")

\* Mutants: nothing is whitelisted; -1 is, for a pipe that was not opened.
WriteEnds_None(a) == {}
WriteEnds_Unopened(a) == {p[a][e] : e \in {"ew", "ww"}}

\* The pipes' write ends that stay open in the child.
WriteEnds(a) == {p[a][e] : e \in {"ew", "ww"}} \ {-1}

\* Mutant: on_setup whitelists nothing.
Pushed_None(a, n) == {}

\* What the first n bindings push to the whitelist.
Pushed(a, n) == {binds[a][i].target : i \in 1..n}

\* on_setup of the initializers in turn, until one of them fails; the
\* descriptors that were whitelisted before it stay in the launcher.
Setup(a) ==
  LET whitelisted(n) == whitelist[Uses[a]] \cup Pushed(a, n)
  IN  /\ pc[a] = "setup"
      /\ \/ /\ whitelist' = [whitelist EXCEPT ![Uses[a]] =
                               whitelisted(Len(binds[a])) \cup WriteEnds(a)]
            /\ Goto(a, "fork")
            /\ UNCHANGED <<kind, binds, p, guard, result, table, cloexec>>
         \/ /\ \E n \in 0..Len(binds[a]) :
                 whitelist' = [whitelist EXCEPT ![Uses[a]] = whitelisted(n)]
            /\ Fail(a)
      /\ UNCHANGED childVars

-------------------------------------------------------------------------------
(***************************************************************************)
(* fork, or vfork, and the first thing the child does: it closes the read  *)
(* end of the error pipe.                                                  *)
(***************************************************************************)
Forks(a) ==
  /\ child' = [child EXCEPT ![a] = "setup"]
  /\ left' = [left EXCEPT ![a] = binds[a]]
  /\ kept' = [kept EXCEPT ![a] = whitelist[Uses[a]]]
  /\ table' = [table EXCEPT ![a] =
       [d \in Fds |-> IF d = p[a]["er"] THEN Closed ELSE table[parent][d]]]
  /\ cloexec' = [cloexec EXCEPT ![a] = cloexec[parent]]
  /\ UNCHANGED told

Fork(a) ==
  /\ pc[a] = "fork"
  /\ \/ /\ Forks(a)
        /\ IF Kind(a) = "fork_and_forget"
             THEN Goto(a, "done") /\ result' = [result EXCEPT ![a] = "ok"]
             ELSE Goto(a, IF Kind(a) = "vfork" THEN "vfork" ELSE "close") /\ UNCHANGED result
        /\ UNCHANGED <<kind, binds, p, guard>>
     \/ Fail(a) /\ UNCHANGED childVars
  /\ UNCHANGED whitelist

-------------------------------------------------------------------------------
(***************************************************************************)
(* The child: one dup2 for each binding, close_all, execve.                *)
(***************************************************************************)
\* The child gives up: it writes errno for its parent, if it has a way to.
\* After vfork the parent sees the child's error_code itself.
ChildFails(a, errno) ==
  /\ child' = [child EXCEPT ![a] = "exiting"]
  /\ left' = [left EXCEPT ![a] = <<>>]
  /\ told' = [told EXCEPT ![a] =
       IF Kind(a) = "vfork" \/ (ErrorPipe(a) /\ table[a][p[a]["ew"]] = <<a, "ew">>)
       THEN errno ELSE @]
  /\ UNCHANGED <<kept, table, cloexec>>

\* dup2(fd, target) leaves target as it is when they are the same.
Duplicate(a, b) ==
  /\ table' = [table EXCEPT ![a] = [@ EXCEPT ![b.target] = table[a][b.fd]]]
  /\ cloexec' = [cloexec EXCEPT ![a] = IF b.fd = b.target THEN @ ELSE @ \ {b.target}]

Dup2(a) ==
  /\ child[a] = "setup" /\ left[a] # <<>>
  /\ LET b == Head(left[a])
     IN  \/ /\ IsOpen(a, b.fd) /\ Duplicate(a, b)
            /\ left' = [left EXCEPT ![a] = Tail(@)]
            /\ UNCHANGED <<child, kept, told>>
         \/ ~IsOpen(a, b.fd) /\ ChildFails(a, "E")
  /\ UNCHANGED <<whitelist, parentVars>>

\* An initializer's on_exec_setup, or close_all, returns an error.
ExecSetupFails(a) ==
  /\ child[a] = "setup"
  /\ \E e \in Errnos : ChildFails(a, e)
  /\ UNCHANGED <<whitelist, parentVars>>

\* Mutant: closes nothing.
CloseAll_Nothing(a) ==
  /\ child[a] = "setup" /\ left[a] = <<>>
  /\ child' = [child EXCEPT ![a] = "exec"]
  /\ UNCHANGED <<fdVars, left, kept, told, parentVars>>

\* The whitelist is reset in the child: after vfork that is the launcher's own.
CloseAll(a) ==
  /\ child[a] = "setup" /\ left[a] = <<>>
  /\ child' = [child EXCEPT ![a] = "exec"]
  /\ table' = [table EXCEPT ![a] = [d \in Fds |-> IF d \in kept[a] THEN @[d] ELSE Closed]]
  /\ whitelist' = IF Kind(a) = "vfork" THEN [whitelist EXCEPT ![Uses[a]] = StdFds] ELSE whitelist
  /\ UNCHANGED <<cloexec, left, kept, told, parentVars>>

Exec(a) ==
  /\ child[a] = "exec"
  /\ \/ /\ child' = [child EXCEPT ![a] = "running"]
        /\ table' = [table EXCEPT ![a] =
             [d \in Fds |-> IF d \in cloexec[a] THEN Closed ELSE @[d]]]
        /\ cloexec' = [cloexec EXCEPT ![a] = {}]
        /\ UNCHANGED <<left, kept, told>>
     \/ ChildFails(a, "E")
  /\ UNCHANGED <<whitelist, parentVars>>

ChildExits(a) ==
  /\ \/ child[a] = "exiting" /\ child' = [child EXCEPT ![a] = "zombie"]
     \/ child[a] = "running" /\ child' = [child EXCEPT ![a] = "exited"]
  /\ table' = [table EXCEPT ![a] = [d \in Fds |-> Closed]]
  /\ cloexec' = [cloexec EXCEPT ![a] = {}]
  /\ UNCHANGED <<whitelist, left, kept, told, parentVars>>

-------------------------------------------------------------------------------
(***************************************************************************)
(* The launching thread after the fork: it reads from the error pipe, to   *)
(* the child's errno or to the end of file, and gives the caller an error  *)
(* or a process.                                                           *)
(***************************************************************************)
\* Mutant: the members are not set to -1, the guard closes them once more.
CloseWriteEnds_NoReset(a) ==
  /\ pc[a] = "close"
  /\ CloseEnds(a, guard[a] \cap {"ew", "ww"})
  /\ Goto(a, "read")
  /\ UNCHANGED <<kind, binds, p, guard, result, whitelist, childVars>>

CloseWriteEnds(a) ==
  LET ends == guard[a] \cap {"ew", "ww"}
  IN  /\ pc[a] = "close"
      /\ CloseEnds(a, ends)
      /\ guard' = [guard EXCEPT ![a] = @ \ ends]
      /\ Goto(a, "read")
      /\ UNCHANGED <<kind, binds, p, result, whitelist, childVars>>

\* Mutant: nobody waits for the child.
Answer_NoWait(a) == IF told[a] = "E" THEN Fail(a) ELSE Succeed(a)

\* An errno of 0 is no error.
Answer(a) ==
  \/ told[a] = "E" /\ Kind(a) = "pipe_fork" /\ Fail(a)
  \/ told[a] = "E" /\ Kind(a) # "pipe_fork" /\ Goto(a, "reap")
     /\ UNCHANGED <<kind, binds, p, guard, result, table, cloexec>>
  \/ told[a] # "E" /\ Succeed(a)

ReadErrno(a) ==
  /\ pc[a] = "read"
  /\ told[a] # "nothing" \/ ~Held(<<a, "ew">>)
  /\ Answer(a)
  /\ UNCHANGED <<whitelist, childVars>>

\* vfork suspends the thread until the child has called execve or _exit.
VforkReturns(a) ==
  /\ pc[a] = "vfork" /\ child[a] \in {"running", "exited", "zombie"}
  /\ Answer(a)
  /\ UNCHANGED <<whitelist, childVars>>

ReapFailed(a) ==
  /\ pc[a] = "reap" /\ child[a] = "zombie"
  /\ child' = [child EXCEPT ![a] = "reaped"]
  /\ Fail(a)
  /\ UNCHANGED <<whitelist, left, kept, told>>

-------------------------------------------------------------------------------
\* Another thread of the program opens a file.
UserOpens ==
  /\ Free # {}
  /\ \E f \in Users : ~Held(f) /\
       table' = [table EXCEPT ![parent] = [@ EXCEPT ![Min(Free)] = f]]
  /\ UNCHANGED <<whitelist, cloexec, parentVars, childVars>>

Next ==
  \/ \E a \in Launches :
       \/ Launch(a)
       \/ OpenErrorPipe(a) \/ FlagErrorPipe(a) \/ OpenWaitPipe(a) \/ FlagWaitPipe(a)
       \/ Setup(a) \/ Fork(a) \/ CloseWriteEnds(a) \/ ReadErrno(a)
       \/ VforkReturns(a) \/ ReapFailed(a)
       \/ Dup2(a) \/ ExecSetupFails(a) \/ CloseAll(a) \/ Exec(a) \/ ChildExits(a)
  \/ UserOpens

\* Fairness: the threads run, and so does a child until its execve or its exit.
ParentStep(a) ==
  \/ OpenErrorPipe(a) \/ FlagErrorPipe(a) \/ OpenWaitPipe(a) \/ FlagWaitPipe(a)
  \/ Setup(a) \/ Fork(a) \/ CloseWriteEnds(a) \/ ReadErrno(a)
  \/ VforkReturns(a) \/ ReapFailed(a)

ChildStep(a) ==
  Dup2(a) \/ CloseAll(a) \/ Exec(a) \/ (child[a] = "exiting" /\ ChildExits(a))

Spec     == Init /\ [][Next]_vars
FairSpec == Spec /\ \A a \in Launches : WF_vars(ParentStep(a)) /\ WF_vars(ChildStep(a))

-------------------------------------------------------------------------------
(***************************************************************************)
(* Properties.                                                             *)
(***************************************************************************)
Started(a) == child[a] \in {"running", "exited"}

(***************************************************************************)
(* A launch that reports success has started its program, and one that     *)
(* reports an error has not: this is what the error pipe and the shared    *)
(* error_code of vfork are for.  And the program finds behind each target  *)
(* the file its launch bound to it.                                        *)
(***************************************************************************)
BindingsHold(a) ==
  child[a] = "running" =>
    \A i \in DOMAIN binds[a] : table[a][binds[a][i].target] = Opened[binds[a][i].fd]

LaunchTruthful ==
  \A a \in Launches :
    /\ BindingsHold(a)
    /\ Kind(a) # "fork_and_forget" =>
         /\ result[a] = "ok" => Started(a)
         /\ result[a] = "error" => ~Started(a)

(***************************************************************************)
(* A program gets no descriptor of its parent but the standard ones and    *)
(* the targets it was given, whatever the other threads had open when it   *)
(* was forked.                                                             *)
(***************************************************************************)
OnlyWhitelisted ==
  \A a \in Launches, d \in Fds : child[a] = "running" /\ IsOpen(a, d) =>
    d \in StdFds \cup Targets(binds[a])

(***************************************************************************)
(* A launch that is over has left no end of its pipes in the parent, but   *)
(* for the one a process of pipe_fork_launcher waits with, on every path   *)
(* out of it.                                                              *)
(***************************************************************************)
NoLeak ==
  \A a \in Launches, d \in Fds, e \in Ends : result[a] # "none" /\ table[parent][d] = <<a, e>> =>
    result[a] = "ok" /\ Kind(a) = "pipe_fork" /\ e = "wr"

(***************************************************************************)
(* A launch that reports an error leaves no process and no zombie behind.  *)
(* pipe_fork_launcher does not wait for the child whose execve failed.     *)
(***************************************************************************)
NoZombie ==
  \A a \in Launches : result[a] = "error" /\ Kind(a) # "pipe_fork" =>
    child[a] \in {"none", "reaped"}

(***************************************************************************)
(* A launch closes no file of the program, though it closes by number and  *)
(* numbers are given out again at once.                                    *)
(***************************************************************************)
UserFilesStay ==
  [][\A d \in Fds : table[parent][d] \in Users => table'[parent][d] = table[parent][d]]_vars

(***************************************************************************)
(* Every launch returns: the read from its error pipe ends, though other   *)
(* children may have inherited the write end.                              *)
(***************************************************************************)
LaunchReturns == \A a \in Launches : pc[a] # "idle" ~> pc[a] = "done"

===============================================================================
