------------------------------ MODULE ChildTable ------------------------------
(***************************************************************************)
(* The kernel as the library sees it: the calling process's children and   *)
(* what waitpid(2), kill(2) and SIGCHLD do to them.  None of it is code of *)
(* the library; it is modelled from the calls the library makes.           *)
(*                                                                         *)
(* A member of Procs stands for one child process for good, a pid only     *)
(* while that child has not been reaped: once it has, the kernel may give  *)
(* the pid to a later child (PidReuse).                                    *)
(***************************************************************************)
EXTENDS ExitCode, FiniteSets

CONSTANTS
  Procs,      \* the child processes
  Pids,       \* the process ids the kernel hands out
  ExitCodes,  \* the values a child passes to exit(3)
  PidReuse    \* whether the pid of a reaped child may be handed out again

ASSUME ChildAssumption ==
  /\ Pids \subseteq Nat \ {0}
  /\ ExitCodes \subseteq 0..255
  /\ PidReuse \in BOOLEAN

VARIABLES
  st,       \* [Procs -> life cycle of the child]
  pid,      \* [Procs -> its pid, 0 before fork]
  status,   \* [Procs -> its wait status, still_active until it terminates]
  pend,     \* [Procs -> fatal signals sent to it and not acted upon yet]
  sigchld   \* a SIGCHLD is pending for the calling process

kernelVars == <<st, pid, status, pend, sigchld>>

SIGINT  == 2
SIGKILL == 9
SIGTERM == 15
SIGCONT == 18
SIGSTOP == 19

FatalSignals == {SIGINT, SIGKILL, SIGTERM}
FinalStatus  == {ExitedWith(n) : n \in ExitCodes} \cup {KilledBy(s) : s \in FatalSignals}

KernelTypeOK ==
  /\ st \in [Procs -> {"unborn", "running", "stopped", "zombie", "reaped"}]
  /\ pid \in [Procs -> Pids \cup {0}]
  /\ status \in [Procs -> FinalStatus \cup {still_active}]
  /\ pend \in [Procs -> SUBSET FatalSignals]
  /\ sigchld \in BOOLEAN

KernelInit ==
  /\ st = [o \in Procs |-> "unborn"]
  /\ pid = [o \in Procs |-> 0]
  /\ status = [o \in Procs |-> still_active]
  /\ pend = [o \in Procs |-> {}]
  /\ sigchld = FALSE

HoldsPid(o)   == st[o] \in {"running", "stopped", "zombie"}
Terminated(o) == st[o] \in {"zombie", "reaped"}

\* The child a pid names now, as a set of at most one member.
WithPid(p) == {o \in Procs : HoldsPid(o) /\ pid[o] = p}

-------------------------------------------------------------------------------
(***************************************************************************)
(* Steps of the children.  caught says whether the calling process has a   *)
(* SIGCHLD handler; without one the signal is ignored.                     *)
(***************************************************************************)
Fork(o, p) ==
  /\ st[o] = "unborn"
  /\ \A q \in Procs : pid[q] = p => PidReuse /\ st[q] = "reaped"
  /\ st' = [st EXCEPT ![o] = "running"]
  /\ pid' = [pid EXCEPT ![o] = p]
  /\ UNCHANGED <<status, pend, sigchld>>

Terminates(o, s, caught) ==
  /\ st' = [st EXCEPT ![o] = "zombie"]
  /\ status' = [status EXCEPT ![o] = s]
  /\ pend' = [pend EXCEPT ![o] = {}]
  /\ sigchld' = (sigchld \/ caught)
  /\ UNCHANGED pid

ChildExit(o, caught) ==
  /\ st[o] = "running"
  /\ \E n \in ExitCodes : Terminates(o, ExitedWith(n), caught)

\* SIGKILL also takes a stopped child; the others wait until it is resumed.
DieOfSignal(o, s, caught) ==
  /\ s \in pend[o]
  /\ st[o] = "running" \/ (st[o] = "stopped" /\ s = SIGKILL)
  /\ Terminates(o, KilledBy(s), caught)

IgnoreSignal(o, s) ==
  /\ st[o] = "running"
  /\ s \in pend[o] \ {SIGKILL}
  /\ pend' = [pend EXCEPT ![o] = @ \ {s}]
  /\ UNCHANGED <<st, pid, status, sigchld>>

-------------------------------------------------------------------------------
(***************************************************************************)
(* System calls of the library.                                            *)
(***************************************************************************)
\* What waitpid(p, ..., WNOHANG) answers.
ChildGone(p)   == WithPid(p) = {}
ChildZombie(p) == \E o \in WithPid(p) : st[o] = "zombie"
ChildAlive(p)  == \E o \in WithPid(p) : st[o] # "zombie"

StatusOf(p) == status[CHOOSE o \in WithPid(p) : TRUE]

Reap(p) ==
  /\ st' = [o \in Procs |-> IF o \in WithPid(p) THEN "reaped" ELSE st[o]]
  /\ UNCHANGED <<pid, status, pend, sigchld>>

\* kill(p, s) when p names a child.  A zombie takes the signal and ignores it.
Kill(p, s, caught) ==
  LET takes(o) == o \in WithPid(p) /\ st[o] # "zombie"
  IN  /\ pend' = [o \in Procs |-> IF takes(o) THEN pend[o] \cup ({s} \cap FatalSignals)
                                              ELSE pend[o]]
      /\ st' = [o \in Procs |-> IF takes(o) /\ s = SIGSTOP THEN "stopped"
                                ELSE IF takes(o) /\ s = SIGCONT THEN "running"
                                ELSE st[o]]
      /\ sigchld' = (sigchld \/ (caught /\ st' # st))
      /\ UNCHANGED <<pid, status>>

===============================================================================
