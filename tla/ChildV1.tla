------------------------------- MODULE ChildV1 -------------------------------
(***************************************************************************)
(* child of v1 on POSIX, over sigchld_service.                             *)
(*                                                                         *)
(* Object o launches the child o, with an on_exit handler or without.      *)
(* The calls on one object exclude each other; calls on different objects, *)
(* the strand and the kernel interleave.  _exit_status is the one variable *)
(* a call shares with the strand.  The signal_set exists from the start:   *)
(* an earlier launch on the io_context has created it.                     *)
(***************************************************************************)
EXTENDS SigchldService

CONSTANTS
  Calls,        \* bound: [Procs -> the member functions its caller uses]
  PidFor,       \* bound: [Procs -> the pids the kernel may give the child]
  Kinds,        \* bound: [Procs -> with an on_exit handler or without]
  OneTimedWait  \* the callers do not let two calls of wait_until overlap

ASSUME ChildV1Assumption ==
  /\ PidFor \in [Procs -> SUBSET Pids]
  /\ Kinds \in [Procs -> SUBSET {"plain", "on_exit"}]
  /\ OneTimedWait \in BOOLEAN

VARIABLES
  obj,         \* [Procs -> life of the object, with _attached]
  terminated,  \* [Procs -> _terminated]
  pc,          \* [Procs -> where its thread is, between system calls]
  call,        \* [Procs -> the member function that runs]
  result,      \* [Procs -> exit_code, the local variable of that function]
  disposition, \* the handler installed for SIGCHLD
  saved,       \* [Procs -> sigchld_handler of the thread in wait_until]
  eaten        \* history: some SIGCHLD did not get to Asio's handler

childVars == <<obj, terminated, pc, call, result>>
timedVars == <<disposition, saved, eaten>>
vars      == <<kernelVars, serviceVars, childVars, timedVars>>

ChildTypeOK ==
  /\ obj \in [Procs -> {"absent", "attached", "detached", "gone"}]
  /\ terminated \in [Procs -> BOOLEAN]
  /\ pc \in [Procs -> {"idle", "plain", "on_exit", "poll", "check", "store", "wait",
                       "kill", "reap", "sleep", "look", "last_look"}]
  /\ call \in [Procs -> {"none", "running", "terminate", "destroy", "destroying",
                         "wait", "wait_until"}]
  /\ result \in [Procs -> FinalStatus \cup {0}]

TimedTypeOK ==
  /\ disposition \in {"asio", "interceptor"}
  /\ saved \in [Procs -> {"default", "asio", "interceptor"}]
  /\ eaten \in BOOLEAN

TypeOK == KernelTypeOK /\ ServiceTypeOK /\ ChildTypeOK /\ TimedTypeOK

Init ==
  /\ KernelInit /\ ServiceInit
  /\ obj = [o \in Procs |-> "absent"]
  /\ terminated = [o \in Procs |-> FALSE]
  /\ pc = [o \in Procs |-> "idle"]
  /\ call = [o \in Procs |-> "none"]
  /\ result = [o \in Procs |-> 0]
  /\ disposition = "asio"
  /\ saved = [o \in Procs |-> "default"]
  /\ eaten = FALSE

\* Mutant: forgets that the child was terminated.
Exited_ByStatus(o) == ~process_is_running(exit_status[o])

Exited(o)     == terminated[o] \/ ~process_is_running(exit_status[o])
MayCall(o, c) == obj[o] \in {"attached", "detached"} /\ pc[o] = "idle" /\ c \in Calls[o]

Goto(o, where) == pc' = [pc EXCEPT ![o] = where]

\* The call c on o ends with answer.
Done(o, c, answer) ==
  /\ Goto(o, "idle")
  /\ call' = [call EXCEPT ![o] = "none"]
  /\ result' = [result EXCEPT ![o] = 0]
  /\ IF c \in {"destroy", "destroying"}
       THEN /\ obj' = [obj EXCEPT ![o] = "gone"]
            /\ terminated' = [terminated EXCEPT ![o] = FALSE]
       ELSE /\ terminated' = [terminated EXCEPT ![o] = @ \/ (c = "terminate" /\ answer # "error")]
            /\ UNCHANGED obj

\* The call c on o goes on.
Move(o, c, where) ==
  /\ Goto(o, where)
  /\ call' = [call EXCEPT ![o] = c]
  /\ UNCHANGED <<obj, terminated, result>>

-------------------------------------------------------------------------------
(***************************************************************************)
(* The executor forks; on_success of io_context_ref starts the wait.       *)
(***************************************************************************)
LaunchFork(o) ==
  /\ obj[o] = "absent" /\ pc[o] = "idle"
  /\ \E p \in PidFor[o] : Fork(o, p)
  /\ \E kind \in Kinds[o] : Goto(o, kind)
  /\ UNCHANGED <<obj, terminated, call, result, serviceVars, timedVars>>

Construct(o) ==
  /\ pc[o] = "plain"
  /\ Goto(o, "idle")
  /\ obj' = [obj EXCEPT ![o] = "attached"]
  /\ UNCHANGED <<terminated, call, result, kernelVars, serviceVars, timedVars>>

OnSuccess(o) ==
  /\ pc[o] = "on_exit"
  /\ \/ Initiate(o)
     \/ Register(o) /\ UNCHANGED kernelVars
  /\ IF request'[o] = "initiating"
       THEN UNCHANGED <<pc, obj>>
       ELSE Goto(o, "idle") /\ obj' = [obj EXCEPT ![o] = "attached"]
  /\ UNCHANGED <<terminated, call, result, timedVars>>

-------------------------------------------------------------------------------
(***************************************************************************)
(* running(), terminate() and ~child().  The last two begin with a call of *)
(* running(), the destructor with two.  ECHILD is no error to running():   *)
(* it then stores the 0 its local variable was initialized with.           *)
(***************************************************************************)
Begin(o, c, where) ==
  /\ MayCall(o, c)
  /\ IF Exited(o) \/ (c = "destroy" /\ obj[o] = "detached")
       THEN Done(o, c, "over")
       ELSE Move(o, c, where)
  /\ UNCHANGED <<kernelVars, serviceVars, timedVars>>

Running(o)   == Begin(o, "running", "poll")
Terminate(o) == Begin(o, "terminate", "poll")
Destroy(o)   == Begin(o, "destroy", "poll")

\* exit_code gets the status that waitpid has stored, if it has.
Got(o, where) ==
  /\ Goto(o, where)
  /\ result' = [result EXCEPT ![o] = IF ChildZombie(pid[o]) THEN StatusOf(pid[o]) ELSE 0]
  /\ UNCHANGED <<obj, terminated, call>>

Poll(o) ==
  /\ pc[o] = "poll"
  /\ \/ ~ChildAlive(pid[o]) /\ Reap(pid[o]) /\ Got(o, "check")
     \/ /\ ChildAlive(pid[o])
        /\ CASE call[o] = "running" -> Done(o, "running", "alive")
             [] call[o] = "destroy" -> Move(o, "destroying", "poll")
             [] OTHER               -> Move(o, call[o], "kill")
        /\ UNCHANGED kernelVars
  /\ UNCHANGED <<serviceVars, timedVars>>

Check(o) ==
  /\ pc[o] = "check"
  /\ IF Exited(o) THEN Done(o, call[o], "over") ELSE Move(o, call[o], "store")
  /\ UNCHANGED <<kernelVars, serviceVars, timedVars>>

Store(o) ==
  /\ pc[o] = "store"
  /\ exit_status' = [exit_status EXCEPT ![o] = result[o]]
  /\ Done(o, call[o], "over")
  /\ UNCHANGED <<kernelVars, timedVars, request, found, receivers,
                 handling, todo, armed, queued, kept, sigpipe>>

\* kill of a child the strand has reaped meanwhile fails, and then so does
\* waitpid.
KillChild(o) ==
  /\ pc[o] = "kill"
  /\ Kill(pid[o], SIGKILL, TRUE)
  /\ IF ChildGone(pid[o]) THEN Done(o, call[o], "error") ELSE Move(o, call[o], "reap")
  /\ UNCHANGED <<serviceVars, timedVars>>

\* Mutant: does not wait for the end.
ReapKilled_NoHang(o) ==
  /\ pc[o] = "reap"
  /\ IF ChildZombie(pid[o]) THEN Reap(pid[o]) ELSE UNCHANGED kernelVars
  /\ Done(o, call[o], "over")
  /\ UNCHANGED <<serviceVars, timedVars>>

ReapKilled(o) ==
  /\ pc[o] = "reap" /\ ~ChildAlive(pid[o])
  /\ Reap(pid[o])
  /\ Done(o, call[o], "over")
  /\ UNCHANGED <<serviceVars, timedVars>>

-------------------------------------------------------------------------------
(***************************************************************************)
(* wait() and detach().                                                    *)
(***************************************************************************)
Wait(o) == Begin(o, "wait", "wait")

\* The status is stored without another look at _exited().
Waited(o) ==
  IF ChildZombie(pid[o]) THEN Got(o, "store") ELSE Done(o, call[o], "error")

WaitReturns(o) ==
  /\ pc[o] = "wait" /\ ~ChildAlive(pid[o])
  /\ Reap(pid[o]) /\ Waited(o)
  /\ UNCHANGED <<serviceVars, timedVars>>

Detach(o) ==
  /\ MayCall(o, "detach")
  /\ obj' = [obj EXCEPT ![o] = "detached"]
  /\ UNCHANGED <<terminated, pc, call, result, kernelVars, serviceVars, timedVars>>

-------------------------------------------------------------------------------
(***************************************************************************)
(* wait_for() and wait_until(), with sigtimedwait.  They replace the       *)
(* process's handler for SIGCHLD while they run and sleep before they look *)
(* at the child.                                                           *)
(***************************************************************************)
Timed(o) == pc[o] \in {"sleep", "look", "last_look"}

WaitUntil(o) ==
  /\ MayCall(o, "wait_until")
  /\ OneTimedWait => \A q \in Procs : ~Timed(q)
  /\ IF Exited(o)
       THEN Done(o, "wait_until", "over") /\ UNCHANGED timedVars
       ELSE /\ Move(o, "wait_until", "sleep")
            /\ saved' = [saved EXCEPT ![o] = disposition]
            /\ disposition' = "interceptor"
            /\ UNCHANGED eaten
  /\ UNCHANGED <<kernelVars, serviceVars>>

\* A SIGCHLD that sigtimedwait takes is handed to the saved handler with the
\* result of waitpid in place of the signal number: Asio drops it.
Wake(o) ==
  /\ pc[o] = "sleep"
  /\ \/ sigchld /\ sigchld' = FALSE /\ eaten' = TRUE /\ Goto(o, "look")
     \/ Goto(o, "last_look") /\ UNCHANGED <<sigchld, eaten>>
  /\ UNCHANGED <<disposition, saved, st, pid, status, pend, serviceVars,
                 obj, terminated, call, result>>

LeaveTimedWait(o) ==
  /\ saved' = [saved EXCEPT ![o] = "default"]
  /\ UNCHANGED eaten

\* Mutant: the destructor of signal_interceptor does nothing.
Restore_Not(o) == LeaveTimedWait(o) /\ UNCHANGED disposition

\* The destructor of signal_interceptor.
Restore(o) == LeaveTimedWait(o) /\ disposition' = saved[o]

\* Mutant: sleeps again, late or not.
StillTimed_Forever(o) == Move(o, "wait_until", "sleep") /\ UNCHANGED timedVars

\* The child is alive: sleep again, or give up when the clock says so.
StillTimed(o) ==
  \/ pc[o] = "look" /\ Move(o, "wait_until", "sleep") /\ UNCHANGED timedVars
  \/ Done(o, "wait_until", "timeout") /\ Restore(o)

Look(o) ==
  /\ pc[o] \in {"look", "last_look"}
  /\ \/ ChildAlive(pid[o]) /\ StillTimed(o) /\ UNCHANGED kernelVars
     \/ ~ChildAlive(pid[o]) /\ Reap(pid[o]) /\ Waited(o) /\ Restore(o)
  /\ UNCHANGED <<serviceVars>>

-------------------------------------------------------------------------------
(***************************************************************************)
(* The kernel and the other threads (external).  handler_func forwards a   *)
(* signal only on the thread that is in wait_until: sigchld_handler is     *)
(* thread_local.  The waitpid of terminate() is not repeated on EINTR.     *)
(***************************************************************************)
CatchSigchld ==
  /\ sigchld /\ sigchld' = FALSE
  /\ \/ /\ disposition = "asio" \/ \E o \in Procs : Timed(o) /\ saved[o] = "asio"
        /\ sigpipe' = TRUE /\ UNCHANGED eaten
     \/ /\ disposition = "interceptor"
        /\ eaten' = TRUE /\ UNCHANGED sigpipe
  /\ \/ UNCHANGED <<obj, terminated, pc, call, result>>
     \/ \E o \in Procs : pc[o] = "reap" /\ ChildAlive(pid[o]) /\ Done(o, call[o], "over")
  /\ UNCHANGED <<st, pid, status, pend, disposition, saved,
                 exit_status, request, found, receivers, handling, todo, armed, queued, kept>>

Killed(o) == DieOfSignal(o, SIGKILL, TRUE) /\ UNCHANGED <<serviceVars, childVars, timedVars>>

Child(o) ==
  \/ ChildExit(o, TRUE) /\ UNCHANGED <<serviceVars, childVars, timedVars>>
  \/ Killed(o)

Receiver(o) == PollReceiver(o) \/ CallReceiver(o) \/ HandlerReturns(o)

Strand ==
  /\ HandleSignal \/ FinishLoop \/ \E o \in Procs : Receiver(o)
  /\ UNCHANGED <<childVars, timedVars>>

Reactor == DeliverSigchld /\ UNCHANGED <<childVars, timedVars>>

Next ==
  \/ \E o \in Procs :
       \/ LaunchFork(o) \/ Construct(o) \/ OnSuccess(o)
       \/ Running(o) \/ Terminate(o) \/ Destroy(o)
       \/ Poll(o) \/ Check(o) \/ Store(o) \/ KillChild(o) \/ ReapKilled(o)
       \/ Wait(o) \/ WaitReturns(o) \/ Detach(o)
       \/ WaitUntil(o) \/ Wake(o) \/ Look(o)
       \/ Child(o)
  \/ Strand \/ Reactor \/ CatchSigchld

(***************************************************************************)
(* Fairness: a call between two system calls goes on, time passes, the     *)
(* io_context is being run and its handlers return, signals are delivered. *)
(* Nobody has to call anything, and no child has to exit unless killed.    *)
(***************************************************************************)
Fairness ==
  /\ \A o \in Procs :
       /\ WF_vars(Construct(o)) /\ WF_vars(OnSuccess(o))
       /\ WF_vars(Poll(o)) /\ WF_vars(Check(o)) /\ WF_vars(Store(o))
       /\ WF_vars(KillChild(o)) /\ WF_vars(ReapKilled(o)) /\ WF_vars(WaitReturns(o))
       /\ WF_vars(Wake(o)) /\ WF_vars(Look(o))
       /\ WF_vars(Killed(o))
  /\ WF_vars(Strand) /\ WF_vars(Reactor) /\ WF_vars(CatchSigchld)

Spec     == Init /\ [][Next]_vars
FairSpec == Spec /\ Fairness

-------------------------------------------------------------------------------
(***************************************************************************)
(* Properties.                                                             *)
(***************************************************************************)

(***************************************************************************)
(* While a receiver waits for a child that is dead, and its loop is over,  *)
(* a signal that will wake the service is on its way, unless wait_until    *)
(* has eaten one: the service arms its signal_set whenever the list is not *)
(* empty, and no end of a child falls between a poll and the next wait.    *)
(***************************************************************************)
NoLostExit ==
  \A o \in Procs : request[o] = "waiting" /\ Terminated(o) /\ ~eaten =>
    \/ sigchld \/ sigpipe \/ queued
    \/ o \in todo
    \/ kept > 0 /\ handling

(***************************************************************************)
(* A child without an on_exit handler: a final status the object holds is  *)
(* the one the kernel gave it, also after terminate() and wait_until().    *)
(***************************************************************************)
LoneStatusTruthful ==
  \A o \in Procs : request[o] = "none" /\ ~process_is_running(exit_status[o]) =>
    exit_status[o] = status[o] /\ st[o] = "reaped"

(***************************************************************************)
(* While no call of wait_until runs, SIGCHLD goes to Asio's handler.       *)
(***************************************************************************)
DispositionRestored == (\A o \in Procs : ~Timed(o)) => disposition = "asio"

(***************************************************************************)
(* The destructor of a child that is attached, and that terminate() has    *)
(* not been called for, leaves no process and no zombie, unless a SIGCHLD  *)
(* interrupts its waitpid in that very step.                               *)
(***************************************************************************)
DestroyReaps ==
  [][\A o \in Procs : obj[o] = "attached" /\ obj'[o] = "gone" /\ ~terminated[o] =>
       st'[o] = "reaped" \/ (sigchld /\ ~sigchld')]_vars

(***************************************************************************)
(* When running() reports the end of a child, and when wait() returns      *)
(* without an error, the object holds the child's status.                  *)
(***************************************************************************)
ExitCodeMeaningful ==
  [][\A o \in Procs :
       call[o] \in {"running", "wait"} /\ pc[o] \in {"check", "store"} /\ pc'[o] = "idle" =>
         exit_status'[o] = status[o]]_vars

(***************************************************************************)
(* An on_exit handler is called once its child has terminated, unless      *)
(* wait_until has eaten a SIGCHLD.                                         *)
(***************************************************************************)
OnExitCalled ==
  \A o \in Procs : request[o] # "none" /\ Terminated(o) ~> request[o] = "over" \/ eaten

(***************************************************************************)
(* terminate(), the destructor and wait_until() return, also while the     *)
(* strand takes the status away from them.                                 *)
(***************************************************************************)
CallsReturn ==
  \A o \in Procs : pc[o] \in {"poll", "kill", "reap", "sleep"} ~> pc[o] = "idle"

(***************************************************************************)
(* The on_exit handlers keep the promise of module ExitNotice: called at   *)
(* most once, after the end, with the child's code; called with an error   *)
(* only if a call on the object took the status.                           *)
(***************************************************************************)
Taken(o) == st[o] = "reaped" /\ found[o] \notin FinalStatus

Notice ==
  INSTANCE ExitNotice WITH
    Waits     <- Procs,
    WaitOn    <- [o \in Procs |-> o],
    Statuses  <- FinalStatus,
    outcome   <- status,
    released  <- [o \in Procs |-> Taken(o)],
    cancelled <- [o \in Procs |-> FALSE],
    notice    <- [o \in Procs |->
                    IF request[o] = "none" THEN "none"
                    ELSE IF request[o] \notin {"inside", "over"} THEN "pending"
                    ELSE IF found[o] = -1 THEN "failed" ELSE "answered"],
    code      <- [o \in Procs |->
                    evaluate_exit_code(IF request[o] \in {"inside", "over"} /\ found[o] # -1
                                         THEN found[o] ELSE still_active)]

KeepsPromise == Notice!Spec

===============================================================================
