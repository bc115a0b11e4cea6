----------------------------- MODULE BasicProcess -----------------------------
(***************************************************************************)
(* basic_process (v2/process.hpp) over one of the three POSIX handles:     *)
(* basic_process_handle_signal, _fd and _fd_or_signal, with the parts of   *)
(* Asio that they wait with.                                               *)
(*                                                                         *)
(* Object o launches one child, and the child is named o too, so that a    *)
(* stale pid shows: hpid[o] is the pid the handle holds, pid[o] the pid of *)
(* the child.  The objects run on threads of their own; the calls on one   *)
(* object and the handlers of its waits are serialized, as its             *)
(* documentation demands of the caller.                                    *)
(***************************************************************************)
EXTENDS ChildTable

CONSTANTS
  Variant,        \* which handle the platform configuration selects
  Descriptor,     \* what an _fd or _fd_or_signal handle holds besides the pid
  Waits,          \* the calls of async_wait
  WaitOn,         \* [Waits -> the object each of them waits for]
  OneThread,      \* the io_context is run by one thread
  Calls,          \* bound: the member functions the callers use
  MaxUndelivered  \* bound: signals a signal_set keeps for later waits

ASSUME BasicProcessAssumption ==
  /\ Variant \in {"signal", "fd", "fd_or_signal"}
  /\ Descriptor \in {"none", "pidfd", "pipe"}
  /\ WaitOn \in [Waits -> Procs]
  /\ OneThread \in BOOLEAN
  /\ MaxUndelivered \in Nat \ {0}

VARIABLES
  obj,          \* [Procs -> life of the object]
  hpid,         \* [Procs -> pid_ of its handle]
  exit_status,  \* [Procs -> exit_status_]
  pc,           \* [Procs -> where its thread is, between system calls]
  ec,           \* [Procs -> error of the last call that polled or waited]
  strayed,      \* history: some object signalled or reaped another's child
  undelivered,  \* [Procs -> signals its signal_set keeps for later waits]
  phase,        \* [Waits -> how far the operation async_wait started is]
  wpid,         \* [Waits -> the pid_ the operation copied from the handle]
  err,          \* [Waits -> the error its handler was queued or completed with]
  cancelled,    \* [Waits -> its cancellation slot has been emitted]
  code,         \* [Waits -> the exit code it completed with]
  sigpipe       \* the SIGCHLD handler has written to Asio's pipe

procVars == <<obj, hpid, exit_status, pc, ec, strayed>>
opVars   == <<phase, wpid, err, cancelled, code>>
waitVars == <<undelivered, sigpipe, opVars>>
vars     == <<kernelVars, procVars, waitVars>>

HasSignalSet == Variant # "fd"
OnDescriptor == Variant = "fd" \/ (Variant = "fd_or_signal" /\ Descriptor # "none")

Exists(o) == obj[o] \in {"open", "detached"}

\* Asio installs the SIGCHLD handler with the first signal_set, for the process.
Caught == HasSignalSet /\ \E o \in Procs : Exists(o)

WaitsOf(o)   == {w \in Waits : WaitOn[w] = o}
Suspended(w) == phase[w] \in {"ready", "armed"}
Pending(w)   == phase[w] \in {"ready", "armed", "arming", "blocking"}

\* A call on o is inside a system call, or between two.
Busy(o)   == pc[o] # "idle" \/ \E w \in WaitsOf(o) : Pending(w) /\ ~Suspended(w)
Usable(o) == Exists(o) /\ ~Busy(o)

MayCall(o, call) == Usable(o) /\ call \in Calls

Strays(o, p) == strayed \/ \E q \in WithPid(p) : q # o

Known == FinalStatus \cup {still_active, 0}

ProcTypeOK ==
  /\ obj \in [Procs -> {"absent", "open", "detached", "destroyed"}]
  /\ hpid \in [Procs -> Pids \cup {-1}]
  /\ exit_status \in [Procs -> Known]
  /\ pc \in [Procs -> {"idle", "fork", "wait", "kill", "reap"}]
  /\ ec \in [Procs -> {"ok", "ECHILD"}]
  /\ strayed \in BOOLEAN

OpTypeOK ==
  /\ phase \in [Waits -> {"none", "ready", "arming", "armed", "blocking", "done"}]
  /\ wpid \in [Waits -> Pids \cup {-1}]
  /\ err \in [Waits -> {"ok", "ECHILD", "EBADF", "ECANCELED"}]
  /\ cancelled \in [Waits -> BOOLEAN]
  /\ code \in [Waits -> {evaluate_exit_code(s) : s \in Known}]

TypeOK ==
  /\ KernelTypeOK /\ ProcTypeOK /\ OpTypeOK
  /\ undelivered \in [Procs -> 0..MaxUndelivered]
  /\ sigpipe \in BOOLEAN

Init ==
  /\ KernelInit
  /\ obj = [o \in Procs |-> "absent"]
  /\ hpid = [o \in Procs |-> -1]
  /\ exit_status = [o \in Procs |-> still_active]
  /\ pc = [o \in Procs |-> "idle"]
  /\ ec = [o \in Procs |-> "ok"]
  /\ strayed = FALSE
  /\ undelivered = [o \in Procs |-> 0]
  /\ phase = [w \in Waits |-> "none"]
  /\ wpid = [w \in Waits |-> -1]
  /\ err = [w \in Waits |-> "ok"]
  /\ cancelled = [w \in Waits |-> FALSE]
  /\ code = [w \in Waits |-> evaluate_exit_code(still_active)]
  /\ sigpipe = FALSE

-------------------------------------------------------------------------------
(***************************************************************************)
(* Construction: the launcher forks, then builds the process from the pid. *)
(***************************************************************************)
LaunchFork(o) ==
  /\ obj[o] = "absent" /\ pc[o] = "idle"
  /\ \E p \in Pids : Fork(o, p)
  /\ pc' = [pc EXCEPT ![o] = "fork"]
  /\ UNCHANGED <<obj, hpid, exit_status, ec, strayed, waitVars>>

\* Mutant: exit_status_ starts as 0.
Construct_ZeroStatus(o) ==
  /\ pc[o] = "fork"
  /\ obj' = [obj EXCEPT ![o] = "open"]
  /\ hpid' = [hpid EXCEPT ![o] = pid[o]]
  /\ exit_status' = [exit_status EXCEPT ![o] = 0]
  /\ pc' = [pc EXCEPT ![o] = "idle"]
  /\ UNCHANGED <<ec, strayed, kernelVars, waitVars>>

Construct(o) ==
  /\ pc[o] = "fork"
  /\ obj' = [obj EXCEPT ![o] = "open"]
  /\ hpid' = [hpid EXCEPT ![o] = pid[o]]
  /\ pc' = [pc EXCEPT ![o] = "idle"]
  /\ UNCHANGED <<exit_status, ec, strayed, kernelVars, waitVars>>

-------------------------------------------------------------------------------
(***************************************************************************)
(* running() and wait(): both poll once; wait() blocks when that says the  *)
(* child is alive.  A handle without a pid reports code 0.                 *)
(***************************************************************************)
Answers(o, e) == ec' = [ec EXCEPT ![o] = e]

StoreStatus(o, p) ==
  /\ Reap(p)
  /\ exit_status' = [exit_status EXCEPT ![o] = StatusOf(p)]
  /\ strayed' = Strays(o, p)

\* Mutant: polls again although the exit status is known.
Unknown_Ignored(o) == TRUE

Unknown(o) == process_is_running(exit_status[o])

Poll(o, whenAlive) ==
  /\ Unknown(o)
  /\ \/ /\ hpid[o] <= 0
        /\ exit_status' = [exit_status EXCEPT ![o] = 0]
        /\ Answers(o, "ok")
        /\ UNCHANGED <<pc, strayed, kernelVars>>
     \/ /\ ChildZombie(hpid[o])
        /\ StoreStatus(o, hpid[o])
        /\ Answers(o, "ok")
        /\ UNCHANGED pc
     \/ /\ hpid[o] > 0 /\ ChildGone(hpid[o])
        /\ Answers(o, "ECHILD")
        /\ UNCHANGED <<pc, exit_status, strayed, kernelVars>>
     \/ /\ ChildAlive(hpid[o])
        /\ pc' = [pc EXCEPT ![o] = whenAlive]
        /\ Answers(o, "ok")
        /\ UNCHANGED <<exit_status, strayed, kernelVars>>
  /\ UNCHANGED <<obj, hpid, waitVars>>

Running(o) == MayCall(o, "running") /\ Poll(o, "idle")
Wait(o)    == MayCall(o, "wait") /\ Poll(o, "wait")

\* Mutant: the blocking wait does not store what it reaped.
WaitReturns_Forgets(o) ==
  /\ pc[o] = "wait" /\ ~ChildAlive(hpid[o])
  /\ pc' = [pc EXCEPT ![o] = "idle"]
  /\ Reap(hpid[o]) /\ strayed' = Strays(o, hpid[o])
  /\ UNCHANGED <<obj, hpid, exit_status, ec, waitVars>>

\* The blocking waitpid of wait() and terminate(), retried on EINTR.
WaitReturns(o) ==
  /\ pc[o] = "wait" /\ ~ChildAlive(hpid[o])
  /\ pc' = [pc EXCEPT ![o] = "idle"]
  /\ IF ChildZombie(hpid[o])
       THEN StoreStatus(o, hpid[o]) /\ Answers(o, "ok")
       ELSE Answers(o, "ECHILD") /\ UNCHANGED <<exit_status, strayed, kernelVars>>
  /\ UNCHANGED <<obj, hpid, waitVars>>

(***************************************************************************)
(* terminate() and the four calls that only signal.  None of them looks at *)
(* exit_status_ first.  On a pid that names no child kill fails with ESRCH *)
(* and nothing changes.                                                    *)
(***************************************************************************)
Signal(o, s, afterwards) ==
  /\ hpid[o] > 0 /\ ~ChildGone(hpid[o])
  /\ Kill(hpid[o], s, Caught)
  /\ strayed' = Strays(o, hpid[o])
  /\ pc' = [pc EXCEPT ![o] = afterwards]
  /\ UNCHANGED <<obj, hpid, exit_status, ec, waitVars>>

Terminate(o)   == MayCall(o, "terminate")    /\ Signal(o, SIGKILL, "wait")
Interrupt(o)   == MayCall(o, "interrupt")    /\ Signal(o, SIGINT, "idle")
RequestExit(o) == MayCall(o, "request_exit") /\ Signal(o, SIGTERM, "idle")
Suspend(o)     == MayCall(o, "suspend")      /\ Signal(o, SIGSTOP, "idle")
Resume(o)      == MayCall(o, "resume")       /\ Signal(o, SIGCONT, "idle")

-------------------------------------------------------------------------------
(***************************************************************************)
(* ~basic_process: poll, kill what is alive, wait for it once.  The waits  *)
(* of o must be over: they refer to its handle and to its exit_status_.    *)
(***************************************************************************)
Gone(o) ==
  /\ obj' = [obj EXCEPT ![o] = "destroyed"]
  /\ undelivered' = [undelivered EXCEPT ![o] = 0]
  /\ pc' = [pc EXCEPT ![o] = "idle"]
  /\ hpid' = [hpid EXCEPT ![o] = -1]
  /\ exit_status' = [exit_status EXCEPT ![o] = still_active]
  /\ Answers(o, "ok")

Destroy(o) ==
  /\ MayCall(o, "destroy") /\ \A w \in WaitsOf(o) : ~Pending(w)
  /\ IF ChildAlive(hpid[o])
       THEN /\ pc' = [pc EXCEPT ![o] = "kill"]
            /\ UNCHANGED <<obj, hpid, exit_status, ec, strayed, undelivered, kernelVars>>
       ELSE Gone(o) /\ Reap(hpid[o]) /\ strayed' = Strays(o, hpid[o])
  /\ UNCHANGED <<sigpipe, opVars>>

\* Mutant: asks instead of killing.
DestroyKill_Asks(o) ==
  /\ pc[o] = "kill"
  /\ Kill(hpid[o], SIGTERM, Caught)
  /\ strayed' = Strays(o, hpid[o])
  /\ pc' = [pc EXCEPT ![o] = "reap"]
  /\ UNCHANGED <<obj, hpid, exit_status, ec, waitVars>>

DestroyKill(o) ==
  /\ pc[o] = "kill"
  /\ Kill(hpid[o], SIGKILL, Caught)
  /\ strayed' = Strays(o, hpid[o])
  /\ pc' = [pc EXCEPT ![o] = "reap"]
  /\ UNCHANGED <<obj, hpid, exit_status, ec, waitVars>>

\* Mutant: the second waitpid has WNOHANG too.
DestroyReap_NoHang(o) ==
  /\ pc[o] = "reap"
  /\ Gone(o)
  /\ IF ChildZombie(hpid[o]) THEN Reap(hpid[o]) ELSE UNCHANGED kernelVars
  /\ UNCHANGED <<strayed, sigpipe, opVars>>

DestroyReap(o) ==
  /\ pc[o] = "reap" /\ ~ChildAlive(hpid[o])
  /\ Gone(o) /\ Reap(hpid[o]) /\ strayed' = Strays(o, hpid[o])
  /\ UNCHANGED <<sigpipe, opVars>>

-------------------------------------------------------------------------------
(***************************************************************************)
(* Asynchronous waits.  An operation is                                    *)
(*   ready     its handler is queued with err,                             *)
(*   arming    its poll found the child alive, it is about to wait again,  *)
(*   armed     queued with the signal_set or the descriptor,               *)
(*   blocking  in the waitpid of the _fd handler,                          *)
(*   done      complete with err and code.                                 *)
(***************************************************************************)
Armed(w)       == phase[w] = "armed"
InSignalSet(w) == Armed(w) /\ ~OnDescriptor

\* The handlers of the operations in S are queued with error e.
Queue(S, e) ==
  /\ phase' = [w \in Waits |-> IF w \in S THEN "ready" ELSE phase[w]]
  /\ err' = [w \in Waits |-> IF w \in S THEN e ELSE err[w]]
  /\ UNCHANGED <<wpid, cancelled, code>>

\* signal_set::cancel (external): everything queued there is posted as aborted.
ArmedOn(o) == {w \in WaitsOf(o) : Armed(w)}

Completes(w, e, c) ==
  /\ phase' = [phase EXCEPT ![w] = "done"]
  /\ err' = [err EXCEPT ![w] = e]
  /\ code' = [code EXCEPT ![w] = c]
  /\ UNCHANGED <<wpid, cancelled>>

\* Mutant: hands on the wait status as it is.
Finish_Raw(w, e, s) == Completes(w, e, s)

\* Mutant: loses the error.
Finish_NoError(w, e, s) == Completes(w, "ok", evaluate_exit_code(s))

\* Operation w completes with error e and the exit status s.
Finish(w, e, s) == Completes(w, e, evaluate_exit_code(s))

\* Operation w is about to wait again, for the pid p.
WaitsAgain(w, p) ==
  /\ phase' = [phase EXCEPT ![w] = "arming"]
  /\ err' = [err EXCEPT ![w] = "ok"]
  /\ wpid' = [wpid EXCEPT ![w] = p]
  /\ UNCHANGED <<cancelled, code>>

\* detach() with the returned handle dropped: *this gets an empty handle.
Detach(o) ==
  /\ MayCall(o, "detach") /\ obj[o] = "open"
  /\ obj' = [obj EXCEPT ![o] = "detached"]
  /\ hpid' = [hpid EXCEPT ![o] = -1]
  /\ IF OnDescriptor \/ Variant = "signal"
       THEN Queue(ArmedOn(o), "ECANCELED")
       ELSE UNCHANGED opVars
  /\ undelivered' = IF Variant = "signal" THEN [undelivered EXCEPT ![o] = 0] ELSE undelivered
  /\ UNCHANGED <<exit_status, pc, ec, strayed, sigpipe, kernelVars>>

Keep == UNCHANGED <<exit_status, strayed, kernelVars>>

\* Whether operation w, entered with error e, polls its child.
MayPoll(w, e) ==
  /\ process_is_running(exit_status[WaitOn[w]])
  /\ Variant = "fd_or_signal" \/ e = "ok"

\* Mutant: takes every wake-up for the child's end.
StillAlive_Completes(w, p, e) == Finish(w, e, exit_status[WaitOn[w]])

\* The poll found the child alive.
StillAlive(w, p, e) ==
  IF e = "ok" THEN WaitsAgain(w, p) ELSE Finish(w, e, exit_status[WaitOn[w]])

\* Mutant: an operation that is over waits again.
NothingToPoll_Rearms(w, e) == WaitsAgain(w, wpid[w]) /\ Keep

\* The operation was entered with an error, or the status is known already.
NothingToPoll(w, e) == Finish(w, e, exit_status[WaitOn[w]]) /\ Keep

\* Operation w, entered with error e, polls the child p.
PollBody(w, p, e) ==
  LET o == WaitOn[w]
  IN  \/ p <= 0 /\ Finish(w, "EBADF", exit_status[o]) /\ Keep
      \/ p > 0 /\ ~MayPoll(w, e) /\ NothingToPoll(w, e)
      \/ p > 0 /\ MayPoll(w, e) /\ ChildGone(p) /\ Finish(w, "ECHILD", exit_status[o]) /\ Keep
      \/ MayPoll(w, e) /\ ChildZombie(p) /\ StoreStatus(o, p) /\ Finish(w, e, StatusOf(p))
      \/ MayPoll(w, e) /\ ChildAlive(p) /\ StillAlive(w, p, e) /\ Keep

(***************************************************************************)
(* async_wait, up to the first suspension.  The _signal operation queues   *)
(* itself and cancels the whole set, to get onto the set's executor.       *)
(***************************************************************************)
\* Mutant: queues itself without the cancel.
StartInSignalSet_NoCancel(w) ==
  /\ phase' = [phase EXCEPT ![w] = "armed"]
  /\ wpid' = [wpid EXCEPT ![w] = hpid[WaitOn[w]]]
  /\ UNCHANGED <<err, cancelled, code, undelivered>> /\ Keep

StartInSignalSet(w) ==
  LET o == WaitOn[w]
      aborted == IF undelivered[o] > 0 THEN ArmedOn(o) ELSE ArmedOn(o) \cup {w}
  IN  /\ phase' = [v \in Waits |-> IF v \in aborted \cup {w} THEN "ready" ELSE phase[v]]
      /\ err' = [v \in Waits |-> IF v \in aborted THEN "ECANCELED" ELSE err[v]]
      /\ wpid' = [wpid EXCEPT ![w] = hpid[o]]
      /\ undelivered' = [undelivered EXCEPT ![o] = IF @ > 0 THEN @ - 1 ELSE 0]
      /\ UNCHANGED <<cancelled, code>> /\ Keep

AsyncWait(w) ==
  LET o == WaitOn[w]
  IN  /\ phase[w] = "none" /\ Usable(o)
      /\ \/ /\ ~process_is_running(exit_status[o])
            /\ Finish(w, "ok", exit_status[o])
            /\ UNCHANGED undelivered /\ Keep
         \/ /\ process_is_running(exit_status[o]) /\ Variant = "signal"
            /\ StartInSignalSet(w)
         \/ /\ process_is_running(exit_status[o]) /\ Variant # "signal"
            /\ PollBody(w, hpid[o], "ok")
            /\ UNCHANGED undelivered
      /\ UNCHANGED <<obj, hpid, pc, ec, sigpipe>>

\* handle.async_wait or descriptor.async_wait (external).
Arm(w) ==
  /\ phase[w] = "arming"
  /\ LET o == WaitOn[w]
     IN  IF ~OnDescriptor /\ undelivered[o] > 0
           THEN /\ Queue({w}, "ok")
                /\ undelivered' = [undelivered EXCEPT ![o] = @ - 1]
           ELSE /\ phase' = [phase EXCEPT ![w] = "armed"]
                /\ UNCHANGED <<wpid, err, cancelled, code, undelivered>>
  /\ UNCHANGED <<procVars, sigpipe, kernelVars>>

(***************************************************************************)
(* The operation's handler.  The _signal one takes an abort for its own    *)
(* unless the caller asked for one; the _fd one trusts the descriptor and  *)
(* waits without WNOHANG.                                                  *)
(***************************************************************************)
\* Mutant: trusts a wait that failed, too.
Trusts_AnyError(w) == process_is_running(exit_status[WaitOn[w]])

Trusts(w) == err[w] = "ok" /\ process_is_running(exit_status[WaitOn[w]])

\* The blocking waitpid is over, or need not block.
WaitedFor(w) ==
  LET o == WaitOn[w]
      p == wpid[w]
  IN  \/ ChildZombie(p) /\ StoreStatus(o, p) /\ Finish(w, "ok", StatusOf(p))
      \/ ChildGone(p) /\ Finish(w, "ECHILD", exit_status[o]) /\ Keep

TrustDescriptor(w) ==
  \/ ~Trusts(w) /\ NothingToPoll(w, err[w])
  \/ Trusts(w) /\ WaitedFor(w)
  \/ /\ Trusts(w) /\ ChildAlive(wpid[w])
     /\ phase' = [phase EXCEPT ![w] = "blocking"]
     /\ UNCHANGED <<wpid, err, cancelled, code>> /\ Keep

\* Mutant: an abort is an abort.
OwnError_Kept(w) == err[w]

OwnError(w) ==
  IF Variant = "signal" /\ err[w] = "ECANCELED" /\ ~cancelled[w] THEN "ok" ELSE err[w]

Handler(w) ==
  /\ phase[w] = "ready" /\ Usable(WaitOn[w])
  /\ IF Variant = "fd" THEN TrustDescriptor(w)
                       ELSE PollBody(w, wpid[w], OwnError(w))
  /\ UNCHANGED <<obj, hpid, pc, ec, undelivered, sigpipe>>

UnblockHandler(w) ==
  /\ phase[w] = "blocking" /\ WaitedFor(w)
  /\ UNCHANGED <<obj, hpid, pc, ec, undelivered, sigpipe>>

\* The caller's cancellation slot is emitted.  Only a queued operation hears it.
CancelWait(w) ==
  /\ Suspended(w) /\ MayCall(WaitOn[w], "cancel") /\ ~cancelled[w]
  /\ phase' = [phase EXCEPT ![w] = "ready"]
  /\ err' = [err EXCEPT ![w] = IF Armed(w) THEN "ECANCELED" ELSE @]
  /\ cancelled' = [cancelled EXCEPT ![w] = TRUE]
  /\ UNCHANGED <<wpid, code, procVars, undelivered, sigpipe, kernelVars>>

-------------------------------------------------------------------------------
(***************************************************************************)
(* Asio and the kernel underneath (external).                              *)
(***************************************************************************)
\* A pidfd reads ready once its child has terminated.  The write end of the
\* launcher's pipe is close-on-exec: its read end is at end of file at once.
DescriptorReady(w) ==
  /\ Armed(w) /\ OnDescriptor
  /\ Descriptor = "pidfd" => Terminated(WaitOn[w])
  /\ Queue({w}, "ok")
  /\ UNCHANGED <<procVars, undelivered, sigpipe, kernelVars>>

\* The handler runs on some thread; it is installed without SA_RESTART, and
\* the waitpid of the destructor does not retry.
CatchSigchld ==
  /\ sigchld /\ sigchld' = FALSE
  /\ sigpipe' = TRUE
  /\ \/ UNCHANGED <<procVars, undelivered>>
     \/ \E o \in Procs : pc[o] = "reap" /\ ChildAlive(hpid[o]) /\ Gone(o) /\ UNCHANGED strayed
  /\ UNCHANGED <<st, pid, status, pend, opVars>>

\* The reactor hands the signal on.  A lone thread does not get here between a
\* handler's poll and its registration.
DeliverSigchld ==
  /\ OneThread => \A w \in Waits : phase[w] # "arming"
  /\ sigpipe /\ sigpipe' = FALSE
  /\ Queue({w \in Waits : InSignalSet(w)}, "ok")
  /\ undelivered' = [o \in Procs |->
       IF Exists(o) /\ ~(\E w \in WaitsOf(o) : InSignalSet(w)) /\ undelivered[o] < MaxUndelivered
       THEN undelivered[o] + 1 ELSE undelivered[o]]
  /\ UNCHANGED <<procVars, kernelVars>>

Child(o) ==
  /\ \/ ChildExit(o, Caught)
     \/ \E s \in FatalSignals : DieOfSignal(o, s, Caught) \/ IgnoreSignal(o, s)
  /\ UNCHANGED <<procVars, waitVars>>

Next ==
  \/ \E o \in Procs :
       \/ LaunchFork(o) \/ Construct(o)
       \/ Running(o) \/ Wait(o) \/ WaitReturns(o)
       \/ Terminate(o) \/ Interrupt(o) \/ RequestExit(o) \/ Suspend(o) \/ Resume(o)
       \/ Destroy(o) \/ DestroyKill(o) \/ DestroyReap(o) \/ Detach(o)
       \/ Child(o)
  \/ \E w \in Waits :
       \/ AsyncWait(w) \/ Arm(w) \/ Handler(w) \/ UnblockHandler(w) \/ CancelWait(w)
       \/ DescriptorReady(w)
  \/ CatchSigchld \/ DeliverSigchld

(***************************************************************************)
(* Fairness: the threads run, the io_context is being run, the kernel      *)
(* delivers signals.  A child need not exit unless it is killed, and no    *)
(* caller need call anything.                                              *)
(***************************************************************************)
Killed(o) == DieOfSignal(o, SIGKILL, Caught) /\ UNCHANGED <<procVars, waitVars>>

Fairness ==
  /\ \A o \in Procs :
       /\ WF_vars(Construct(o)) /\ WF_vars(WaitReturns(o))
       /\ WF_vars(DestroyKill(o)) /\ WF_vars(DestroyReap(o)) /\ WF_vars(Killed(o))
  /\ \A w \in Waits :
       /\ WF_vars(Arm(w)) /\ WF_vars(Handler(w)) /\ WF_vars(UnblockHandler(w))
       /\ WF_vars(DescriptorReady(w))
  /\ WF_vars(CatchSigchld) /\ WF_vars(DeliverSigchld)

Spec     == Init /\ [][Next]_vars
FairSpec == Spec /\ Fairness

-------------------------------------------------------------------------------
(***************************************************************************)
(* Properties.                                                             *)
(***************************************************************************)
Final(o) == ~process_is_running(exit_status[o])

(***************************************************************************)
(* An object that still owns its child and holds a final exit status holds *)
(* the status the kernel gave that child, and the child has been reaped:   *)
(* whichever of the poll, the blocking wait, terminate and the handlers of *)
(* async_wait got there first, none of them stores anything else.          *)
(***************************************************************************)
ExitStatusTruthful ==
  \A o \in Procs : obj[o] = "open" /\ Final(o) =>
    exit_status[o] = status[o] /\ st[o] = "reaped"

(***************************************************************************)
(* A wait that completed without error on an object that owns its child    *)
(* delivered the code of that child, which is no longer a zombie: a woken  *)
(* wait is not taken for the child's end (SIGCHLD of another child, a      *)
(* cancelled sibling), nor is its code read before it is stored.           *)
(***************************************************************************)
CompletionTruthful ==
  \A w \in Waits :
    LET o == WaitOn[w]
    IN  phase[w] = "done" /\ err[w] = "ok" /\ obj[o] = "open" =>
          st[o] = "reaped" /\ code[w] = evaluate_exit_code(status[o])

(***************************************************************************)
(* While pids are not reused, polls and waits find their child: no call    *)
(* and no asynchronous wait reports ECHILD, however the callers interleave *)
(* the ways to reap it.                                                    *)
(***************************************************************************)
ChildIsFound ==
  /\ \A o \in Procs : ec[o] # "ECHILD"
  /\ \A w \in Waits : err[w] # "ECHILD"

(***************************************************************************)
(* An object signals and reaps no child but its own.                       *)
(***************************************************************************)
OnlyOwnChild == ~strayed

(***************************************************************************)
(* A wait that relies on SIGCHLD is not forgotten: when the child is dead  *)
(* and the operation waits in the signal_set, or is about to, a SIGCHLD is *)
(* still on its way or kept for it.  The gap is the time between the poll  *)
(* and the registration.                                                   *)
(***************************************************************************)
NoLostWakeup ==
  \A w \in Waits : ~OnDescriptor /\ Terminated(WaitOn[w]) =>
    /\ Armed(w) => sigchld \/ sigpipe
    /\ phase[w] = "arming" => sigchld \/ sigpipe \/ undelivered[WaitOn[w]] > 0

(***************************************************************************)
(* The handler of an asynchronous wait does not block the io_context: it   *)
(* gets to its waitpid without WNOHANG only when the child is a zombie.    *)
(***************************************************************************)
HandlerNeverBlocks == \A w \in Waits : phase[w] # "blocking"

(***************************************************************************)
(* A final exit status is never replaced while the object exists.          *)
(***************************************************************************)
StatusStable ==
  [][\A o \in Procs : Final(o) /\ Exists(o) /\ obj'[o] # "destroyed" =>
       exit_status'[o] = exit_status[o]]_vars

(***************************************************************************)
(* Destroying an object that was not detached leaves no process and no     *)
(* zombie behind.                                                          *)
(***************************************************************************)
DestroyReaps ==
  [][\A o \in Procs : obj[o] = "open" /\ obj'[o] = "destroyed" => st'[o] = "reaped"]_vars

(***************************************************************************)
(* Once its child has terminated every asynchronous wait completes.        *)
(***************************************************************************)
WaitCompletes ==
  \A w \in Waits : Pending(w) /\ Terminated(WaitOn[w]) ~> phase[w] = "done"

(***************************************************************************)
(* A wait whose cancellation was requested completes, whether or not the   *)
(* child ever terminates.                                                  *)
(***************************************************************************)
CancelCompletes == \A w \in Waits : cancelled[w] ~> phase[w] = "done"

(***************************************************************************)
(* terminate() and the destructor return, also when the child was          *)
(* suspended: a call that has sent SIGKILL does not block for good.        *)
(***************************************************************************)
KillingReturns ==
  \A o \in Procs :
    /\ pc[o] = "wait" /\ SIGKILL \in pend[o] ~> pc[o] = "idle"
    /\ pc[o] = "kill" ~> obj[o] = "destroyed"

(***************************************************************************)
(* Every behaviour keeps the promise of module ExitNotice.                 *)
(***************************************************************************)
Notice ==
  INSTANCE ExitNotice WITH
    Statuses  <- FinalStatus,
    outcome   <- status,
    released  <- [o \in Procs |-> obj[o] \in {"detached", "destroyed"}],
    notice    <- [w \in Waits |->
                    IF phase[w] = "none" THEN "none"
                    ELSE IF phase[w] # "done" THEN "pending"
                    ELSE IF err[w] = "ok" THEN "answered" ELSE "failed"],
    code      <- [w \in Waits |->
                    IF phase[w] = "done" /\ err[w] = "ok" THEN code[w]
                    ELSE evaluate_exit_code(still_active)]

KeepsPromise == Notice!Spec

===============================================================================
