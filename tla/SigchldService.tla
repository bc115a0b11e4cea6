---------------------------- MODULE SigchldService ----------------------------
(***************************************************************************)
(* sigchld_service of v1: the one signal_set of an io_context and the list *)
(* of receivers, the on_exit handlers that wait for a child.               *)
(*                                                                         *)
(* A child has at most one receiver, so o stands for both.  The list is a  *)
(* set: its order plays no part.  _handle_signal runs in a strand, one     *)
(* system call or handler at a time; nothing but the caller keeps a launch *)
(* on another thread off the list, and the guards say that it does.        *)
(***************************************************************************)
EXTENDS ChildTable

CONSTANT MaxKept  \* bound: the signals a signal_set keeps

ASSUME MaxKeptAssumption == MaxKept \in Nat \ {0}

VARIABLES
  exit_status,  \* [Procs -> _exit_status, which the child object shares]
  request,      \* [Procs -> how far its on_exit handler is]
  found,        \* [Procs -> what waitpid stored for the handler, -1 if it failed]
  receivers,    \* _receivers, the ones marked for deletion included
  handling,     \* _handle_signal is running
  todo,         \* the receivers its loop has still to visit
  armed,        \* the signal_set has a wait
  queued,       \* _handle_signal is on its way to the strand
  kept,         \* the signals its signal_set keeps for later waits
  sigpipe       \* the SIGCHLD handler has written to Asio's pipe

serviceVars == <<exit_status, request, found, receivers, handling, todo,
                 armed, queued, kept, sigpipe>>

Answers == FinalStatus \cup {-1}

ServiceTypeOK ==
  /\ exit_status \in [Procs -> Answers \cup {still_active, 0}]
  /\ request \in [Procs -> {"none", "initiating", "posted", "waiting", "found", "inside", "over"}]
  /\ found \in [Procs -> Answers \cup {still_active}]
  /\ receivers \subseteq Procs /\ todo \subseteq Procs
  /\ kept \in 0..MaxKept
  /\ {handling, armed, queued, sigpipe} \subseteq BOOLEAN

ServiceInit ==
  /\ exit_status = [o \in Procs |-> still_active]
  /\ request = [o \in Procs |-> "none"]
  /\ found = [o \in Procs |-> still_active]
  /\ receivers = {} /\ todo = {}
  /\ handling = FALSE /\ armed = FALSE /\ queued = FALSE /\ kept = 0
  /\ sigpipe = FALSE

Becomes(o, r)  == request' = [request EXCEPT ![o] = r]
Initiating     == \E o \in Procs : request[o] = "initiating"
InHandler      == \E o \in Procs : request[o] = "inside"
BetweenReceivers == \A o \in Procs : request[o] \notin {"found", "inside"}
StrandFree     == ~handling /\ ~InHandler /\ ~Initiating

-------------------------------------------------------------------------------
(***************************************************************************)
(* async_wait.  A launch made by an on_exit handler gets here while the    *)
(* loop is in that handler.                                                *)
(***************************************************************************)
Find(o) ==
  /\ found' = [found EXCEPT ![o] = IF ChildZombie(pid[o]) THEN StatusOf(pid[o]) ELSE -1]
  /\ Reap(pid[o])

\* The first waitpid.
Initiate(o) ==
  /\ request[o] = "none" /\ ~Initiating /\ (handling => InHandler)
  /\ IF ChildAlive(pid[o])
       THEN Becomes(o, "initiating") /\ UNCHANGED <<found, kernelVars>>
       ELSE Becomes(o, "posted") /\ Find(o)
  /\ UNCHANGED <<exit_status, receivers, handling, todo, armed, queued, kept, sigpipe>>

\* _signal_set.async_wait: a signal that was kept completes it at once.
ArmSet ==
  /\ armed' = (kept = 0)
  /\ queued' = (kept > 0)
  /\ kept' = IF kept > 0 THEN kept - 1 ELSE 0

\* Mutant: relies on the wait of an earlier receiver.
Register_NoArm(o) ==
  /\ request[o] = "initiating"
  /\ Becomes(o, "waiting")
  /\ receivers' = receivers \cup {o}
  /\ todo' = IF handling THEN todo \cup {o} ELSE todo
  /\ UNCHANGED <<armed, queued, kept, exit_status, found, handling, sigpipe>>

Register(o) ==
  /\ request[o] = "initiating"
  /\ Becomes(o, "waiting")
  /\ IF receivers = {} THEN ArmSet ELSE UNCHANGED <<armed, queued, kept>>
  /\ receivers' = receivers \cup {o}
  /\ todo' = IF handling THEN todo \cup {o} ELSE todo
  /\ UNCHANGED <<exit_status, found, handling, sigpipe>>

-------------------------------------------------------------------------------
(***************************************************************************)
(* _handle_signal: the loop, and what follows it.                          *)
(***************************************************************************)
HandleSignal ==
  /\ queued /\ StrandFree
  /\ queued' = FALSE
  /\ handling' = TRUE
  /\ todo' = receivers
  /\ UNCHANGED <<exit_status, request, found, receivers, armed, kept, sigpipe, kernelVars>>

PollReceiver(o) ==
  /\ handling /\ o \in todo /\ BetweenReceivers /\ ~Initiating
  /\ IF ChildAlive(pid[o])
       THEN todo' = todo \ {o} /\ UNCHANGED <<request, found, kernelVars>>
       ELSE Becomes(o, "found") /\ Find(o) /\ UNCHANGED todo
  /\ UNCHANGED <<exit_status, receivers, handling, armed, queued, kept, sigpipe>>

\* Mutant: stores the exit code instead of the status.
CallReceiver_Evaluates(o) ==
  /\ request[o] = "found" \/ (request[o] = "posted" /\ StrandFree)
  /\ Becomes(o, "inside")
  /\ exit_status' = [exit_status EXCEPT ![o] = evaluate_exit_code(found[o])]
  /\ UNCHANGED <<found, receivers, handling, todo, armed, queued, kept, sigpipe, kernelVars>>

\* The receiver of io_context_ref stores the status and calls the handlers.
CallReceiver(o) ==
  /\ request[o] = "found" \/ (request[o] = "posted" /\ StrandFree)
  /\ Becomes(o, "inside")
  /\ exit_status' = [exit_status EXCEPT ![o] = found[o]]
  /\ UNCHANGED <<found, receivers, handling, todo, armed, queued, kept, sigpipe, kernelVars>>

\* Mutant: the receiver is not marked for deletion.
HandlerReturns_NotMarked(o) ==
  /\ request[o] = "inside" /\ ~Initiating
  /\ Becomes(o, IF handling THEN "waiting" ELSE "over")
  /\ todo' = todo \ {o}
  /\ UNCHANGED <<exit_status, found, receivers, handling, armed, queued, kept, sigpipe, kernelVars>>

HandlerReturns(o) ==
  /\ request[o] = "inside" /\ ~Initiating
  /\ Becomes(o, "over")
  /\ todo' = todo \ {o}
  /\ UNCHANGED <<exit_status, found, receivers, handling, armed, queued, kept, sigpipe, kernelVars>>

\* Mutant: waits for one signal only.
FinishLoop_NoRearm ==
  /\ handling /\ todo = {} /\ BetweenReceivers /\ ~Initiating
  /\ handling' = FALSE
  /\ receivers' = {o \in receivers : request[o] # "over"}
  /\ UNCHANGED <<exit_status, request, found, todo, armed, queued, kept, sigpipe, kernelVars>>

FinishLoop ==
  /\ handling /\ todo = {} /\ BetweenReceivers /\ ~Initiating
  /\ handling' = FALSE
  /\ receivers' = {o \in receivers : request[o] # "over"}
  /\ IF receivers' # {} THEN ArmSet ELSE UNCHANGED <<armed, queued, kept>>
  /\ UNCHANGED <<exit_status, request, found, todo, sigpipe, kernelVars>>

\* Asio's reactor hands the signal to the signal_set (external).
DeliverSigchld ==
  /\ sigpipe /\ sigpipe' = FALSE
  /\ armed' = FALSE
  /\ queued' = (queued \/ armed)
  /\ kept' = IF armed \/ kept = MaxKept THEN kept ELSE kept + 1
  /\ UNCHANGED <<exit_status, request, found, receivers, handling, todo, kernelVars>>

===============================================================================
