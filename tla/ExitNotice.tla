------------------------------ MODULE ExitNotice ------------------------------
(***************************************************************************)
(* What basic_process::async_wait promises, without pids, signals, polls   *)
(* or descriptors.  Each request for notice is answered at most once; an   *)
(* answer without error comes after the child has terminated and carries   *)
(* its evaluated exit code; a request fails only after its caller          *)
(* cancelled it or the owner of the child let go of it.                    *)
(***************************************************************************)
EXTENDS ExitCode

CONSTANTS Procs, Waits, WaitOn, Statuses

VARIABLES
  outcome,    \* [Procs -> wait status, still_active while the child lives]
  released,   \* [Procs -> its owner has detached or destroyed it]
  cancelled,  \* [Waits -> its caller asked for cancellation]
  notice,     \* [Waits -> "none", "pending", "answered" or "failed"]
  code        \* [Waits -> the code it was answered with]

vars == <<outcome, released, cancelled, notice, code>>

Init ==
  /\ outcome = [o \in Procs |-> still_active]
  /\ released = [o \in Procs |-> FALSE]
  /\ cancelled = [w \in Waits |-> FALSE]
  /\ notice = [w \in Waits |-> "none"]
  /\ code = [w \in Waits |-> evaluate_exit_code(still_active)]

Terminate(o) ==
  /\ outcome[o] = still_active
  /\ \E s \in Statuses : outcome' = [outcome EXCEPT ![o] = s]
  /\ UNCHANGED <<released, cancelled, notice, code>>

Release(o) ==
  /\ released' = [released EXCEPT ![o] = TRUE]
  /\ UNCHANGED <<outcome, cancelled, notice, code>>

Ask(w) ==
  /\ notice[w] = "none"
  /\ notice' = [notice EXCEPT ![w] = "pending"]
  /\ UNCHANGED <<outcome, released, cancelled, code>>

Cancel(w) ==
  /\ notice[w] = "pending"
  /\ cancelled' = [cancelled EXCEPT ![w] = TRUE]
  /\ UNCHANGED <<outcome, released, notice, code>>

Unanswered(w) == notice[w] \in {"none", "pending"}

Answer(w) ==
  /\ Unanswered(w) /\ outcome[WaitOn[w]] # still_active
  /\ notice' = [notice EXCEPT ![w] = "answered"]
  /\ code' = [code EXCEPT ![w] = evaluate_exit_code(outcome[WaitOn[w]])]
  /\ UNCHANGED <<outcome, released, cancelled>>

Fail(w) ==
  /\ Unanswered(w) /\ (cancelled[w] \/ released[WaitOn[w]])
  /\ notice' = [notice EXCEPT ![w] = "failed"]
  /\ UNCHANGED <<outcome, released, cancelled, code>>

\* Nothing is promised of the code once the child has been let go of.
AnswerReleased(w) ==
  /\ Unanswered(w) /\ released[WaitOn[w]]
  /\ notice' = [notice EXCEPT ![w] = "answered"]
  /\ \E s \in Statuses \cup {0} : code' = [code EXCEPT ![w] = evaluate_exit_code(s)]
  /\ UNCHANGED <<outcome, released, cancelled>>

Next ==
  \/ \E o \in Procs : Terminate(o) \/ Release(o)
  \/ \E w \in Waits : Ask(w) \/ Cancel(w) \/ Answer(w) \/ Fail(w) \/ AnswerReleased(w)

Spec == Init /\ [][Next]_vars

===============================================================================
