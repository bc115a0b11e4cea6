----------------------------- MODULE ChildV1Proofs -----------------------------
(***************************************************************************)
(* ChildV1 for any number of children and any callers: its types, its      *)
(* safety, and what it promises its on_exit handlers.                      *)
(***************************************************************************)
EXTENDS ChildV1, ChildTableProofs

-------------------------------------------------------------------------------
(***************************************************************************)
(* TypeOK needs to know that waitpid stores a final status, and that the   *)
(* destructor of signal_interceptor restores what its constructor saved.   *)
(***************************************************************************)
Saved == \A o \in Procs : Timed(o) => saved[o] # "default"

TypeInv == TypeOK /\ Stated /\ HeldPidsDiffer /\ Saved

LEMMA Constants ==
  /\ 0..MaxKept # {} /\ 0 \in 0..MaxKept /\ MaxKept \in Nat /\ MaxKept > 0
  /\ FinalStatus \subseteq Answers
BY MaxKeptAssumption DEF Answers

LEMMA TypeInit == Init => TypeInv
<1> SUFFICES ASSUME Init PROVE TypeInv
  OBVIOUS
<1>1. KernelTypeOK /\ Stated /\ HeldPidsDiffer
  BY DEF Init, KernelInit, KernelTypeOK, Stated, Terminated, HeldPidsDiffer, HoldsPid
<1>2. ServiceTypeOK
  BY Constants DEF Init, ServiceInit, ServiceTypeOK
<1>3. ChildTypeOK /\ TimedTypeOK
  BY DEF Init, ChildTypeOK, TimedTypeOK
<1>4. Saved
  BY DEF Init, Saved, Timed
<1> QED
  BY <1>1, <1>2, <1>3, <1>4 DEF TypeInv, TypeOK

-------------------------------------------------------------------------------
(***************************************************************************)
(* The kernel's part.                                                      *)
(***************************************************************************)
LEMMA PidTyped == KernelTypeOK => \A o \in Procs : pid[o] \in Int
<1>1. Pids \cup {0} \subseteq Int
  BY ChildAssumption
<1> QED
  BY <1>1 DEF KernelTypeOK

LEMMA StepKernel == TypeOK /\ [Next]_vars => PatientNext
<1> SUFFICES ASSUME TypeOK, [Next]_vars PROVE PatientNext
  OBVIOUS
<1>1. sigchld \in BOOLEAN /\ \A o \in Procs : pid[o] \in Int
  BY PidTyped DEF TypeOK, KernelTypeOK
<1>2. UNCHANGED kernelVars => PatientNext
  BY <1>1 DEF kernelVars, PatientNext, KernelEvent
<1>3. \A o \in Procs : ~ChildAlive(pid[o]) /\ Reap(pid[o]) => PatientNext
  BY <1>1 DEF PatientNext, KernelEvent
<1>4. \A o \in Procs : Kill(pid[o], SIGKILL, TRUE) => PatientNext
  <2>1. SIGKILL \in Signals
    BY DEF Signals, FatalSignals
  <2> QED
    BY <1>1, <2>1 DEF PatientNext, KernelEvent
<1>5. ASSUME NEW o \in Procs, LaunchFork(o) PROVE PatientNext
  <2>1. PidFor[o] \subseteq Pids
    BY ChildV1Assumption
  <2> QED
    BY <1>5, <2>1 DEF LaunchFork, PatientNext, KernelEvent
<1>6. ASSUME NEW o \in Procs, Construct(o) \/ OnSuccess(o) PROVE PatientNext
  BY <1>2, <1>3, <1>6 DEF Construct, OnSuccess, Initiate, Find, kernelVars
<1>7. ASSUME NEW o \in Procs, Running(o) \/ Terminate(o) \/ Destroy(o) \/ Wait(o) \/ Detach(o)
      PROVE  PatientNext
  BY <1>2, <1>7 DEF Running, Terminate, Destroy, Wait, Begin, Detach
<1>8. ASSUME NEW o \in Procs,
             Poll(o) \/ Check(o) \/ Store(o) \/ KillChild(o) \/ ReapKilled(o) \/ WaitReturns(o)
      PROVE  PatientNext
  BY <1>2, <1>3, <1>4, <1>8 DEF Poll, Check, Store, KillChild, ReapKilled, WaitReturns
<1>9. ASSUME NEW o \in Procs, WaitUntil(o) \/ Wake(o) \/ Look(o) PROVE PatientNext
  BY <1>1, <1>2, <1>3, <1>9 DEF WaitUntil, Wake, Look, PatientNext, KernelEvent
<1>10. ASSUME NEW o \in Procs, Child(o) PROVE PatientNext
  <2>1. SIGKILL \in FatalSignals
    BY DEF FatalSignals
  <2> QED
    BY <1>10, <2>1 DEF Child, Killed, PatientNext, KernelEvent
<1>11. ASSUME Strand \/ Reactor \/ CatchSigchld PROVE PatientNext
  BY <1>2, <1>3, <1>11
  DEF Strand, Reactor, CatchSigchld, PatientNext, KernelEvent, HandleSignal, FinishLoop, DeliverSigchld,
      Receiver, PollReceiver, CallReceiver, HandlerReturns, Find
<1>12. CASE UNCHANGED vars
  BY <1>2, <1>12 DEF vars
<1> QED
  BY <1>5, <1>6, <1>7, <1>8, <1>9, <1>10, <1>11, <1>12 DEF Next

-------------------------------------------------------------------------------
(***************************************************************************)
(* The service's part.                                                     *)
(***************************************************************************)
LEMMA BecomesTyped ==
  ASSUME ServiceTypeOK, NEW o \in Procs, NEW r, Becomes(o, r),
         r \in {"none", "initiating", "posted", "waiting", "found", "inside", "over"}
  PROVE  request' \in [Procs -> {"none", "initiating", "posted", "waiting", "found", "inside", "over"}]
BY DEF Becomes, ServiceTypeOK

LEMMA FindTyped ==
  ASSUME TypeInv, NEW o \in Procs, Find(o)
  PROVE  found' \in [Procs -> Answers \cup {still_active}]
<1>1. ChildZombie(pid[o]) => StatusOf(pid[o]) \in FinalStatus
  BY ZombieStatus DEF TypeInv
<1> QED
  BY <1>1 DEF Find, TypeInv, TypeOK, ServiceTypeOK, Answers

LEMMA ArmSetTyped ==
  ASSUME ServiceTypeOK, ArmSet
  PROVE  armed' \in BOOLEAN /\ queued' \in BOOLEAN /\ kept' \in 0..MaxKept
BY Constants DEF ArmSet, ServiceTypeOK

LEMMA LaunchTyped ==
  ASSUME TypeInv, NEW o \in Procs, Initiate(o) \/ Register(o)
  PROVE  ServiceTypeOK'
<1>1. CASE Initiate(o)
  BY <1>1, BecomesTyped, FindTyped DEF Initiate, TypeInv, TypeOK, ServiceTypeOK
<1>2. CASE Register(o)
  BY <1>2, BecomesTyped, ArmSetTyped DEF Register, TypeInv, TypeOK, ServiceTypeOK
<1> QED
  BY <1>1, <1>2

LEMMA StrandTyped ==
  ASSUME TypeInv, Strand \/ Reactor
  PROVE  ServiceTypeOK'
<1> DEFINE Held == Answers \cup {still_active, 0}
<1>1. ASSUME NEW o \in Procs, PollReceiver(o) PROVE ServiceTypeOK'
  BY <1>1, BecomesTyped, FindTyped DEF PollReceiver, TypeInv, TypeOK, ServiceTypeOK
<1>2. ASSUME NEW o \in Procs, CallReceiver(o) PROVE ServiceTypeOK'
  <2>1. found[o] \in Held /\ exit_status \in [Procs -> Held]
    BY DEF TypeInv, TypeOK, ServiceTypeOK
  <2> HIDE DEF Held
  <2>2. exit_status' \in [Procs -> Held]
    BY <1>2, <2>1 DEF CallReceiver
  <2> QED
    BY <1>2, <2>2, BecomesTyped DEF Held, CallReceiver, TypeInv, TypeOK, ServiceTypeOK
<1>3. ASSUME NEW o \in Procs, HandlerReturns(o) PROVE ServiceTypeOK'
  BY <1>3, BecomesTyped DEF HandlerReturns, TypeInv, TypeOK, ServiceTypeOK
<1>4. CASE HandleSignal
  BY <1>4 DEF HandleSignal, TypeInv, TypeOK, ServiceTypeOK
<1>5. CASE FinishLoop
  BY <1>5, ArmSetTyped DEF FinishLoop, TypeInv, TypeOK, ServiceTypeOK
<1>6. CASE DeliverSigchld
  <2>1. ServiceTypeOK
    BY DEF TypeInv, TypeOK
  <2>2. kept' \in 0..MaxKept
    BY <1>6, <2>1, Constants DEF DeliverSigchld, ServiceTypeOK
  <2>3. armed' \in BOOLEAN /\ queued' \in BOOLEAN /\ sigpipe' \in BOOLEAN
    BY <1>6, <2>1 DEF DeliverSigchld, ServiceTypeOK
  <2> QED
    BY <1>6, <2>1, <2>2, <2>3 DEF DeliverSigchld, ServiceTypeOK
<1> QED
  BY <1>1, <1>2, <1>3, <1>4, <1>5, <1>6 DEF Strand, Reactor, Receiver

-------------------------------------------------------------------------------
(***************************************************************************)
(* The objects' part.                                                      *)
(***************************************************************************)
LEMMA DoneTyped ==
  ASSUME ChildTypeOK, NEW o \in Procs, NEW c, NEW answer, Done(o, c, answer)
  PROVE  ChildTypeOK'
BY DEF Done, Goto, ChildTypeOK

LEMMA MoveTyped ==
  ASSUME ChildTypeOK, NEW o \in Procs, NEW c, NEW where, Move(o, c, where),
         c \in {"none", "running", "terminate", "destroy", "destroying", "wait", "wait_until"},
         where \in {"poll", "store", "wait", "kill", "reap", "sleep"}
  PROVE  ChildTypeOK'
BY DEF Move, Goto, ChildTypeOK

LEMMA GotTyped ==
  ASSUME TypeInv, NEW o \in Procs, NEW where \in {"check", "store"}, Got(o, where)
  PROVE  ChildTypeOK'
<1>1. ChildZombie(pid[o]) => StatusOf(pid[o]) \in FinalStatus
  BY ZombieStatus DEF TypeInv
<1> QED
  BY <1>1 DEF Got, Goto, TypeInv, TypeOK, ChildTypeOK

LEMMA CallTyped ==
  ASSUME TypeInv, NEW o \in Procs,
         \/ Running(o) \/ Terminate(o) \/ Destroy(o) \/ Wait(o) \/ Detach(o)
         \/ Poll(o) \/ Check(o) \/ KillChild(o) \/ ReapKilled(o) \/ WaitReturns(o)
  PROVE  ChildTypeOK'
<1>1. ChildTypeOK
  BY DEF TypeInv, TypeOK
<1>2. call[o] \in {"none", "running", "terminate", "destroy", "destroying", "wait", "wait_until"}
  BY <1>1 DEF ChildTypeOK
<1>3. CASE Running(o) \/ Terminate(o) \/ Destroy(o) \/ Wait(o)
  BY <1>1, <1>3, DoneTyped, MoveTyped DEF Running, Terminate, Destroy, Wait, Begin
<1>4. CASE Detach(o)
  BY <1>1, <1>4 DEF Detach, ChildTypeOK
<1>5. CASE Poll(o)
  BY <1>1, <1>2, <1>5, DoneTyped, MoveTyped, GotTyped DEF Poll
<1>6. CASE Check(o)
  BY <1>1, <1>2, <1>6, DoneTyped, MoveTyped DEF Check
<1>7. CASE KillChild(o)
  BY <1>1, <1>2, <1>7, DoneTyped, MoveTyped DEF KillChild
<1>8. CASE ReapKilled(o)
  BY <1>1, <1>8, DoneTyped DEF ReapKilled
<1>9. CASE WaitReturns(o)
  BY <1>1, <1>9, DoneTyped, GotTyped DEF WaitReturns, Waited
<1> QED
  BY <1>3, <1>4, <1>5, <1>6, <1>7, <1>8, <1>9

LEMMA StoreTyped ==
  ASSUME TypeInv, NEW o \in Procs, Store(o)
  PROVE  ChildTypeOK' /\ ServiceTypeOK'
<1> DEFINE Held == Answers \cup {still_active, 0}
<1>1. ChildTypeOK'
  BY DoneTyped DEF Store, TypeInv, TypeOK
<1>2. result[o] \in Held /\ exit_status \in [Procs -> Held]
  BY Constants DEF TypeInv, TypeOK, ServiceTypeOK, ChildTypeOK
<1> HIDE DEF Held
<1>3. exit_status' \in [Procs -> Held]
  BY <1>2 DEF Store
<1> QED
  BY <1>1, <1>3 DEF Held, Store, TypeInv, TypeOK, ServiceTypeOK

LEMMA TimedTyped ==
  ASSUME TypeInv, NEW o \in Procs, WaitUntil(o) \/ Wake(o) \/ Look(o)
  PROVE  ChildTypeOK' /\ TimedTypeOK'
<1>1. ChildTypeOK /\ TimedTypeOK
  BY DEF TypeInv, TypeOK
<1>2. CASE WaitUntil(o)
  <2>1. ChildTypeOK'
    BY <1>1, <1>2, DoneTyped, MoveTyped DEF WaitUntil
  <2> QED
    BY <1>1, <1>2, <2>1 DEF WaitUntil, TimedTypeOK, timedVars
<1>3. CASE Wake(o)
  BY <1>1, <1>3 DEF Wake, Goto, ChildTypeOK, TimedTypeOK
<1>4. Timed(o) /\ Restore(o) => TimedTypeOK'
  BY <1>1 DEF TypeInv, Saved, Restore, LeaveTimedWait, TimedTypeOK
<1>5. UNCHANGED timedVars => TimedTypeOK'
  BY <1>1 DEF timedVars, TimedTypeOK
<1>6. CASE Look(o)
  BY <1>1, <1>4, <1>5, <1>6, DoneTyped, MoveTyped, GotTyped DEF Look, StillTimed, Waited, Timed
<1> QED
  BY <1>2, <1>3, <1>6

LEMMA LaunchStepTyped ==
  ASSUME TypeInv, NEW o \in Procs, LaunchFork(o) \/ Construct(o) \/ OnSuccess(o)
  PROVE  ChildTypeOK'
<1>1. ChildTypeOK
  BY DEF TypeInv, TypeOK
<1>2. CASE LaunchFork(o)
  <2>1. Kinds[o] \subseteq {"plain", "on_exit"}
    BY ChildV1Assumption
  <2> QED
    BY <1>1, <1>2, <2>1 DEF LaunchFork, Goto, ChildTypeOK
<1>3. CASE Construct(o)
  BY <1>1, <1>3 DEF Construct, Goto, ChildTypeOK
<1>4. CASE OnSuccess(o)
  BY <1>1, <1>4 DEF OnSuccess, Goto, ChildTypeOK
<1> QED
  BY <1>2, <1>3, <1>4

LEMMA CatchTyped ==
  ASSUME TypeInv, CatchSigchld
  PROVE  ChildTypeOK' /\ TimedTypeOK' /\ ServiceTypeOK'
<1>1. ChildTypeOK /\ TimedTypeOK /\ ServiceTypeOK
  BY DEF TypeInv, TypeOK
<1>2. ChildTypeOK'
  BY <1>1, DoneTyped DEF CatchSigchld, ChildTypeOK
<1>3. TimedTypeOK'
  BY <1>1 DEF CatchSigchld, TimedTypeOK
<1>4. ServiceTypeOK'
  BY <1>1 DEF CatchSigchld, ServiceTypeOK
<1> QED
  BY <1>2, <1>3, <1>4

-------------------------------------------------------------------------------
(***************************************************************************)
(* Only wait_until touches what it saved.                                  *)
(***************************************************************************)
LEMMA StillSaved ==
  ASSUME TypeInv, saved' = saved, \A o \in Procs : Timed(o)' => Timed(o)
  PROVE  Saved'
BY DEF TypeInv, Saved

LEMMA OwnMove ==
  ASSUME ChildTypeOK, NEW o \in Procs, NEW where,
         Goto(o, where), where \notin {"sleep", "look", "last_look"}
  PROVE  \A q \in Procs : Timed(q)' => Timed(q)
BY DEF ChildTypeOK, Goto, Timed

LEMMA SavedStep == TypeInv /\ [Next]_vars => Saved'
<1> SUFFICES ASSUME TypeInv, [Next]_vars PROVE Saved'
  OBVIOUS
<1> USE DEF Done, Move, Got, timedVars
<1>1. ChildTypeOK /\ TimedTypeOK
  BY DEF TypeInv, TypeOK
<1>2. pc' = pc /\ saved' = saved => Saved'
  BY StillSaved DEF Timed
<1>3. ASSUME NEW o \in Procs, NEW where, saved' = saved, Goto(o, where),
             where \notin {"sleep", "look", "last_look"}
      PROVE  Saved'
  BY <1>1, <1>3, OwnMove, StillSaved
<1>4. ASSUME NEW o \in Procs, LaunchFork(o) PROVE Saved'
  <2>1. Kinds[o] \subseteq {"plain", "on_exit"}
    BY ChildV1Assumption
  <2> QED
    BY <1>3, <1>4, <2>1 DEF LaunchFork
<1>5. ASSUME NEW o \in Procs, Construct(o) \/ OnSuccess(o) \/ Detach(o) PROVE Saved'
  BY <1>2, <1>3, <1>5 DEF Construct, OnSuccess, Detach
<1>6. ASSUME NEW o \in Procs, Running(o) \/ Terminate(o) \/ Destroy(o) \/ Wait(o) PROVE Saved'
  BY <1>3, <1>6 DEF Running, Terminate, Destroy, Wait, Begin
<1>7. ASSUME NEW o \in Procs,
             Poll(o) \/ Check(o) \/ Store(o) \/ KillChild(o) \/ ReapKilled(o) \/ WaitReturns(o)
      PROVE  Saved'
  BY <1>3, <1>7 DEF Poll, Check, Store, KillChild, ReapKilled, WaitReturns, Waited
<1>8. ASSUME NEW o \in Procs, WaitUntil(o) \/ Wake(o) \/ Look(o) PROVE Saved'
  <2>1. /\ \A q \in Procs : Timed(q) => saved[q] # "default"
        /\ saved \in [Procs -> {"default", "asio", "interceptor"}]
        /\ disposition # "default"
    BY <1>1 DEF TypeInv, Saved, TimedTypeOK
  <2>2. CASE WaitUntil(o)
    BY <1>1, <2>1, <2>2 DEF WaitUntil, Saved, Timed, Goto, ChildTypeOK
  <2>3. CASE Wake(o)
    BY <1>1, <2>1, <2>3 DEF Wake, Saved, Timed, Goto, ChildTypeOK
  <2>4. CASE Look(o)
    BY <1>1, <2>1, <2>4
    DEF Look, StillTimed, Restore, LeaveTimedWait, Waited, Saved, Timed, Goto, ChildTypeOK
  <2> QED
    BY <1>8, <2>2, <2>3, <2>4
<1>9. ASSUME NEW o \in Procs, Child(o) PROVE Saved'
  BY <1>2, <1>9 DEF Child, Killed, childVars
<1>10. CASE Strand \/ Reactor
  BY <1>2, <1>10 DEF Strand, Reactor, childVars
<1>11. CASE CatchSigchld
  BY <1>2, <1>3, <1>11 DEF CatchSigchld
<1>12. CASE UNCHANGED vars
  BY <1>2, <1>12 DEF vars, childVars
<1> QED
  BY <1>4, <1>5, <1>6, <1>7, <1>8, <1>9, <1>10, <1>11, <1>12 DEF Next

-------------------------------------------------------------------------------
(***************************************************************************)
(* Every step.                                                             *)
(***************************************************************************)
LEMMA TypeStep == TypeInv /\ [Next]_vars => TypeInv'
<1> SUFFICES ASSUME TypeInv, [Next]_vars PROVE TypeInv'
  OBVIOUS
<1>1. PatientNext
  BY StepKernel DEF TypeInv
<1>2. KernelTypeOK' /\ Stated' /\ HeldPidsDiffer' /\ Saved'
  <2>1. KernelNext
    BY <1>1 DEF PatientNext, KernelNext
  <2> QED
    BY <1>1, <2>1, KernelTyped, StatedStep, HeldStep, SavedStep DEF TypeInv, TypeOK
<1>3. /\ UNCHANGED serviceVars => ServiceTypeOK'
      /\ UNCHANGED childVars => ChildTypeOK'
      /\ UNCHANGED timedVars => TimedTypeOK'
  BY DEF TypeInv, TypeOK, serviceVars, ServiceTypeOK, childVars, ChildTypeOK, timedVars, TimedTypeOK
<1> DEFINE Rest == ServiceTypeOK' /\ ChildTypeOK' /\ TimedTypeOK'
<1>4. ASSUME NEW o \in Procs, LaunchFork(o) \/ Construct(o) PROVE Rest
  BY <1>3, <1>4, LaunchStepTyped DEF LaunchFork, Construct
<1>5. ASSUME NEW o \in Procs, OnSuccess(o) PROVE Rest
  BY <1>3, <1>5, LaunchStepTyped, LaunchTyped DEF OnSuccess
<1>6. ASSUME NEW o \in Procs, Running(o) \/ Terminate(o) \/ Destroy(o) \/ Wait(o) \/ Detach(o)
      PROVE  Rest
  BY <1>3, <1>6, CallTyped DEF Running, Terminate, Destroy, Wait, Begin, Detach
<1>7. ASSUME NEW o \in Procs, Poll(o) \/ Check(o) \/ KillChild(o) \/ ReapKilled(o) \/ WaitReturns(o)
      PROVE  Rest
  BY <1>3, <1>7, CallTyped DEF Poll, Check, KillChild, ReapKilled, WaitReturns
<1>8. ASSUME NEW o \in Procs, Store(o) PROVE Rest
  BY <1>3, <1>8, StoreTyped DEF Store
<1>9. ASSUME NEW o \in Procs, WaitUntil(o) \/ Wake(o) \/ Look(o) PROVE Rest
  <2>1. UNCHANGED serviceVars
    BY <1>9 DEF WaitUntil, Wake, Look, serviceVars
  <2> QED
    BY <1>3, <1>9, <2>1, TimedTyped
<1>10. ASSUME NEW o \in Procs, Child(o) PROVE Rest
  BY <1>3, <1>10 DEF Child, Killed
<1>11. ASSUME Strand \/ Reactor PROVE Rest
  BY <1>3, <1>11, StrandTyped DEF Strand, Reactor
<1>12. ASSUME CatchSigchld PROVE Rest
  BY <1>12, CatchTyped
<1>13. ASSUME UNCHANGED vars PROVE Rest
  BY <1>3, <1>13 DEF vars
<1> HIDE DEF Rest
<1>14. Rest
  BY <1>4, <1>5, <1>6, <1>7, <1>8, <1>9, <1>10, <1>11, <1>12, <1>13 DEF Next
<1> QED
  BY <1>2, <1>14 DEF Rest, TypeInv, TypeOK

(***************************************************************************)
(* Every variable of ChildV1 keeps its type: what sigchld_service stores   *)
(* in _exit_status is a wait status or -1, for any number of children and  *)
(* any callers, with or without reuse of pids.                             *)
(***************************************************************************)
THEOREM V1TypeCorrect == Spec => []TypeOK
<1>1. Init => TypeInv
  BY TypeInit
<1>2. TypeInv /\ [Next]_vars => TypeInv'
  BY TypeStep
<1>3. TypeInv => TypeOK
  BY DEF TypeInv
<1> QED
  BY <1>1, <1>2, <1>3, PTL DEF Spec

-------------------------------------------------------------------------------
(***************************************************************************)
(* The inductive invariant.                                                *)
(***************************************************************************)
\* The list, the signal_set and the loop belong together.
Serving ==
  /\ todo \subseteq receivers /\ \A o \in receivers : request[o] # "none"
  /\ \A o \in Procs : request[o] \in {"waiting", "found"} => o \in receivers
  /\ \A o \in Procs : request[o] = "inside" /\ handling => o \in receivers
  /\ \A o \in Procs : request[o] = "found" => handling
  /\ receivers # {} <=> armed \/ queued \/ handling
  /\ armed => ~queued /\ ~handling /\ kept = 0
  /\ queued => ~handling

\* The end of child o is on its way to the service.
Noticed(o) ==
  /\ request[o] = "waiting" /\ Terminated(o) /\ ~eaten =>
       sigchld \/ sigpipe \/ queued \/ o \in todo \/ (kept > 0 /\ handling)
  /\ request[o] = "initiating" /\ Terminated(o) /\ ~eaten =>
       sigchld \/ sigpipe \/ queued \/ kept > 0 \/ handling

\* An object that is being built or was built has a child.
Launched(o) ==
  /\ pc[o] \in {"plain", "on_exit"} => obj[o] = "absent" /\ st[o] # "unborn"
  /\ obj[o] # "absent" => st[o] # "unborn"
  /\ pc[o] \notin {"idle", "plain", "on_exit"} => obj[o] \in {"attached", "detached"}
  /\ request[o] # "none" => st[o] # "unborn"

Asking == {"poll", "wait", "kill", "reap", "sleep", "look", "last_look"}

\* Object o without a handler reaps its child itself, once, and knows that it has.
Alone(o) ==
  request[o] = "none" =>
    /\ obj[o] = "absent" => exit_status[o] = still_active /\ ~terminated[o] /\ st[o] # "reaped"
    /\ pc[o] \in Asking => ~Exited(o) /\ st[o] # "reaped"
    /\ pc[o] = "idle" /\ obj[o] \in {"attached", "detached"} /\ ~Exited(o) => st[o] # "reaped"
    /\ pc[o] \in {"check", "store"} => result[o] = status[o] /\ st[o] = "reaped"
    /\ pc[o] = "poll" => call[o] \in {"running", "terminate", "destroy", "destroying"}
    /\ pc[o] \in {"kill", "reap"} => call[o] \in {"terminate", "destroying"}
    /\ ~process_is_running(exit_status[o]) => exit_status[o] = status[o] /\ st[o] = "reaped"

IInv ==
  /\ TypeInv /\ KernelSane /\ HeldPidsDiffer /\ PidsDistinct
  /\ Serving
  /\ \A o \in Procs : Noticed(o) /\ Launched(o) /\ Alone(o)

LEMMA InitIInv == Init => IInv
<1> SUFFICES ASSUME Init PROVE IInv
  OBVIOUS
<1>1. KernelSane /\ HeldPidsDiffer /\ PidsDistinct
  BY DEF Init, KernelInit, KernelSane, HeldPidsDiffer, HoldsPid, PidsDistinct, Terminated
<1>2. Serving /\ \A o \in Procs : Noticed(o) /\ Launched(o)
  BY DEF Init, ServiceInit, Serving, Noticed, Launched
<1>3. \A o \in Procs : Alone(o)
  BY FinalStatusIsFinal DEF Init, KernelInit, ServiceInit, Alone, Asking
<1> QED
  BY <1>1, <1>2, <1>3, TypeInit DEF IInv

-------------------------------------------------------------------------------
(***************************************************************************)
(* What a step leaves alone keeps its part of the invariant.               *)
(***************************************************************************)
KernelMoves ==
  Shifted \/ \E o \in Procs : Collected(o) \/ (Ended(o) /\ sigchld') \/ (Born(o) /\ ~PidReuse)

\* A step of object o, or of its child.
MovesOnly(o) ==
  Shifted \/ Collected(o) \/ (Ended(o) /\ sigchld') \/ (Born(o) /\ ~PidReuse)

Untouched(q) ==
  /\ obj'[q] = obj[q] /\ terminated'[q] = terminated[q]
  /\ pc'[q] = pc[q] /\ call'[q] = call[q] /\ result'[q] = result[q]

SameObject(q) ==
  /\ Untouched(q) /\ exit_status'[q] = exit_status[q]
  /\ request'[q] = "none" <=> request[q] = "none"

SameService == UNCHANGED <<request, receivers, handling, todo, armed, queued, kept>>

SignalsStay ==
  /\ sigchld => sigchld' \/ sigpipe' \/ eaten'
  /\ sigpipe => sigpipe'
  /\ eaten => eaten'

LEMMA Kernel == TypeInv => KernelTypeOK
BY DEF TypeInv, TypeOK

LEMMA Children == TypeInv => ChildTypeOK
BY DEF TypeInv, TypeOK

LEMMA NoKernelStep ==
  ASSUME TypeInv, UNCHANGED <<st, pid, status>>
  PROVE  Shifted
BY DEF TypeInv, TypeOK, KernelTypeOK, Shifted

LEMMA ObjectFrame ==
  ASSUME TypeInv, NEW q \in Procs, Launched(q), Alone(q), SameObject(q), SameLife(q)
  PROVE  Launched(q)' /\ Alone(q)'
<1>1. Exited(q)' <=> Exited(q)
  BY DEF SameObject, Untouched, Exited
<1>2. /\ st'[q] = "unborn" => st[q] = "unborn"
      /\ st'[q] = "reaped" <=> st[q] = "reaped"
      /\ st[q] = "reaped" => status'[q] = status[q]
  BY DEF SameLife, Living
<1>3. Launched(q)'
  BY <1>2 DEF Launched, SameObject, Untouched
<1>4. Alone(q)'
  BY <1>1, <1>2 DEF Alone, SameObject, Untouched
<1> QED
  BY <1>3, <1>4

LEMMA OthersFrame ==
  ASSUME IInv, NEW o \in Procs, MovesOnly(o), \A q \in Procs \ {o} : SameObject(q)
  PROVE  \A q \in Procs \ {o} : Launched(q)' /\ Alone(q)'
<1> SUFFICES ASSUME NEW q \in Procs \ {o} PROVE Launched(q)' /\ Alone(q)'
  OBVIOUS
<1>1. SameLife(q)
  BY LifeFrame, Kernel DEF MovesOnly, IInv
<1> QED
  BY <1>1, ObjectFrame DEF IInv

LEMMA Endings ==
  ASSUME TypeInv, KernelMoves, NEW q \in Procs, Terminated(q)'
  PROVE  Terminated(q) \/ sigchld'
BY Kernel DEF KernelMoves, KernelTypeOK, Shifted, Collected, Ended, Born, Terminated, Living

LEMMA ServiceFrame ==
  ASSUME IInv, KernelMoves, SameService, SignalsStay
  PROVE  Serving' /\ \A q \in Procs : Noticed(q)'
<1>1. Serving'
  BY DEF IInv, SameService, Serving
<1>2. ASSUME NEW q \in Procs PROVE Noticed(q)'
  <2>1. Terminated(q)' => Terminated(q) \/ sigchld'
    BY Endings DEF IInv
  <2> QED
    BY <2>1 DEF IInv, SameService, SignalsStay, Noticed
<1> QED
  BY <1>1, <1>2

LEMMA KernelKept ==
  ASSUME IInv, KernelMoves
  PROVE  KernelSane' /\ HeldPidsDiffer' /\ PidsDistinct'
BY KernelStep, DistinctStep, Kernel DEF IInv, KernelMoves

\* A step of object o that does not touch the service.
LEMMA CallStep ==
  ASSUME IInv, TypeInv', NEW o \in Procs, MovesOnly(o), SameService, SignalsStay,
         \A q \in Procs \ {o} : SameObject(q), Launched(o)', Alone(o)'
  PROVE  IInv'
<1>1. KernelMoves
  BY DEF MovesOnly, KernelMoves
<1>2. Serving' /\ \A q \in Procs : Noticed(q)'
  BY <1>1, ServiceFrame
<1>3. KernelSane' /\ HeldPidsDiffer' /\ PidsDistinct'
  BY <1>1, KernelKept
<1>4. \A q \in Procs : Launched(q)' /\ Alone(q)'
  BY OthersFrame
<1> QED
  BY <1>2, <1>3, <1>4 DEF IInv

-------------------------------------------------------------------------------
(***************************************************************************)
(* How a call ends, goes on, and gets a status.                            *)
(***************************************************************************)
LEMMA DoneAt ==
  ASSUME TypeInv, NEW o \in Procs, NEW c, NEW answer, Done(o, c, answer)
  PROVE  /\ pc'[o] = "idle"
         /\ c \in {"destroy", "destroying"} => obj'[o] = "gone"
         /\ c \notin {"destroy", "destroying"} =>
              /\ obj'[o] = obj[o]
              /\ terminated'[o] <=> terminated[o] \/ (c = "terminate" /\ answer # "error")
         /\ \A q \in Procs \ {o} : Untouched(q)
BY Children DEF ChildTypeOK, Done, Goto, Untouched

LEMMA MoveAt ==
  ASSUME TypeInv, NEW o \in Procs, NEW c, NEW where, Move(o, c, where)
  PROVE  /\ pc'[o] = where /\ call'[o] = c
         /\ obj'[o] = obj[o] /\ terminated'[o] = terminated[o] /\ result'[o] = result[o]
         /\ \A q \in Procs \ {o} : Untouched(q)
BY Children DEF ChildTypeOK, Move, Goto, Untouched

LEMMA GotAt ==
  ASSUME TypeInv, NEW o \in Procs, NEW where, Got(o, where)
  PROVE  /\ pc'[o] = where /\ call'[o] = call[o]
         /\ obj'[o] = obj[o] /\ terminated'[o] = terminated[o]
         /\ ChildZombie(pid[o]) => result'[o] = StatusOf(pid[o])
         /\ \A q \in Procs \ {o} : Untouched(q)
BY Children DEF ChildTypeOK, Got, Goto, Untouched

\* What waitpid does to the child of an object that has one.
LEMMA Reaps ==
  ASSUME IInv, NEW o \in Procs, st[o] # "unborn", ~ChildAlive(pid[o]), Reap(pid[o])
  PROVE  /\ MovesOnly(o) /\ sigchld' = sigchld
         /\ ChildZombie(pid[o]) => /\ st'[o] = "reaped" /\ StatusOf(pid[o]) = status[o]
                                   /\ status'[o] = status[o]
         /\ ~ChildZombie(pid[o]) => st[o] = "reaped" /\ UNCHANGED <<st, pid, status>>
<1>1. /\ ChildZombie(pid[o]) => Collected(o) /\ StatusOf(pid[o]) = status[o]
      /\ ~ChildZombie(pid[o]) => UNCHANGED <<st, pid, status>>
  BY OwnReap, Kernel DEF IInv
<1>2. ~ChildZombie(pid[o]) => st[o] = "reaped"
  BY OwnAnswer, Lives, Kernel DEF IInv, Living
<1>3. sigchld' = sigchld
  BY DEF Reap
<1>4. MovesOnly(o)
  BY <1>1, NoKernelStep DEF MovesOnly, IInv
<1> QED
  BY <1>1, <1>2, <1>3, <1>4, Kernel DEF Collected, IInv, KernelTypeOK

LEMMA Answered ==
  ASSUME IInv, NEW o \in Procs, st[o] # "unborn"
  PROVE  /\ ChildZombie(pid[o]) <=> st[o] = "zombie"
         /\ ChildAlive(pid[o]) <=> st[o] \in Living
         /\ ChildGone(pid[o]) <=> st[o] = "reaped"
         /\ st[o] \in Living \cup {"zombie", "reaped"}
<1>1. st[o] \in Living \cup {"zombie", "reaped"}
  BY Lives, Kernel DEF IInv, Living
<1>2. pid[o] # -1
  BY Lives, Kernel DEF IInv
<1> QED
  BY <1>1, <1>2, OwnAnswer, Kernel DEF IInv

-------------------------------------------------------------------------------
(***************************************************************************)
(* The calls.                                                              *)
(***************************************************************************)
LEMMA SameServiceKept ==
  ASSUME UNCHANGED serviceVars
  PROVE  SameService /\ sigpipe' = sigpipe /\ exit_status' = exit_status
BY DEF serviceVars, SameService

LEMMA BeginStep ==
  ASSUME IInv, TypeInv', NEW o \in Procs,
         Running(o) \/ Terminate(o) \/ Destroy(o) \/ Wait(o)
  PROVE  IInv'
<1>1. PICK c \in {"running", "terminate", "destroy", "wait"}, where \in {"poll", "wait"} :
        /\ Begin(o, c, where)
        /\ where = "poll" => c # "wait"
  BY DEF Running, Terminate, Destroy, Wait
<1>2. /\ SameService /\ exit_status' = exit_status /\ SignalsStay
      /\ UNCHANGED kernelVars
  BY <1>1, SameServiceKept DEF Begin, SignalsStay, timedVars, kernelVars
<1>3. MovesOnly(o) /\ st' = st /\ status' = status /\ request' = request
  BY <1>2, NoKernelStep DEF kernelVars, MovesOnly, IInv, SameService
<1>4. \A q \in Procs \ {o} : SameObject(q)
  BY <1>1, <1>2, <1>3, DoneAt, MoveAt DEF Begin, SameObject, IInv
<1>5. /\ Launched(o) /\ Alone(o) /\ pc[o] = "idle" /\ obj[o] \in {"attached", "detached"}
  BY <1>1 DEF IInv, Begin, MayCall
<1>6. CASE Done(o, c, "over") /\ (Exited(o) \/ (c = "destroy" /\ obj[o] = "detached"))
  <2>1. /\ pc'[o] = "idle"
        /\ c = "destroy" => obj'[o] = "gone"
        /\ c # "destroy" => obj'[o] = obj[o] /\ (terminated[o] => terminated'[o])
    BY <1>6, DoneAt DEF IInv
  <2>2. Launched(o)'
    BY <1>3, <1>5, <2>1 DEF Launched
  <2>3. Alone(o)'
    BY <1>2, <1>3, <1>5, <1>6, <2>1 DEF Alone, Asking, Exited
  <2> QED
    BY <1>2, <1>3, <1>4, <2>2, <2>3, CallStep
<1>7. CASE Move(o, c, where) /\ ~Exited(o)
  <2>1. pc'[o] = where /\ call'[o] = c /\ obj'[o] = obj[o] /\ terminated'[o] = terminated[o]
    BY <1>7, MoveAt DEF IInv
  <2>2. Launched(o)'
    BY <1>3, <1>5, <2>1 DEF Launched
  <2>3. Alone(o)'
    BY <1>1, <1>2, <1>3, <1>5, <1>7, <2>1 DEF Alone, Asking, Exited
  <2> QED
    BY <1>2, <1>3, <1>4, <2>2, <2>3, CallStep
<1> QED
  BY <1>1, <1>6, <1>7 DEF Begin

LEMMA CheckStep ==
  ASSUME IInv, TypeInv', NEW o \in Procs, Check(o)
  PROVE  IInv'
<1>1. /\ SameService /\ exit_status' = exit_status /\ SignalsStay
      /\ UNCHANGED kernelVars
  BY SameServiceKept DEF Check, SignalsStay, timedVars, kernelVars
<1>2. MovesOnly(o) /\ st' = st /\ status' = status /\ request' = request
  BY <1>1, NoKernelStep DEF kernelVars, MovesOnly, IInv, SameService
<1>3. \A q \in Procs \ {o} : SameObject(q)
  BY <1>1, <1>2, DoneAt, MoveAt DEF Check, SameObject, IInv
<1>4. Launched(o) /\ Alone(o) /\ pc[o] = "check"
  BY DEF IInv, Check
<1>5. CASE Exited(o) /\ Done(o, call[o], "over")
  <2>1. /\ pc'[o] = "idle"
        /\ obj'[o] \in {obj[o], "gone"}
        /\ obj'[o] = obj[o] => obj[o] = "gone" \/ (terminated[o] => terminated'[o])
    BY <1>5, DoneAt DEF IInv
  <2>2. Launched(o)'
    BY <1>2, <1>4, <2>1 DEF Launched
  <2>3. Alone(o)'
    BY <1>1, <1>2, <1>4, <1>5, <2>1 DEF Launched, Alone, Asking, Exited
  <2> QED
    BY <1>1, <1>2, <1>3, <2>2, <2>3, CallStep
<1>6. CASE Move(o, call[o], "store")
  <2>1. /\ pc'[o] = "store" /\ obj'[o] = obj[o] /\ terminated'[o] = terminated[o]
        /\ result'[o] = result[o]
    BY <1>6, MoveAt DEF IInv
  <2>2. Launched(o)'
    BY <1>2, <1>4, <2>1 DEF Launched
  <2>3. Alone(o)'
    BY <1>1, <1>2, <1>4, <2>1 DEF Alone, Asking, Exited
  <2> QED
    BY <1>1, <1>2, <1>3, <2>2, <2>3, CallStep
<1> QED
  BY <1>5, <1>6 DEF Check

LEMMA StoreStep ==
  ASSUME IInv, TypeInv', NEW o \in Procs, Store(o)
  PROVE  IInv'
<1>1. SameService /\ SignalsStay /\ UNCHANGED kernelVars
  BY DEF Store, SameService, SignalsStay, timedVars, kernelVars
<1>2. MovesOnly(o) /\ st' = st /\ status' = status /\ request' = request
  BY <1>1, NoKernelStep DEF kernelVars, MovesOnly, IInv, SameService
<1>3. exit_status \in [Procs -> Answers \cup {still_active, 0}]
  BY DEF IInv, TypeInv, TypeOK, ServiceTypeOK
<1>4. exit_status'[o] = result[o] /\ \A q \in Procs \ {o} : exit_status'[q] = exit_status[q]
  BY <1>3 DEF Store
<1>5. \A q \in Procs \ {o} : SameObject(q)
  BY <1>2, <1>4, DoneAt DEF Store, SameObject, IInv
<1>6. Launched(o) /\ Alone(o) /\ pc[o] = "store"
  BY DEF IInv, Store
<1>7. /\ pc'[o] = "idle"
      /\ obj'[o] \in {obj[o], "gone"}
  BY DoneAt DEF Store, IInv
<1>8. Launched(o)'
  BY <1>2, <1>6, <1>7 DEF Launched
<1>9. st[o] = "reaped" => status[o] \in FinalStatus /\ ~process_is_running(status[o])
  BY FinalStatusIsFinal DEF IInv, KernelSane, Terminated
<1>10. Alone(o)'
  BY <1>2, <1>4, <1>6, <1>7, <1>9 DEF Launched, Alone, Asking, Exited
<1> QED
  BY <1>1, <1>2, <1>5, <1>8, <1>10, CallStep

\* A blocking or polling waitpid of object o whose answer goes into exit_code.
LEMMA GotStep ==
  ASSUME IInv, NEW o \in Procs, NEW where \in {"check", "store"}, pc[o] \in Asking,
         ~ChildAlive(pid[o]), Reap(pid[o]), Got(o, where), UNCHANGED serviceVars
  PROVE  /\ MovesOnly(o) /\ Launched(o)' /\ Alone(o)'
         /\ \A q \in Procs \ {o} : SameObject(q)
<1>1. Launched(o) /\ Alone(o) /\ st[o] # "unborn"
  BY DEF IInv, Launched, Asking
<1>2. SameService /\ exit_status' = exit_status /\ request' = request
  BY SameServiceKept DEF SameService
<1>3. /\ MovesOnly(o)
      /\ ChildZombie(pid[o]) => /\ st'[o] = "reaped" /\ StatusOf(pid[o]) = status[o]
                                /\ status'[o] = status[o]
      /\ ~ChildZombie(pid[o]) => st[o] = "reaped" /\ UNCHANGED <<st, pid, status>>
  BY <1>1, Reaps
<1>4. /\ pc'[o] = where /\ call'[o] = call[o]
      /\ obj'[o] = obj[o] /\ terminated'[o] = terminated[o]
      /\ ChildZombie(pid[o]) => result'[o] = StatusOf(pid[o])
  BY GotAt DEF IInv
<1>5. \A q \in Procs \ {o} : SameObject(q)
  BY <1>2, GotAt DEF IInv, SameObject
<1>6. Launched(o)'
  BY <1>1, <1>2, <1>3, <1>4 DEF Launched, Asking
<1>7. Alone(o)'
  BY <1>1, <1>2, <1>3, <1>4 DEF Launched, Alone, Asking, Exited
<1> QED
  BY <1>3, <1>5, <1>6, <1>7

LEMMA PollStep ==
  ASSUME IInv, TypeInv', NEW o \in Procs, Poll(o)
  PROVE  IInv'
<1>1. /\ SameService /\ exit_status' = exit_status /\ sigpipe' = sigpipe /\ eaten' = eaten
      /\ UNCHANGED serviceVars
  BY SameServiceKept DEF Poll, timedVars
<1>2. Launched(o) /\ Alone(o) /\ pc[o] = "poll" /\ st[o] # "unborn"
  BY DEF IInv, Poll, Launched
<1>3. CASE ~ChildAlive(pid[o]) /\ Reap(pid[o]) /\ Got(o, "check")
  <2>1. SignalsStay
    BY <1>1, <1>2, <1>3, Reaps DEF SignalsStay
  <2> QED
    BY <1>1, <1>2, <1>3, <2>1, GotStep, CallStep DEF Asking
<1>4. ASSUME ChildAlive(pid[o]), UNCHANGED kernelVars,
             \/ call[o] = "running" /\ Done(o, "running", "alive")
             \/ call[o] = "destroy" /\ Move(o, "destroying", "poll")
             \/ call[o] \notin {"running", "destroy"} /\ Move(o, call[o], "kill")
      PROVE  IInv'
  <2>1. SignalsStay
    BY <1>1, <1>4 DEF SignalsStay, kernelVars
  <2>2. /\ MovesOnly(o) /\ st' = st /\ status' = status /\ request' = request
        /\ st[o] # "reaped"
    BY <1>1, <1>2, <1>4, NoKernelStep, Answered DEF kernelVars, MovesOnly, IInv, SameService, Living
  <2>3. \A q \in Procs \ {o} : SameObject(q)
    BY <1>1, <1>4, <2>2, DoneAt, MoveAt DEF SameObject, IInv
  <2>4. /\ obj'[o] = obj[o] /\ (terminated'[o] <=> terminated[o])
        /\ \/ pc'[o] = "idle"
           \/ pc'[o] = "poll" /\ call'[o] = "destroying"
           \/ pc'[o] = "kill" /\ call'[o] = call[o] /\ call[o] \notin {"running", "destroy"}
    BY <1>4, DoneAt, MoveAt DEF IInv
  <2>5. Launched(o)'
    BY <1>2, <2>2, <2>4 DEF Launched
  <2>6. Alone(o)'
    BY <1>1, <1>2, <2>2, <2>4 DEF Launched, Alone, Asking, Exited
  <2> QED
    BY <1>1, <2>1, <2>2, <2>3, <2>5, <2>6, CallStep
<1> QED
  BY <1>3, <1>4 DEF Poll

LEMMA KillStep ==
  ASSUME IInv, TypeInv', NEW o \in Procs, KillChild(o)
  PROVE  IInv'
<1>1. /\ SameService /\ exit_status' = exit_status /\ sigpipe' = sigpipe /\ eaten' = eaten
  BY SameServiceKept DEF KillChild, timedVars
<1>2. Launched(o) /\ Alone(o) /\ pc[o] = "kill" /\ st[o] # "unborn"
  BY DEF IInv, KillChild, Launched
<1>3. st' = st /\ status' = status /\ pid' = pid /\ (sigchld => sigchld')
  BY Kernel DEF KillChild, Kill, IInv, KernelTypeOK, SIGKILL, SIGSTOP, SIGCONT
<1>4. SignalsStay /\ MovesOnly(o) /\ request' = request
  BY <1>1, <1>3, NoKernelStep DEF SignalsStay, MovesOnly, IInv, SameService
<1>5. \A q \in Procs \ {o} : SameObject(q)
  BY <1>1, <1>4, DoneAt, MoveAt DEF KillChild, SameObject, IInv
<1>6. CASE ChildGone(pid[o]) /\ Done(o, call[o], "error")
  <2>1. pc'[o] = "idle" /\ obj'[o] \in {obj[o], "gone"} /\ st[o] = "reaped"
    BY <1>2, <1>6, DoneAt, Answered DEF IInv
  <2>2. Launched(o)'
    BY <1>2, <1>3, <1>4, <2>1 DEF Launched
  <2>3. Alone(o)'
    BY <1>2, <1>4, <2>1 DEF Alone, Asking
  <2> QED
    BY <1>1, <1>4, <1>5, <2>2, <2>3, CallStep
<1>7. CASE Move(o, call[o], "reap")
  <2>1. /\ pc'[o] = "reap" /\ obj'[o] = obj[o] /\ terminated'[o] = terminated[o]
        /\ call'[o] = call[o]
    BY <1>7, MoveAt DEF IInv
  <2>2. Launched(o)'
    BY <1>2, <1>3, <1>4, <2>1 DEF Launched
  <2>3. Alone(o)'
    BY <1>1, <1>2, <1>3, <1>4, <2>1 DEF Launched, Alone, Asking, Exited
  <2> QED
    BY <1>1, <1>4, <1>5, <2>2, <2>3, CallStep
<1> QED
  BY <1>6, <1>7 DEF KillChild

\* A call that kills ends: the child is reaped, or its waitpid was interrupted.
LEMMA KilledDone ==
  ASSUME IInv, NEW o \in Procs, pc[o] = "reap", Done(o, call[o], "over"), MovesOnly(o),
         request' = request, exit_status' = exit_status,
         \/ st' = st /\ status' = status
         \/ st[o] = "zombie" /\ status'[o] = status[o] /\ st'[o] = "reaped"
  PROVE  /\ Launched(o)' /\ Alone(o)'
         /\ \A q \in Procs \ {o} : SameObject(q)
<1>1. Launched(o) /\ Alone(o) /\ st[o] # "unborn"
  BY DEF IInv, Launched
<1>2. /\ pc'[o] = "idle"
      /\ obj'[o] \in {obj[o], "gone"}
      /\ call[o] = "terminate" => obj'[o] = obj[o] /\ terminated'[o]
      /\ call[o] = "destroying" => obj'[o] = "gone"
  BY DoneAt DEF IInv
<1>3. Launched(o)'
  BY <1>1, <1>2 DEF Launched
<1>4. Alone(o)'
  BY <1>1, <1>2 DEF Launched, Alone, Asking, Exited
<1> QED
  BY <1>3, <1>4, DoneAt DEF IInv, SameObject

LEMMA ReapKilledStep ==
  ASSUME IInv, TypeInv', NEW o \in Procs, ReapKilled(o)
  PROVE  IInv'
<1>1. /\ SameService /\ exit_status' = exit_status /\ sigpipe' = sigpipe /\ eaten' = eaten
  BY SameServiceKept DEF ReapKilled, timedVars
<1>2. st[o] # "unborn" /\ pc[o] = "reap" /\ request' = request
  BY <1>1 DEF IInv, ReapKilled, Launched, SameService
<1>3. /\ MovesOnly(o) /\ sigchld' = sigchld
      /\ \/ st' = st /\ status' = status
         \/ st[o] = "zombie" /\ status'[o] = status[o] /\ st'[o] = "reaped"
  BY <1>2, Reaps, Answered DEF ReapKilled
<1>4. SignalsStay
  BY <1>1, <1>3 DEF SignalsStay
<1> QED
  BY <1>1, <1>2, <1>3, <1>4, KilledDone, CallStep DEF ReapKilled

LEMMA WaitedStep ==
  ASSUME IInv, NEW o \in Procs, pc[o] \in Asking,
         ~ChildAlive(pid[o]), Reap(pid[o]), Waited(o), UNCHANGED serviceVars
  PROVE  /\ MovesOnly(o) /\ Launched(o)' /\ Alone(o)' /\ sigchld' = sigchld
         /\ \A q \in Procs \ {o} : SameObject(q)
<1>1. sigchld' = sigchld
  BY DEF Reap
<1>2. CASE Got(o, "store")
  BY <1>1, <1>2, GotStep
<1>3. CASE ~ChildZombie(pid[o]) /\ Done(o, call[o], "error")
  <2>1. Launched(o) /\ Alone(o) /\ st[o] # "unborn"
    BY DEF IInv, Launched, Asking
  <2>2. exit_status' = exit_status /\ request' = request
    BY SameServiceKept DEF SameService
  <2>3. MovesOnly(o) /\ st[o] = "reaped" /\ UNCHANGED <<st, pid, status>>
    BY <1>3, <2>1, Reaps
  <2>4. pc'[o] = "idle" /\ obj'[o] \in {obj[o], "gone"}
    BY <1>3, DoneAt DEF IInv
  <2>5. \A q \in Procs \ {o} : SameObject(q)
    BY <1>3, <2>2, DoneAt DEF IInv, SameObject
  <2>6. Launched(o)'
    BY <2>1, <2>2, <2>3, <2>4 DEF Launched
  <2>7. Alone(o)'
    BY <2>1, <2>2, <2>3, <2>4 DEF Alone
  <2> QED
    BY <1>1, <2>3, <2>5, <2>6, <2>7
<1> QED
  BY <1>2, <1>3 DEF Waited

LEMMA WaitReturnsStep ==
  ASSUME IInv, TypeInv', NEW o \in Procs, WaitReturns(o)
  PROVE  IInv'
<1>1. SameService /\ sigpipe' = sigpipe /\ eaten' = eaten /\ UNCHANGED serviceVars
  BY SameServiceKept DEF WaitReturns, timedVars
<1>2. /\ MovesOnly(o) /\ Launched(o)' /\ Alone(o)' /\ sigchld' = sigchld
      /\ \A q \in Procs \ {o} : SameObject(q)
  BY <1>1, WaitedStep DEF WaitReturns, Asking
<1> QED
  BY <1>1, <1>2, CallStep DEF SignalsStay

\* A step of object o that moves on without a change of the kernel's table.
LEMMA QuietStep ==
  ASSUME IInv, TypeInv', NEW o \in Procs, UNCHANGED <<st, pid, status>>,
         UNCHANGED serviceVars, SignalsStay,
         \A q \in Procs \ {o} : Untouched(q), Launched(o)', Alone(o)'
  PROVE  IInv'
<1>1. SameService /\ request' = request /\ exit_status' = exit_status
  BY SameServiceKept DEF SameService
<1>2. MovesOnly(o)
  BY NoKernelStep DEF MovesOnly, IInv
<1> QED
  BY <1>1, <1>2, CallStep DEF SameObject

LEMMA ConstructStep ==
  ASSUME IInv, TypeInv', NEW o \in Procs, Construct(o) \/ Detach(o)
  PROVE  IInv'
<1>1. /\ UNCHANGED <<st, pid, status>> /\ UNCHANGED serviceVars /\ SignalsStay
      /\ exit_status' = exit_status /\ request' = request
  BY DEF Construct, Detach, kernelVars, timedVars, serviceVars, SignalsStay
<1>2. /\ \A q \in Procs \ {o} : Untouched(q)
      /\ obj'[o] \in {"attached", "detached"} /\ pc'[o] = "idle"
      /\ terminated' = terminated
      /\ \/ pc[o] = "plain"
         \/ pc[o] = "idle" /\ obj[o] \in {"attached", "detached"}
  BY Children DEF IInv, Construct, Detach, MayCall, Goto, ChildTypeOK, Untouched
<1>3. Launched(o) /\ Alone(o)
  BY DEF IInv
<1>4. Launched(o)'
  BY <1>1, <1>2, <1>3 DEF Launched
<1>5. Alone(o)'
  BY <1>1, <1>2, <1>3 DEF Launched, Alone, Asking, Exited
<1> QED
  BY <1>1, <1>2, <1>4, <1>5, QuietStep

LEMMA ForkStep ==
  ASSUME IInv, TypeInv', ~PidReuse, NEW o \in Procs, LaunchFork(o)
  PROVE  IInv'
<1>1. /\ SameService /\ SignalsStay /\ exit_status' = exit_status /\ request' = request
  BY SameServiceKept DEF LaunchFork, Fork, SignalsStay, timedVars, SameService
<1>2. Born(o) /\ st'[o] = "running" /\ status' = status
  <2>1. PidFor[o] \subseteq Pids
    BY ChildV1Assumption
  <2> QED
    BY <2>1, Kernel DEF LaunchFork, Fork, Born, IInv, KernelTypeOK
<1>3. Kinds[o] \subseteq {"plain", "on_exit"}
  BY ChildV1Assumption
<1>4. /\ pc'[o] \in {"plain", "on_exit"} /\ obj' = obj /\ obj[o] = "absent"
      /\ terminated' = terminated
      /\ \A q \in Procs \ {o} : Untouched(q)
  BY <1>3, Children DEF IInv, LaunchFork, Goto, ChildTypeOK, Untouched
<1>5. Launched(o) /\ Alone(o)
  BY DEF IInv
<1>6. Launched(o)'
  BY <1>1, <1>2, <1>4 DEF Launched
<1>7. Alone(o)'
  BY <1>1, <1>2, <1>4, <1>5, FinalStatusIsFinal DEF Alone, Asking
<1> QED
  BY <1>1, <1>2, <1>4, <1>6, <1>7, CallStep DEF MovesOnly, SameObject

-------------------------------------------------------------------------------
(***************************************************************************)
(* wait_until.                                                             *)
(***************************************************************************)
LEMMA WaitUntilStep ==
  ASSUME IInv, TypeInv', NEW o \in Procs, WaitUntil(o)
  PROVE  IInv'
<1>1. /\ UNCHANGED <<st, pid, status>> /\ UNCHANGED serviceVars /\ SignalsStay
      /\ exit_status' = exit_status /\ request' = request
  BY DEF WaitUntil, kernelVars, timedVars, serviceVars, SignalsStay
<1>2. /\ Launched(o) /\ Alone(o) /\ pc[o] = "idle" /\ obj[o] \in {"attached", "detached"}
  BY DEF IInv, WaitUntil, MayCall
<1>3. /\ obj'[o] = obj[o] /\ (terminated'[o] <=> terminated[o])
      /\ \/ pc'[o] = "idle"
         \/ pc'[o] = "sleep" /\ ~Exited(o)
      /\ \A q \in Procs \ {o} : Untouched(q)
  BY DoneAt, MoveAt DEF IInv, WaitUntil
<1>4. Launched(o)'
  BY <1>1, <1>2, <1>3 DEF Launched
<1>5. Alone(o)'
  BY <1>1, <1>2, <1>3 DEF Alone, Asking, Exited
<1> QED
  BY <1>1, <1>3, <1>4, <1>5, QuietStep

LEMMA WakeStep ==
  ASSUME IInv, TypeInv', NEW o \in Procs, Wake(o)
  PROVE  IInv'
<1>1. /\ UNCHANGED <<st, pid, status>> /\ UNCHANGED serviceVars /\ SignalsStay
      /\ exit_status' = exit_status /\ request' = request
  BY DEF Wake, serviceVars, SignalsStay
<1>2. /\ pc[o] = "sleep" /\ pc'[o] \in {"look", "last_look"}
      /\ obj' = obj /\ terminated' = terminated
      /\ \A q \in Procs \ {o} : Untouched(q)
  BY Children DEF IInv, Wake, Goto, ChildTypeOK, Untouched
<1>3. Launched(o) /\ Alone(o)
  BY DEF IInv
<1>4. Launched(o)'
  BY <1>1, <1>2, <1>3 DEF Launched
<1>5. Alone(o)'
  BY <1>1, <1>2, <1>3 DEF Alone, Asking, Exited
<1> QED
  BY <1>1, <1>2, <1>4, <1>5, QuietStep

LEMMA LookStep ==
  ASSUME IInv, TypeInv', NEW o \in Procs, Look(o)
  PROVE  IInv'
<1>1. pc[o] \in Asking /\ pc[o] \in {"look", "last_look"} /\ UNCHANGED serviceVars /\ eaten' = eaten
  BY DEF Look, StillTimed, Restore, LeaveTimedWait, timedVars, Asking
<1>2. /\ SameService /\ exit_status' = exit_status /\ sigpipe' = sigpipe /\ request' = request
  BY <1>1, SameServiceKept DEF SameService
<1>3. CASE ~ChildAlive(pid[o]) /\ Reap(pid[o]) /\ Waited(o)
  <2>1. /\ MovesOnly(o) /\ Launched(o)' /\ Alone(o)' /\ sigchld' = sigchld
        /\ \A q \in Procs \ {o} : SameObject(q)
    BY <1>1, <1>3, WaitedStep
  <2> QED
    BY <1>1, <1>2, <2>1, CallStep DEF SignalsStay
<1>4. ASSUME StillTimed(o), UNCHANGED kernelVars PROVE IInv'
  <2>1. UNCHANGED <<st, pid, status>> /\ SignalsStay
    BY <1>1, <1>2, <1>4 DEF kernelVars, SignalsStay
  <2>2. Launched(o) /\ Alone(o)
    BY DEF IInv
  <2>3. /\ obj'[o] = obj[o] /\ (terminated'[o] <=> terminated[o])
        /\ pc'[o] \in {"idle", "sleep"}
        /\ \A q \in Procs \ {o} : Untouched(q)
    BY <1>4, DoneAt, MoveAt DEF IInv, StillTimed
  <2>4. Launched(o)'
    BY <1>1, <1>2, <2>1, <2>2, <2>3 DEF Launched
  <2>5. Alone(o)'
    BY <1>1, <1>2, <2>1, <2>2, <2>3 DEF Alone, Asking, Exited
  <2> QED
    BY <1>1, <2>1, <2>3, <2>4, <2>5, QuietStep
<1> QED
  BY <1>3, <1>4 DEF Look

-------------------------------------------------------------------------------
(***************************************************************************)
(* The children, and the signals that tell of their ends.                  *)
(***************************************************************************)
LEMMA ChildStep ==
  ASSUME IInv, TypeInv', NEW o \in Procs, Child(o)
  PROVE  IInv'
<1>1. /\ SameService /\ exit_status' = exit_status /\ request' = request
      /\ UNCHANGED <<childVars, timedVars, serviceVars>>
  BY SameServiceKept DEF Child, Killed, SameService
<1>2. Ended(o) /\ sigchld'
  <2>1. CASE ChildExit(o, TRUE)
    <3>1. PICK n \in ExitCodes : Terminates(o, ExitedWith(n), TRUE)
      BY <2>1 DEF ChildExit
    <3>2. ExitedWith(n) \in FinalStatus
      BY DEF FinalStatus
    <3> QED
      BY <2>1, <3>1, <3>2 DEF ChildExit, Terminates, Ended, Living
  <2>2. CASE Killed(o)
    <3>1. KilledBy(SIGKILL) \in FinalStatus
      BY DEF FinalStatus, FatalSignals
    <3> QED
      BY <2>2, <3>1 DEF Killed, DieOfSignal, Terminates, Ended, Living
  <2> QED
    BY <1>1, <2>1, <2>2 DEF Child
<1>3. SignalsStay
  BY <1>1, <1>2 DEF SignalsStay, timedVars, serviceVars
<1>4. \A q \in Procs : SameObject(q)
  BY <1>1 DEF SameObject, Untouched, childVars
<1>5. SameLife(o)
  BY <1>2, LifeFrame, Kernel DEF IInv
<1>6. Launched(o)' /\ Alone(o)'
  BY <1>4, <1>5, ObjectFrame DEF IInv
<1> QED
  BY <1>1, <1>2, <1>3, <1>4, <1>6, CallStep DEF MovesOnly

LEMMA CatchStep ==
  ASSUME IInv, TypeInv', CatchSigchld
  PROVE  IInv'
<1>1. /\ SameService /\ SignalsStay /\ UNCHANGED <<st, pid, status>>
      /\ exit_status' = exit_status /\ request' = request
  BY DEF CatchSigchld, SameService, SignalsStay
<1>2. Shifted
  BY <1>1, NoKernelStep DEF IInv
<1>3. ASSUME UNCHANGED <<obj, terminated, pc, call, result>> PROVE IInv'
  <2>1. KernelMoves
    BY <1>2 DEF KernelMoves
  <2>2. Serving' /\ \A q \in Procs : Noticed(q)'
    BY <1>1, <2>1, ServiceFrame
  <2>3. \A q \in Procs : SameObject(q) /\ SameLife(q)
    BY <1>1, <1>2, <1>3, LifeFrame, Kernel DEF IInv, SameObject, Untouched
  <2>4. \A q \in Procs : Launched(q)' /\ Alone(q)'
    BY <2>3, ObjectFrame DEF IInv
  <2> QED
    BY <2>1, <2>2, <2>4, KernelKept DEF IInv
<1>4. ASSUME NEW o \in Procs, pc[o] = "reap", Done(o, call[o], "over") PROVE IInv'
  <2>1. MovesOnly(o)
    BY <1>2 DEF MovesOnly
  <2> QED
    BY <1>1, <1>4, <2>1, KilledDone, CallStep
<1> QED
  BY <1>3, <1>4 DEF CatchSigchld

-------------------------------------------------------------------------------
(***************************************************************************)
(* The service.                                                            *)
(***************************************************************************)
\* A step for receiver o.
LEMMA ReceiverStep ==
  ASSUME IInv, TypeInv', NEW o \in Procs, MovesOnly(o), Serving', \A q \in Procs : Noticed(q)',
         \A q \in Procs \ {o} : SameObject(q), Launched(o)', Alone(o)'
  PROVE  IInv'
<1>1. KernelSane' /\ HeldPidsDiffer' /\ PidsDistinct'
  BY KernelKept DEF MovesOnly, KernelMoves
<1>2. \A q \in Procs : Launched(q)' /\ Alone(q)'
  BY OthersFrame
<1> QED
  BY <1>1, <1>2 DEF IInv

\* A step of the service that concerns no single object.
LEMMA ListStep ==
  ASSUME IInv, TypeInv', UNCHANGED <<st, pid, status>>, Serving', \A q \in Procs : Noticed(q)',
         \A q \in Procs : SameObject(q)
  PROVE  IInv'
<1>1. Shifted
  BY NoKernelStep DEF IInv
<1>2. KernelSane' /\ HeldPidsDiffer' /\ PidsDistinct'
  BY <1>1, KernelKept DEF KernelMoves
<1>3. \A q \in Procs : SameLife(q)
  BY <1>1, LifeFrame, Kernel DEF IInv
<1>4. \A q \in Procs : Launched(q)' /\ Alone(q)'
  BY <1>3, ObjectFrame DEF IInv
<1> QED
  BY <1>2, <1>4 DEF IInv

LEMMA Request ==
  ASSUME TypeInv, NEW o \in Procs, NEW r, Becomes(o, r)
  PROVE  request'[o] = r /\ \A q \in Procs \ {o} : request'[q] = request[q]
BY DEF TypeInv, TypeOK, ServiceTypeOK, Becomes

\* A waitpid for a handler leaves the other receivers as they were.
LEMMA NoticedOthers ==
  ASSUME IInv, NEW o \in Procs, MovesOnly(o),
         \A q \in Procs \ {o} : request'[q] = request[q],
         UNCHANGED <<receivers, handling, todo, armed, queued, kept>>, SignalsStay,
         request'[o] \notin {"waiting", "initiating"}
  PROVE  \A q \in Procs : Noticed(q)'
<1> SUFFICES ASSUME NEW q \in Procs PROVE Noticed(q)'
  OBVIOUS
<1>1. CASE q = o
  BY <1>1 DEF Noticed
<1>2. CASE q # o
  <2>1. Terminated(q)' => Terminated(q) \/ sigchld'
    BY Endings DEF IInv, MovesOnly, KernelMoves
  <2> QED
    BY <1>2, <2>1 DEF IInv, SignalsStay, Noticed
<1> QED
  BY <1>1, <1>2

\* Receiver o moves on; the list and the signal_set stay.
LEMMA ServingKept ==
  ASSUME IInv, NEW o \in Procs, \A q \in Procs \ {o} : request'[q] = request[q],
         UNCHANGED <<receivers, handling, armed, queued, kept>>, todo' \subseteq todo,
         request'[o] # "none",
         request'[o] \in {"waiting", "found"} \/ (request'[o] = "inside" /\ handling)
           => o \in receivers,
         request'[o] = "found" => handling
  PROVE  Serving'
<1>1. Serving /\ receivers \subseteq Procs
  BY DEF IInv, TypeInv, TypeOK, ServiceTypeOK
<1>2. \A q \in receivers : request'[q] # "none"
  BY <1>1 DEF Serving
<1>3. \A q \in Procs :
        /\ request'[q] \in {"waiting", "found"} => q \in receivers
        /\ request'[q] = "inside" /\ handling => q \in receivers
        /\ request'[q] = "found" => handling
  BY <1>1 DEF Serving
<1> QED
  BY <1>1, <1>2, <1>3 DEF Serving

LEMMA InitiateStep ==
  ASSUME IInv, TypeInv', NEW o \in Procs, OnSuccess(o), Initiate(o)
  PROVE  IInv'
<1>1. /\ Launched(o) /\ pc[o] = "on_exit" /\ obj[o] = "absent" /\ request[o] = "none"
      /\ st[o] # "unborn"
  BY DEF IInv, Launched, OnSuccess, Initiate
<1>2. /\ UNCHANGED <<receivers, handling, todo, armed, queued, kept>>
      /\ sigpipe' = sigpipe /\ eaten' = eaten /\ exit_status' = exit_status
  BY DEF OnSuccess, Initiate, timedVars
<1>3. /\ \A q \in Procs \ {o} : Untouched(q)
      /\ \/ pc'[o] = pc[o] /\ obj'[o] = obj[o]
         \/ pc'[o] = "idle" /\ obj'[o] = "attached"
  BY Children DEF IInv, OnSuccess, Goto, ChildTypeOK, Untouched
<1>4. CASE ChildAlive(pid[o]) /\ Becomes(o, "initiating") /\ UNCHANGED kernelVars
  <2>1. /\ MovesOnly(o) /\ UNCHANGED <<st, pid, status, sigchld>>
    BY <1>4, NoKernelStep DEF kernelVars, MovesOnly, IInv
  <2>2. request'[o] = "initiating" /\ \A q \in Procs \ {o} : request'[q] = request[q]
    BY <1>4, Request DEF IInv
  <2>3. ~Terminated(o)'
    BY <1>1, <1>4, <2>1, Answered DEF Terminated, Living
  <2>4. Serving'
    BY <1>2, <2>2, ServingKept
  <2>5. \A q \in Procs : Noticed(q)'
    BY <1>2, <2>1, <2>2, <2>3 DEF IInv, Noticed, Terminated
  <2>6. Launched(o)' /\ Alone(o)'
    BY <1>1, <1>3, <2>1, <2>2 DEF Launched, Alone
  <2>7. \A q \in Procs \ {o} : SameObject(q)
    BY <1>2, <1>3, <2>2 DEF SameObject
  <2> QED
    BY <2>1, <2>4, <2>5, <2>6, <2>7, ReceiverStep
<1>5. CASE ~ChildAlive(pid[o]) /\ Becomes(o, "posted") /\ Find(o)
  <2>1. /\ MovesOnly(o) /\ sigchld' = sigchld
        /\ st'[o] # "unborn"
    BY <1>1, <1>5, Reaps DEF Find
  <2>2. request'[o] = "posted" /\ \A q \in Procs \ {o} : request'[q] = request[q]
    BY <1>5, Request DEF IInv
  <2>3. Serving'
    BY <1>2, <2>2, ServingKept
  <2>4. SignalsStay
    BY <1>2, <2>1 DEF SignalsStay
  <2>5. \A q \in Procs : Noticed(q)'
    BY <1>2, <2>1, <2>2, <2>4, NoticedOthers
  <2>6. Launched(o)' /\ Alone(o)'
    BY <1>1, <1>3, <2>1, <2>2 DEF Launched, Alone
  <2>7. \A q \in Procs \ {o} : SameObject(q)
    BY <1>2, <1>3, <2>2 DEF SameObject
  <2> QED
    BY <2>1, <2>3, <2>5, <2>6, <2>7, ReceiverStep
<1> QED
  BY <1>4, <1>5 DEF Initiate

LEMMA Arms ==
  ASSUME TypeInv, ArmSet
  PROVE  \/ kept = 0 /\ armed' /\ ~queued' /\ kept' = 0
         \/ kept > 0 /\ ~armed' /\ queued'
<1>1. (kept = 0 /\ ~(kept > 0)) \/ (kept # 0 /\ kept > 0)
  BY Constants DEF TypeInv, TypeOK, ServiceTypeOK
<1>2. armed' = (kept = 0) /\ queued' = (kept > 0) /\ (~(kept > 0) => kept' = 0)
  BY Zenon DEF ArmSet
<1> QED
  BY <1>1, <1>2, Zenon

LEMMA RegisterStep ==
  ASSUME IInv, TypeInv', NEW o \in Procs, OnSuccess(o), Register(o), UNCHANGED kernelVars
  PROVE  IInv'
<1>1. /\ Launched(o) /\ pc[o] = "on_exit" /\ obj[o] = "absent" /\ request[o] = "initiating"
      /\ st[o] # "unborn" /\ Serving
  BY DEF IInv, Launched, OnSuccess, Register
<1>2. request'[o] = "waiting" /\ \A q \in Procs \ {o} : request'[q] = request[q]
  BY Request DEF Register, IInv
<1>3. /\ UNCHANGED <<st, pid, status, sigchld, sigpipe, eaten, exit_status, handling>>
      /\ receivers' = receivers \cup {o}
      /\ todo' = IF handling THEN todo \cup {o} ELSE todo
      /\ MovesOnly(o)
  BY NoKernelStep DEF OnSuccess, Register, timedVars, kernelVars, MovesOnly, IInv
<1>4. receivers # {} => UNCHANGED <<armed, queued, kept>>
  BY DEF Register
<1>5. ASSUME receivers = {}
      PROVE  /\ ~armed /\ ~queued /\ ~handling
             /\ \/ kept = 0 /\ armed' /\ ~queued' /\ kept' = 0
                \/ kept > 0 /\ ~armed' /\ queued'
  <2>1. ArmSet
    BY <1>5 DEF Register
  <2>2. ~armed /\ ~queued /\ ~handling
    BY <1>1, <1>5 DEF Serving
  <2> QED
    BY <2>1, <2>2, Arms DEF IInv
<1>6. Serving'
  <2>1. todo' \subseteq receivers' /\ \A q \in receivers' : request'[q] # "none"
    <3>1. receivers \subseteq Procs
      BY DEF IInv, TypeInv, TypeOK, ServiceTypeOK
    <3> QED
      BY <1>1, <1>2, <1>3, <3>1 DEF Serving
  <2>2. \A q \in Procs :
          /\ request'[q] \in {"waiting", "found"} => q \in receivers'
          /\ request'[q] = "inside" /\ handling' => q \in receivers'
          /\ request'[q] = "found" => handling'
    BY <1>1, <1>2, <1>3 DEF Serving
  <2>3. /\ receivers' # {} /\ (armed' \/ queued' \/ handling')
        /\ armed' => ~queued' /\ ~handling' /\ kept' = 0
        /\ queued' => ~handling'
    <3>1. CASE receivers = {}
      BY <1>3, <1>5, <3>1
    <3>2. CASE receivers # {}
      BY <1>1, <1>3, <1>4, <3>2 DEF Serving
    <3> QED
      BY <3>1, <3>2
  <2> QED
    BY <2>1, <2>2, <2>3 DEF Serving
<1>7. ASSUME NEW q \in Procs PROVE Noticed(q)'
  <2>1. Noticed(q) /\ Noticed(o)
    BY DEF IInv
  <2>2. CASE q = o
    BY <1>1, <1>2, <1>3, <1>4, <1>5, <2>1, <2>2 DEF Noticed, Serving, Terminated
  <2>3. CASE q # o /\ request[q] = "waiting"
    BY <1>1, <1>2, <1>3, <1>4, <1>5, <2>1, <2>3 DEF Noticed, Serving, Terminated
  <2>4. CASE q # o /\ request[q] # "waiting"
    BY <1>1, <1>2, <1>3, <1>4, <1>5, <2>1, <2>4 DEF Noticed, Terminated
  <2> QED
    BY <2>2, <2>3, <2>4
<1>8. /\ \A q \in Procs \ {o} : Untouched(q)
      /\ pc'[o] = "idle" /\ obj'[o] = "attached"
  BY <1>2, Children DEF IInv, OnSuccess, Goto, ChildTypeOK, Untouched
<1>9. Launched(o)' /\ Alone(o)'
  BY <1>1, <1>2, <1>3, <1>8 DEF Launched, Alone
<1>10. \A q \in Procs \ {o} : SameObject(q)
  BY <1>2, <1>3, <1>8 DEF SameObject
<1> QED
  BY <1>3, <1>6, <1>7, <1>9, <1>10, ReceiverStep

-------------------------------------------------------------------------------
(***************************************************************************)
(* The strand and the reactor.                                             *)
(***************************************************************************)
LEMMA HandleSignalStep ==
  ASSUME IInv, TypeInv', HandleSignal, UNCHANGED <<childVars, timedVars>>
  PROVE  IInv'
<1>1. Serving /\ queued /\ ~handling /\ ~InHandler
  BY DEF IInv, HandleSignal, StrandFree
<1>2. /\ UNCHANGED <<st, pid, status, sigchld, sigpipe, eaten, exit_status, request, receivers,
                     armed, kept>>
      /\ ~queued' /\ handling' /\ todo' = receivers
  BY DEF HandleSignal, kernelVars, timedVars
<1>3. \A q \in Procs : request[q] # "inside"
  BY <1>1 DEF InHandler
<1>4. Serving'
  BY <1>1, <1>2, <1>3 DEF Serving
<1>5. \A q \in Procs : Noticed(q)'
  BY <1>1, <1>2 DEF Serving, Noticed
<1>6. \A q \in Procs : SameObject(q)
  BY <1>2 DEF SameObject, Untouched, childVars
<1> QED
  BY <1>2, <1>4, <1>5, <1>6, ListStep

LEMMA PollReceiverStep ==
  ASSUME IInv, TypeInv', NEW o \in Procs, PollReceiver(o), UNCHANGED <<childVars, timedVars>>
  PROVE  IInv'
<1>1. /\ Serving /\ Launched(o) /\ handling /\ o \in todo /\ o \in receivers
      /\ request[o] # "none" /\ st[o] # "unborn"
  BY DEF IInv, PollReceiver, Serving, Launched
<1>2. /\ UNCHANGED <<sigpipe, eaten, exit_status, receivers, handling, armed, queued, kept>>
      /\ \A q \in Procs : Untouched(q)
  BY DEF PollReceiver, timedVars, childVars, Untouched
<1>3. ASSUME ChildAlive(pid[o]), todo' = todo \ {o}, UNCHANGED <<request, found, kernelVars>>
      PROVE  IInv'
  <2>1. UNCHANGED <<st, pid, status, sigchld>>
    BY <1>3 DEF kernelVars
  <2>2. Serving'
    BY <1>1, <1>2, <1>3 DEF Serving
  <2>3. ~Terminated(o)
    BY <1>1, <1>3, Answered DEF Terminated, Living
  <2>4. \A q \in Procs : Noticed(q)'
    BY <1>2, <1>3, <2>1, <2>3 DEF IInv, Noticed, Terminated
  <2>5. \A q \in Procs : SameObject(q)
    BY <1>2, <1>3 DEF SameObject
  <2> QED
    BY <2>1, <2>2, <2>4, <2>5, ListStep
<1>4. ASSUME ~ChildAlive(pid[o]), Becomes(o, "found"), Find(o), todo' = todo PROVE IInv'
  <2>1. request'[o] = "found" /\ \A q \in Procs \ {o} : request'[q] = request[q]
    BY <1>4, Request DEF IInv
  <2>2. MovesOnly(o) /\ sigchld' = sigchld /\ st'[o] # "unborn"
    BY <1>1, <1>4, Reaps DEF Find
  <2>3. Serving'
    BY <1>1, <1>2, <1>4, <2>1, ServingKept
  <2>4. SignalsStay
    BY <1>2, <2>2 DEF SignalsStay
  <2>5. \A q \in Procs : Noticed(q)'
    BY <1>2, <1>4, <2>1, <2>2, <2>4, NoticedOthers
  <2>6. Launched(o)' /\ Alone(o)'
    BY <1>1, <1>2, <2>1, <2>2 DEF Launched, Alone, Untouched
  <2>7. \A q \in Procs \ {o} : SameObject(q)
    BY <1>2, <2>1 DEF SameObject
  <2> QED
    BY <2>2, <2>3, <2>5, <2>6, <2>7, ReceiverStep
<1> QED
  BY <1>3, <1>4 DEF PollReceiver

LEMMA CallReceiverStep ==
  ASSUME IInv, TypeInv', NEW o \in Procs, CallReceiver(o), UNCHANGED <<childVars, timedVars>>
  PROVE  IInv'
<1>1. /\ Serving /\ Launched(o) /\ request[o] \in {"found", "posted"}
      /\ request[o] = "posted" => ~handling
      /\ st[o] # "unborn"
  BY DEF IInv, CallReceiver, StrandFree, Launched
<1>2. /\ UNCHANGED <<st, pid, status, sigchld, sigpipe, eaten, receivers, handling, todo,
                     armed, queued, kept>>
      /\ \A q \in Procs : Untouched(q)
  BY DEF CallReceiver, kernelVars, timedVars, childVars, Untouched
<1>3. request'[o] = "inside" /\ \A q \in Procs \ {o} : request'[q] = request[q]
  BY Request DEF CallReceiver, IInv
<1>4. Serving'
  BY <1>1, <1>2, <1>3, ServingKept DEF Serving
<1>5. MovesOnly(o) /\ SignalsStay
  BY <1>2, NoKernelStep DEF MovesOnly, SignalsStay, IInv
<1>6. \A q \in Procs : Noticed(q)'
  BY <1>2, <1>3, <1>5, NoticedOthers
<1>7. Launched(o)' /\ Alone(o)'
  BY <1>1, <1>2, <1>3 DEF Launched, Alone, Untouched
<1>8. \A q \in Procs \ {o} : SameObject(q)
  <2>1. exit_status \in [Procs -> Answers \cup {still_active, 0}]
    BY DEF IInv, TypeInv, TypeOK, ServiceTypeOK
  <2>2. \A q \in Procs \ {o} : exit_status'[q] = exit_status[q]
    BY <2>1 DEF CallReceiver
  <2> QED
    BY <1>2, <1>3, <2>2 DEF SameObject
<1> QED
  BY <1>4, <1>5, <1>6, <1>7, <1>8, ReceiverStep

LEMMA HandlerReturnsStep ==
  ASSUME IInv, TypeInv', NEW o \in Procs, HandlerReturns(o), UNCHANGED <<childVars, timedVars>>
  PROVE  IInv'
<1>1. request[o] = "inside" /\ Serving
  BY DEF IInv, HandlerReturns
<1>2. /\ UNCHANGED <<st, pid, status, sigchld, sigpipe, eaten, exit_status, receivers, handling,
                     armed, queued, kept>>
      /\ todo' = todo \ {o}
      /\ \A q \in Procs : Untouched(q)
  BY DEF HandlerReturns, kernelVars, timedVars, childVars, Untouched
<1>3. request'[o] = "over" /\ \A q \in Procs \ {o} : request'[q] = request[q]
  BY Request DEF HandlerReturns, IInv
<1>4. Serving'
  BY <1>2, <1>3, ServingKept
<1>5. \A q \in Procs : Noticed(q)'
  <2> SUFFICES ASSUME NEW q \in Procs PROVE Noticed(q)'
    OBVIOUS
  <2>1. CASE q = o
    BY <1>3, <2>1 DEF Noticed
  <2>2. CASE q # o
    BY <1>2, <1>3, <2>2 DEF IInv, Noticed, Terminated
  <2> QED
    BY <2>1, <2>2
<1>6. \A q \in Procs : SameObject(q)
  BY <1>1, <1>2, <1>3 DEF SameObject
<1> QED
  BY <1>2, <1>4, <1>5, <1>6, ListStep

LEMMA FinishLoopStep ==
  ASSUME IInv, TypeInv', FinishLoop, UNCHANGED <<childVars, timedVars>>
  PROVE  IInv'
<1>1. /\ Serving /\ handling /\ ~armed /\ ~queued /\ todo = {} /\ ~Initiating
      /\ \A q \in Procs : request[q] \notin {"found", "inside"}
  BY DEF IInv, FinishLoop, Serving, BetweenReceivers
<1>2. /\ UNCHANGED <<st, pid, status, sigchld, sigpipe, eaten, exit_status, request, todo>>
      /\ ~handling' /\ receivers' = {q \in receivers : request[q] # "over"}
  BY DEF FinishLoop, kernelVars, timedVars
<1>3. receivers' = {} => UNCHANGED <<armed, queued, kept>>
  BY DEF FinishLoop
<1>4. receivers' # {} => \/ kept = 0 /\ armed' /\ ~queued' /\ kept' = 0
                         \/ kept > 0 /\ ~armed' /\ queued'
  <2>1. receivers' # {} => ArmSet
    BY DEF FinishLoop
  <2> QED
    BY <2>1, Arms DEF IInv
<1>5. Serving'
  <2>1. \A q \in Procs : request[q] = "waiting" => q \in receivers'
    BY <1>1, <1>2 DEF Serving
  <2>2. CASE receivers' = {}
    BY <1>1, <1>2, <1>3, <2>1, <2>2 DEF Serving
  <2>3. CASE receivers' # {}
    BY <1>1, <1>2, <1>4, <2>1, <2>3 DEF Serving
  <2> QED
    BY <2>2, <2>3
<1>6. ASSUME NEW q \in Procs PROVE Noticed(q)'
  <2>1. request[q] # "initiating"
    BY <1>1 DEF Initiating
  <2>2. CASE request[q] = "waiting"
    <3>1. receivers' # {}
      BY <1>1, <1>2, <2>2 DEF Serving
    <3>2. Noticed(q) /\ q \notin todo /\ (kept > 0 => queued')
      BY <1>1, <1>4, <3>1 DEF IInv
    <3> QED
      BY <1>1, <1>2, <2>1, <2>2, <3>2 DEF Noticed, Terminated
  <2>3. CASE request[q] # "waiting"
    BY <1>2, <2>1, <2>3 DEF Noticed
  <2> QED
    BY <2>2, <2>3
<1>7. \A q \in Procs : SameObject(q)
  BY <1>2 DEF SameObject, Untouched, childVars
<1> QED
  BY <1>2, <1>5, <1>6, <1>7, ListStep

LEMMA DeliverStep ==
  ASSUME IInv, TypeInv', Reactor
  PROVE  IInv'
<1>1. /\ Serving /\ sigpipe
      /\ UNCHANGED <<st, pid, status, sigchld, eaten, exit_status, request, receivers, handling,
                     todo, childVars>>
  BY DEF IInv, Reactor, DeliverSigchld, kernelVars, timedVars
<1>2. ~armed' /\ (queued' <=> queued \/ armed) /\ (armed => kept' = kept)
  BY DEF Reactor, DeliverSigchld
<1>3. ~armed => kept' > 0
  <2>1. kept \in 0..MaxKept
    BY DEF IInv, TypeInv, TypeOK, ServiceTypeOK
  <2>2. ~armed => kept' = IF kept = MaxKept THEN kept ELSE kept + 1
    BY DEF Reactor, DeliverSigchld
  <2> QED
    BY <2>1, <2>2, Constants
<1>4. Serving'
  BY <1>1, <1>2 DEF Serving
<1>5. ASSUME NEW q \in Procs PROVE Noticed(q)'
  <2>1. CASE request[q] = "waiting"
    <3>1. queued' \/ (handling /\ kept' > 0)
      BY <1>1, <1>2, <1>3, <2>1 DEF Serving
    <3> QED
      BY <1>1, <2>1, <3>1 DEF Noticed
  <2>2. CASE request[q] = "initiating"
    BY <1>1, <1>2, <1>3, <2>2 DEF Noticed
  <2>3. CASE request[q] \notin {"waiting", "initiating"}
    BY <1>1, <2>3 DEF Noticed
  <2> QED
    BY <2>1, <2>2, <2>3
<1>6. \A q \in Procs : SameObject(q)
  BY <1>1 DEF SameObject, Untouched, childVars
<1> QED
  BY <1>1, <1>4, <1>5, <1>6, ListStep

-------------------------------------------------------------------------------
(***************************************************************************)
(* Every step.                                                             *)
(***************************************************************************)
LEMMA StutterStep ==
  ASSUME IInv, TypeInv', UNCHANGED vars
  PROVE  IInv'
<1>1. /\ UNCHANGED <<st, pid, status>> /\ UNCHANGED serviceVars /\ UNCHANGED childVars
      /\ UNCHANGED <<sigchld, eaten>>
  BY DEF vars, kernelVars, timedVars
<1>2. SameService /\ sigpipe' = sigpipe /\ exit_status' = exit_status
  BY <1>1, SameServiceKept
<1>3. Serving' /\ \A q \in Procs : Noticed(q)'
  <2>1. KernelMoves
    BY <1>1, NoKernelStep DEF KernelMoves, IInv
  <2> QED
    BY <1>1, <1>2, <2>1, ServiceFrame DEF SignalsStay
<1>4. \A q \in Procs : SameObject(q)
  BY <1>1, <1>2 DEF SameObject, Untouched, childVars, SameService
<1> QED
  BY <1>1, <1>3, <1>4, ListStep

LEMMA StepIInv ==
  ASSUME IInv, ~PidReuse, [Next]_vars
  PROVE  IInv'
<1>1. TypeInv'
  BY TypeStep DEF IInv
<1>2. ASSUME NEW o \in Procs, LaunchFork(o) \/ Construct(o) \/ OnSuccess(o) PROVE IInv'
  <2>1. CASE OnSuccess(o)
    BY <1>1, <2>1, InitiateStep, RegisterStep DEF OnSuccess
  <2> QED
    BY <1>1, <1>2, <2>1, ForkStep, ConstructStep
<1>3. ASSUME NEW o \in Procs,
             \/ Running(o) \/ Terminate(o) \/ Destroy(o) \/ Wait(o) \/ Detach(o)
             \/ Poll(o) \/ Check(o) \/ Store(o) \/ KillChild(o) \/ ReapKilled(o) \/ WaitReturns(o)
      PROVE  IInv'
  BY <1>1, <1>3, BeginStep, ConstructStep, PollStep, CheckStep, StoreStep, KillStep,
     ReapKilledStep, WaitReturnsStep
<1>4. ASSUME NEW o \in Procs, WaitUntil(o) \/ Wake(o) \/ Look(o) \/ Child(o) PROVE IInv'
  BY <1>1, <1>4, WaitUntilStep, WakeStep, LookStep, ChildStep
<1>5. CASE Strand
  BY <1>1, <1>5, HandleSignalStep, PollReceiverStep, CallReceiverStep, HandlerReturnsStep,
     FinishLoopStep
  DEF Strand, Receiver
<1>6. CASE Reactor \/ CatchSigchld \/ UNCHANGED vars
  BY <1>1, <1>6, DeliverStep, CatchStep, StutterStep
<1> QED
  BY <1>2, <1>3, <1>4, <1>5, <1>6 DEF Next

LEMMA Invariance ==
  ASSUME ~PidReuse
  PROVE  Spec => []IInv
<1>1. Init => IInv
  BY InitIInv
<1>2. IInv /\ [Next]_vars => IInv'
  BY StepIInv
<1> QED
  BY <1>1, <1>2, PTL DEF Spec

(***************************************************************************)
(* sigchld_service loses no end of a child: while a receiver waits for one *)
(* that is dead, another run of _handle_signal is on its way, unless       *)
(* wait_until has eaten a SIGCHLD.  For any number of children, callers    *)
(* and kept signals, if the pid of a reaped child is not handed out again. *)
(***************************************************************************)
THEOREM NoLostExitHolds ==
  ASSUME ~PidReuse
  PROVE  Spec => []NoLostExit
<1>1. IInv => NoLostExit
  <2> SUFFICES ASSUME IInv, NEW o \in Procs,
                      request[o] = "waiting" /\ Terminated(o) /\ ~eaten
               PROVE  sigchld \/ sigpipe \/ queued \/ o \in todo \/ (kept > 0 /\ handling)
    BY DEF NoLostExit
  <2> QED
    BY DEF IInv, Noticed
<1> QED
  BY <1>1, Invariance, PTL

(***************************************************************************)
(* A child object without an on_exit handler holds no status but the one   *)
(* the kernel gave its child, whatever calls are made on it and however    *)
(* they end.  For any number of children and callers, if the pid of a      *)
(* reaped child is not handed out again.                                   *)
(***************************************************************************)
THEOREM LoneStatusTruthfulHolds ==
  ASSUME ~PidReuse
  PROVE  Spec => []LoneStatusTruthful
<1>1. IInv => LoneStatusTruthful
  BY DEF IInv, Alone, LoneStatusTruthful
<1> QED
  BY <1>1, Invariance, PTL

-------------------------------------------------------------------------------
(***************************************************************************)
(* The handler for SIGCHLD, when the calls of wait_until do not overlap.   *)
(***************************************************************************)
Intercepted ==
  /\ \A o \in Procs : Timed(o) => disposition = "interceptor" /\ saved[o] = "asio"
  /\ \A o, q \in Procs : Timed(o) /\ Timed(q) => o = q
  /\ DispositionRestored

LEMMA NotTimed ==
  ASSUME Intercepted, disposition' = disposition, saved' = saved,
         \A q \in Procs : Timed(q)' <=> Timed(q)
  PROVE  Intercepted'
BY DEF Intercepted, DispositionRestored

LEMMA OtherMove ==
  ASSUME TypeInv, Intercepted, NEW o \in Procs, NEW where, Goto(o, where), ~Timed(o),
         where \notin {"sleep", "look", "last_look"}, disposition' = disposition, saved' = saved
  PROVE  Intercepted'
<1>1. \A q \in Procs : Timed(q)' <=> Timed(q)
  BY Children DEF ChildTypeOK, Goto, Timed
<1> QED
  BY <1>1, NotTimed

LEMMA TimedMove ==
  ASSUME TypeInv, Intercepted, OneTimedWait, NEW o \in Procs, WaitUntil(o) \/ Wake(o) \/ Look(o)
  PROVE  Intercepted'
<1>1. /\ pc \in [Procs -> {"idle", "plain", "on_exit", "poll", "check", "store", "wait",
                           "kill", "reap", "sleep", "look", "last_look"}]
      /\ saved \in [Procs -> {"default", "asio", "interceptor"}]
  BY DEF TypeInv, TypeOK, ChildTypeOK, TimedTypeOK
<1>2. ASSUME NEW where \in {"sleep", "look", "last_look"}, Timed(o), Goto(o, where),
             disposition' = disposition, saved' = saved
      PROVE  Intercepted'
  <2>1. \A q \in Procs : Timed(q)' <=> Timed(q)
    BY <1>1, <1>2 DEF Goto, Timed
  <2> QED
    BY <1>2, <2>1, NotTimed
<1>3. ASSUME NEW where, where \notin {"sleep", "look", "last_look"},
             Timed(o), Goto(o, where), Restore(o)
      PROVE  Intercepted'
  <2>1. \A q \in Procs : ~Timed(q)'
    BY <1>1, <1>3 DEF Intercepted, Goto, Timed
  <2>2. disposition' = "asio"
    BY <1>3 DEF Intercepted, Restore
  <2> QED
    BY <2>1, <2>2 DEF Intercepted, DispositionRestored
<1>4. CASE WaitUntil(o)
  <2>1. /\ \A q \in Procs : ~Timed(q)
        /\ disposition = "asio"
    BY <1>4 DEF WaitUntil, Intercepted, DispositionRestored
  <2>2. CASE Done(o, "wait_until", "over") /\ UNCHANGED timedVars
    BY <2>1, <2>2, OtherMove DEF Done, timedVars
  <2>3. ASSUME Move(o, "wait_until", "sleep"), saved' = [saved EXCEPT ![o] = disposition],
               disposition' = "interceptor"
        PROVE  Intercepted'
    <3>1. Timed(o)' /\ \A q \in Procs \ {o} : ~Timed(q)'
      BY <1>1, <2>1, <2>3 DEF Move, Goto, Timed
    <3>2. saved'[o] = "asio"
      BY <1>1, <2>1, <2>3
    <3> QED
      BY <2>3, <3>1, <3>2 DEF Intercepted, DispositionRestored
  <2> QED
    BY <1>4, <2>2, <2>3 DEF WaitUntil
<1>5. CASE Wake(o)
  BY <1>2, <1>5 DEF Wake, Timed
<1>6. CASE Look(o)
  BY <1>2, <1>3, <1>6 DEF Look, StillTimed, Waited, Got, Done, Move, timedVars, Timed
<1> QED
  BY <1>4, <1>5, <1>6

LEMMA StepIntercepted ==
  ASSUME TypeInv, Intercepted, OneTimedWait, [Next]_vars
  PROVE  Intercepted'
<1> USE DEF Done, Move, Got, timedVars
<1>1. UNCHANGED <<pc, timedVars>> => Intercepted'
  BY NotTimed DEF Timed
<1>2. ASSUME NEW o \in Procs, LaunchFork(o) \/ Construct(o) \/ OnSuccess(o) \/ Detach(o)
      PROVE  Intercepted'
  <2>1. Kinds[o] \subseteq {"plain", "on_exit"}
    BY ChildV1Assumption
  <2> QED
    BY <1>1, <1>2, <2>1, OtherMove DEF LaunchFork, Construct, OnSuccess, Detach, Timed
<1>3. ASSUME NEW o \in Procs, Running(o) \/ Terminate(o) \/ Destroy(o) \/ Wait(o)
      PROVE  Intercepted'
  BY <1>3, OtherMove DEF Running, Terminate, Destroy, Wait, Begin, MayCall, Timed
<1>4. ASSUME NEW o \in Procs,
             Poll(o) \/ Check(o) \/ Store(o) \/ KillChild(o) \/ ReapKilled(o) \/ WaitReturns(o)
      PROVE  Intercepted'
  BY <1>4, OtherMove DEF Poll, Check, Store, KillChild, ReapKilled, WaitReturns, Waited, Timed
<1>5. ASSUME NEW o \in Procs, WaitUntil(o) \/ Wake(o) \/ Look(o) PROVE Intercepted'
  BY <1>5, TimedMove
<1>6. ASSUME NEW o \in Procs, Child(o) PROVE Intercepted'
  BY <1>1, <1>6 DEF Child, Killed, childVars
<1>7. CASE Strand \/ Reactor
  BY <1>1, <1>7 DEF Strand, Reactor, childVars
<1>8. CASE CatchSigchld
  BY <1>8, OtherMove, NotTimed DEF CatchSigchld, Timed
<1>9. CASE UNCHANGED vars
  BY <1>1, <1>9 DEF vars, childVars
<1> QED
  BY <1>2, <1>3, <1>4, <1>5, <1>6, <1>7, <1>8, <1>9 DEF Next

(***************************************************************************)
(* wait_for and wait_until give the SIGCHLD handler back to Asio: it is    *)
(* installed whenever no such call runs.  For any number of children, if   *)
(* the callers do not let two of these calls overlap.                      *)
(***************************************************************************)
THEOREM DispositionRestoredHolds ==
  ASSUME OneTimedWait
  PROVE  Spec => []DispositionRestored
<1>1. Init => TypeInv /\ Intercepted
  BY TypeInit DEF Init, Intercepted, DispositionRestored, Timed
<1>2. TypeInv /\ Intercepted /\ [Next]_vars => TypeInv' /\ Intercepted'
  BY TypeStep, StepIntercepted
<1>3. Intercepted => DispositionRestored
  BY DEF Intercepted
<1> QED
  BY <1>1, <1>2, <1>3, PTL DEF Spec

-------------------------------------------------------------------------------
(***************************************************************************)
(* The second invariant.  Settled: who has a status to report, or nothing  *)
(* to ask for, has no child any more.  Reported: what a handler has been   *)
(* told.  Listed: who is in the list, and when.                            *)
(***************************************************************************)
Settled(o) ==
  /\ pc[o] \in {"check", "store"} => st[o] = "reaped"
  /\ ~process_is_running(exit_status[o]) => st[o] = "reaped"
  /\ found[o] # still_active => st[o] = "reaped"

Reported(o) ==
  /\ ~Terminated(o) => status[o] = still_active
  /\ request[o] \in {"none", "initiating", "waiting"} => found[o] = still_active
  /\ request[o] \in {"posted", "found", "inside", "over"} => found[o] \in {-1, status[o]} \ {still_active}

Listed ==
  /\ \A o \in receivers : request[o] \in {"waiting", "found", "inside", "over"}
  /\ ~handling => \A o \in receivers : request[o] = "waiting"
  /\ \A o \in todo : request[o] # "over"

Promise == Listed /\ \A o \in Procs : Settled(o) /\ Reported(o)

\* What a step is to the children and to the handlers' requests.
Quiet ==
  /\ UNCHANGED <<status, request, found>>
  /\ \A q \in Procs : (st'[q] = "reaped" <=> st[q] = "reaped") /\ (Terminated(q)' <=> Terminated(q))

Takes(o) == Collected(o) /\ UNCHANGED <<request, found>>
Dies(o)  == Ended(o) /\ UNCHANGED <<request, found>>

\* The waitpid for handler o: it gets the status, or finds that someone else has taken it.
Learns(o) ==
  \/ Collected(o) /\ found' = [found EXCEPT ![o] = status[o]]
  \/ st[o] = "reaped" /\ found' = [found EXCEPT ![o] = -1] /\ UNCHANGED <<st, pid, status>>

Requests(o) ==
  \/ request[o] = "none" /\ Becomes(o, "posted") /\ Learns(o)
  \/ /\ request[o] = "none" /\ Becomes(o, "initiating")
     /\ UNCHANGED <<st, status, found>>
  \/ request[o] = "initiating" /\ Becomes(o, "waiting") /\ UNCHANGED <<st, status, found>>
  \/ request[o] = "waiting" /\ Becomes(o, "found") /\ Learns(o)
  \/ request[o] \in {"found", "posted"} /\ Becomes(o, "inside") /\ UNCHANGED <<st, status, found>>
  \/ request[o] = "inside" /\ Becomes(o, "over") /\ UNCHANGED <<st, status, found>>

LEMMA StillQuiet ==
  ASSUME IInv, UNCHANGED <<st, status, request, found>>
  PROVE  Quiet
BY DEF Quiet, Terminated

LEMMA Finds ==
  ASSUME IInv, NEW o \in Procs, st[o] # "unborn", ~ChildAlive(pid[o]), Find(o)
  PROVE  Learns(o)
<1>1. /\ ChildZombie(pid[o]) => Collected(o) /\ StatusOf(pid[o]) = status[o]
      /\ ~ChildZombie(pid[o]) => UNCHANGED <<st, pid, status>> /\ st[o] = "reaped"
  BY OwnReap, Reaps, Kernel DEF IInv, Find
<1>2. found' = [found EXCEPT ![o] = IF ChildZombie(pid[o]) THEN StatusOf(pid[o]) ELSE -1]
  BY DEF Find
<1>3. CASE ChildZombie(pid[o])
  BY <1>1, <1>2, <1>3 DEF Learns
<1>4. CASE ~ChildZombie(pid[o])
  BY <1>1, <1>2, <1>4 DEF Learns
<1> QED
  BY <1>3, <1>4

\* A waitpid of a call on object o.
LEMMA CallReaps ==
  ASSUME IInv, NEW o \in Procs, pc[o] \notin {"idle", "plain", "on_exit"},
         ~ChildAlive(pid[o]), Reap(pid[o]), UNCHANGED <<request, found>>
  PROVE  /\ Quiet \/ Takes(o)
         /\ st'[o] = "reaped"
<1>1. st[o] # "unborn"
  BY DEF IInv, Launched
<1>2. /\ ChildZombie(pid[o]) => Collected(o) /\ st'[o] = "reaped"
      /\ ~ChildZombie(pid[o]) => UNCHANGED <<st, pid, status>> /\ st[o] = "reaped"
  BY <1>1, OwnReap, Reaps, Kernel DEF IInv
<1> QED
  BY <1>2, StillQuiet DEF Takes

LEMMA LaunchKind ==
  ASSUME IInv, NEW o \in Procs, LaunchFork(o) \/ Construct(o) \/ OnSuccess(o)
  PROVE  Quiet \/ Requests(o)
<1>1. CASE LaunchFork(o)
  <2>1. /\ st[o] = "unborn" /\ st' = [st EXCEPT ![o] = "running"] /\ UNCHANGED <<status, request, found>>
    BY <1>1 DEF LaunchFork, Fork, serviceVars
  <2> QED
    BY <2>1, Kernel DEF IInv, KernelTypeOK, Quiet, Terminated
<1>2. CASE Construct(o)
  BY <1>2, StillQuiet DEF Construct, kernelVars, serviceVars
<1>3. CASE OnSuccess(o) /\ Initiate(o)
  <2>1. st[o] # "unborn"
    BY <1>3 DEF IInv, Launched, OnSuccess
  <2> QED
    BY <1>3, <2>1, Finds DEF Initiate, Requests, kernelVars
<1>4. CASE OnSuccess(o) /\ Register(o) /\ UNCHANGED kernelVars
  BY <1>4 DEF Register, Requests, kernelVars
<1> QED
  BY <1>1, <1>2, <1>3, <1>4 DEF OnSuccess

LEMMA CallKind ==
  ASSUME IInv, NEW o \in Procs,
         \/ Running(o) \/ Terminate(o) \/ Destroy(o) \/ Wait(o) \/ Detach(o)
         \/ Poll(o) \/ Check(o) \/ Store(o) \/ KillChild(o) \/ ReapKilled(o) \/ WaitReturns(o)
         \/ WaitUntil(o) \/ Wake(o) \/ Look(o)
  PROVE  Quiet \/ Takes(o)
<1>1. CASE Running(o) \/ Terminate(o) \/ Destroy(o) \/ Wait(o) \/ Detach(o) \/ Check(o) \/ Store(o)
           \/ WaitUntil(o) \/ Wake(o)
  BY <1>1, StillQuiet
  DEF Running, Terminate, Destroy, Wait, Begin, Detach, Check, Store, WaitUntil, Wake, kernelVars, serviceVars
<1>2. CASE Poll(o) \/ ReapKilled(o) \/ WaitReturns(o) \/ Look(o)
  <2>1. pc[o] \notin {"idle", "plain", "on_exit"} /\ UNCHANGED <<request, found>>
    BY <1>2 DEF Poll, ReapKilled, WaitReturns, Look, serviceVars
  <2>2. (~ChildAlive(pid[o]) /\ Reap(pid[o])) \/ UNCHANGED kernelVars
    BY <1>2 DEF Poll, ReapKilled, WaitReturns, Look
  <2> QED
    BY <2>1, <2>2, CallReaps, StillQuiet DEF kernelVars
<1>3. CASE KillChild(o)
  <2>1. Shifted /\ UNCHANGED <<request, found>>
    BY <1>3, KillShifts, Kernel DEF KillChild, serviceVars, IInv
  <2> QED
    BY <2>1 DEF Shifted, Living, Quiet, Terminated
<1> QED
  BY <1>1, <1>2, <1>3

LEMMA StrandKind ==
  ASSUME IInv, Listed, Strand \/ Reactor \/ CatchSigchld
  PROVE  Quiet \/ \E o \in Procs : Requests(o)
<1>1. CASE Reactor \/ CatchSigchld \/ HandleSignal \/ FinishLoop
  BY <1>1, StillQuiet DEF Reactor, DeliverSigchld, CatchSigchld, HandleSignal, FinishLoop, kernelVars
<1>2. ASSUME NEW o \in Procs, PollReceiver(o) PROVE Quiet \/ Requests(o)
  <2>1. request[o] = "waiting" /\ st[o] # "unborn"
    BY <1>2 DEF IInv, PollReceiver, BetweenReceivers, Serving, Listed, Launched
  <2> QED
    BY <1>2, <2>1, Finds, StillQuiet DEF PollReceiver, Requests, kernelVars
<1>3. ASSUME NEW o \in Procs, CallReceiver(o) \/ HandlerReturns(o) PROVE Requests(o)
  BY <1>3 DEF CallReceiver, HandlerReturns, Requests, kernelVars
<1> QED
  BY <1>1, <1>2, <1>3 DEF Strand, Receiver

LEMMA ChildKind ==
  ASSUME IInv, NEW o \in Procs, Child(o)
  PROVE  Dies(o)
<1>1. CASE ChildExit(o, TRUE)
  <2>1. PICK n \in ExitCodes : Terminates(o, ExitedWith(n), TRUE)
    BY <1>1 DEF ChildExit
  <2>2. ExitedWith(n) \in FinalStatus
    BY DEF FinalStatus
  <2> QED
    BY <1>1, <2>1, <2>2 DEF Child, ChildExit, Killed, Terminates, Ended, Living, Dies, serviceVars
<1>2. CASE Killed(o)
  <2>1. KilledBy(SIGKILL) \in FinalStatus
    BY DEF FinalStatus, FatalSignals
  <2> QED
    BY <1>2, <2>1 DEF Killed, DieOfSignal, Terminates, Ended, Living, Dies, serviceVars
<1>3. UNCHANGED serviceVars
  BY DEF Child, Killed
<1> QED
  BY <1>1, <1>2 DEF Child

LEMMA StepKinds ==
  ASSUME IInv, Listed, [Next]_vars
  PROVE  Quiet \/ \E o \in Procs : Takes(o) \/ Dies(o) \/ Requests(o)
<1>1. CASE UNCHANGED vars
  BY <1>1, StillQuiet DEF vars, kernelVars, serviceVars
<1> QED
  BY <1>1, LaunchKind, CallKind, StrandKind, ChildKind DEF Next

LEMMA ReportedStep ==
  ASSUME IInv, Promise, [Next]_vars
  PROVE  \A q \in Procs : Reported(q)' /\ (st[q] = "reaped" => st'[q] = "reaped")
                          /\ (found'[q] # still_active => st'[q] = "reaped")
<1>1. /\ \A q \in Procs : Settled(q) /\ Reported(q) /\ (Terminated(q) => status[q] \in FinalStatus)
      /\ KernelTypeOK /\ found \in [Procs -> Answers \cup {still_active}]
  BY Kernel DEF Promise, IInv, KernelSane, TypeInv, TypeOK, ServiceTypeOK
<1>2. CASE Quiet
  BY <1>1, <1>2 DEF Quiet, Reported, Settled
<1>3. ASSUME NEW o \in Procs, Takes(o)
      PROVE  \A q \in Procs : Reported(q)' /\ (st[q] = "reaped" => st'[q] = "reaped")
                              /\ (found'[q] # still_active => st'[q] = "reaped")
  BY <1>1, <1>3 DEF Takes, Collected, KernelTypeOK, Reported, Settled, Terminated
<1>4. ASSUME NEW o \in Procs, Dies(o)
      PROVE  \A q \in Procs : Reported(q)' /\ (st[q] = "reaped" => st'[q] = "reaped")
                              /\ (found'[q] # still_active => st'[q] = "reaped")
  <2>1. found[o] = still_active
    BY <1>1, <1>4 DEF Dies, Ended, Living, Settled
  <2> QED
    BY <1>1, <1>4, <2>1 DEF Dies, Ended, Living, KernelTypeOK, Reported, Settled, Terminated
<1>5. ASSUME NEW o \in Procs, Requests(o)
      PROVE  \A q \in Procs : Reported(q)' /\ (st[q] = "reaped" => st'[q] = "reaped")
                              /\ (found'[q] # still_active => st'[q] = "reaped")
  <2>1. CASE UNCHANGED <<st, status, found>>
    <3>1. ~Learns(o) \/ (st[o] = "reaped" /\ found[o] = -1)
      BY <1>1, <2>1 DEF Learns, Collected, KernelTypeOK
    <3>2. PICK r : /\ Becomes(o, r)
                   /\ \/ r = "initiating" /\ request[o] = "none"
                      \/ r = "waiting" /\ request[o] = "initiating"
                      \/ r \in {"posted", "found", "inside", "over"} /\ found[o] \in {-1, status[o]} \ {still_active}
      BY <1>1, <1>5, <3>1 DEF Requests, Reported, still_active
    <3>3. request'[o] = r /\ \A q \in Procs \ {o} : request'[q] = request[q]
      BY <3>2, Request DEF IInv
    <3> QED
      BY <1>1, <2>1, <3>2, <3>3 DEF Reported, Settled, Terminated
  <2>2. CASE /\ Learns(o)
             /\ \/ request[o] = "none" /\ Becomes(o, "posted")
                \/ request[o] = "waiting" /\ Becomes(o, "found")
    <3>1. request'[o] \in {"posted", "found"} /\ \A q \in Procs \ {o} : request'[q] = request[q]
      BY <2>2, Request DEF IInv
    <3>2. /\ status' = status /\ st'[o] = "reaped"
          /\ \A q \in Procs \ {o} : st'[q] = st[q] /\ found'[q] = found[q]
      BY <1>1, <2>2 DEF Learns, Collected, KernelTypeOK
    <3>3. found'[o] \in {-1, status[o]} \ {still_active}
      <4>1. -1 # still_active
        BY DEF still_active
      <4>2. CASE Collected(o) /\ found' = [found EXCEPT ![o] = status[o]]
        <5>1. status[o] \in FinalStatus
          BY <1>1, <4>2 DEF Collected, Terminated
        <5> QED
          BY <1>1, <4>2, <5>1, FinalStatusIsFinal
      <4>3. CASE found' = [found EXCEPT ![o] = -1]
        BY <1>1, <4>1, <4>3
      <4> QED
        BY <2>2, <4>2, <4>3 DEF Learns
    <3> QED
      BY <1>1, <3>1, <3>2, <3>3 DEF Reported, Settled, Terminated
  <2> QED
    BY <1>5, <2>1, <2>2 DEF Requests
<1> QED
  BY <1>2, <1>3, <1>4, <1>5, StepKinds DEF Promise

LEMMA SameList ==
  ASSUME Listed, UNCHANGED <<request, receivers, handling, todo>>
  PROVE  Listed'
BY DEF Listed

LEMMA ListedStep ==
  ASSUME IInv, Listed, [Next]_vars
  PROVE  Listed'
<1>1. CASE UNCHANGED serviceVars
  BY <1>1, SameList DEF serviceVars
<1>2. ASSUME NEW o \in Procs, Initiate(o) PROVE Listed'
  <2>1. /\ request[o] = "none" /\ request'[o] \in {"initiating", "posted"} /\ Serving
        /\ \A q \in Procs \ {o} : request'[q] = request[q]
    BY <1>2, Request DEF Initiate, IInv
  <2> QED
    BY <1>2, <2>1 DEF Initiate, Listed, Serving, IInv, TypeInv, TypeOK, ServiceTypeOK
<1>3. ASSUME NEW o \in Procs, Register(o) PROVE Listed'
  <2>1. request'[o] = "waiting" /\ \A q \in Procs \ {o} : request'[q] = request[q]
    BY <1>3, Request DEF Register, IInv
  <2> QED
    BY <1>3, <2>1 DEF Register, Listed, IInv, TypeInv, TypeOK, ServiceTypeOK
<1>4. CASE HandleSignal
  BY <1>4 DEF HandleSignal, StrandFree, Listed
<1>5. CASE FinishLoop
  BY <1>5 DEF FinishLoop, BetweenReceivers, Listed, IInv, TypeInv, TypeOK, ServiceTypeOK
<1>6. ASSUME NEW o \in Procs, PollReceiver(o) PROVE Listed'
  <2>1. todo' \subseteq todo /\ receivers' = receivers /\ handling' = handling /\ handling
    BY <1>6 DEF PollReceiver
  <2>2. request' = request \/ Becomes(o, "found")
    BY <1>6 DEF PollReceiver
  <2> QED
    BY <2>1, <2>2, Request DEF Listed, IInv, TypeInv, TypeOK, ServiceTypeOK
<1>7. ASSUME NEW o \in Procs, CallReceiver(o) \/ HandlerReturns(o) PROVE Listed'
  <2>1. /\ todo' \subseteq todo /\ receivers' = receivers /\ handling' = handling
        /\ request[o] \in {"found", "posted", "inside"}
        /\ request[o] = "found" => handling
    BY <1>7 DEF CallReceiver, HandlerReturns, IInv, Serving
  <2>2. \/ Becomes(o, "inside")
        \/ Becomes(o, "over") /\ o \notin todo'
    BY <1>7 DEF CallReceiver, HandlerReturns
  <2>3. ~handling => o \notin receivers
    BY <2>1 DEF Listed
  <2>4. request'[o] \in {"inside", "over"} /\ \A q \in Procs \ {o} : request'[q] = request[q]
    BY <2>2, Request DEF IInv
  <2>5. request'[o] = "over" => o \notin todo'
    BY <2>2, Request DEF IInv
  <2> QED
    BY <2>1, <2>3, <2>4, <2>5 DEF Listed, IInv, TypeInv, TypeOK, ServiceTypeOK
<1>8. UNCHANGED <<request, receivers, handling, todo>> => Listed'
  BY SameList
<1>9. ASSUME NEW o \in Procs, LaunchFork(o) \/ Construct(o) \/ OnSuccess(o) PROVE Listed'
  BY <1>1, <1>2, <1>3, <1>9 DEF LaunchFork, Construct, OnSuccess
<1>10. ASSUME NEW o \in Procs,
         \/ Running(o) \/ Terminate(o) \/ Destroy(o) \/ Wait(o) \/ Detach(o)
         \/ Poll(o) \/ Check(o) \/ KillChild(o) \/ ReapKilled(o) \/ WaitReturns(o)
         \/ WaitUntil(o) \/ Wake(o) \/ Look(o) \/ Child(o)
       PROVE  Listed'
  BY <1>1, <1>10
  DEF Running, Terminate, Destroy, Wait, Begin, Detach, Poll, Check, KillChild, ReapKilled, WaitReturns,
      WaitUntil, Wake, Look, Child, Killed
<1>11. ASSUME NEW o \in Procs, Store(o) PROVE Listed'
  BY <1>8, <1>11 DEF Store
<1>12. CASE Strand
  BY <1>4, <1>5, <1>6, <1>7, <1>12 DEF Strand, Receiver
<1>13. CASE Reactor \/ CatchSigchld \/ UNCHANGED vars
  BY <1>8, <1>13 DEF Reactor, DeliverSigchld, CatchSigchld, vars, serviceVars
<1> QED
  BY <1>9, <1>10, <1>11, <1>12, <1>13 DEF Next

\* Who gets to look at a status, or stores one, has no child any more.
LEMMA SettledStep ==
  ASSUME IInv, Promise, [Next]_vars
  PROVE  \A q \in Procs : Settled(q)'
<1>1. \A q \in Procs : /\ Settled(q) /\ (st[q] = "reaped" => st'[q] = "reaped")
                       /\ (found'[q] # still_active => st'[q] = "reaped")
  BY ReportedStep DEF Promise
<1>2. ASSUME NEW o \in Procs, \A q \in Procs \ {o} : Untouched(q), UNCHANGED exit_status,
             pc'[o] \in {"check", "store"} => st'[o] = "reaped"
      PROVE  \A q \in Procs : Settled(q)'
  BY <1>1, <1>2 DEF Settled, Untouched
<1>3. UNCHANGED <<pc, exit_status>> => \A q \in Procs : Settled(q)'
  BY <1>1 DEF Settled
<1>4. ASSUME NEW o \in Procs,
             \/ Running(o) \/ Terminate(o) \/ Destroy(o) \/ Wait(o) \/ WaitUntil(o)
      PROVE  \A q \in Procs : Settled(q)'
  <2>1. PICK c, where : (Done(o, c, "over") \/ Move(o, c, where)) /\ where \notin {"check", "store"}
    BY <1>4 DEF Running, Terminate, Destroy, Wait, WaitUntil, Begin
  <2>2. exit_status' = exit_status
    BY <1>4 DEF Running, Terminate, Destroy, Wait, WaitUntil, Begin, serviceVars
  <2> QED
    BY <1>2, <2>1, <2>2, DoneAt, MoveAt DEF IInv
<1>5. ASSUME NEW o \in Procs, LaunchFork(o) \/ Construct(o) \/ OnSuccess(o) \/ Detach(o) \/ Wake(o)
      PROVE  \A q \in Procs : Settled(q)'
  <2>1. exit_status' = exit_status
    BY <1>5 DEF LaunchFork, Construct, OnSuccess, Initiate, Register, Detach, Wake, serviceVars
  <2>2. pc' = pc \/ \E where : Goto(o, where) /\ where \notin {"check", "store"}
    <3>1. Kinds[o] \subseteq {"plain", "on_exit"}
      BY ChildV1Assumption
    <3> QED
      BY <1>5, <3>1 DEF LaunchFork, Construct, OnSuccess, Detach, Wake
  <2>3. \A q \in Procs : pc'[q] \in {"check", "store"} => pc[q] \in {"check", "store"}
    BY <2>2, Children DEF ChildTypeOK, Goto, IInv
  <2> QED
    BY <1>1, <2>1, <2>3 DEF Settled
<1>6. ASSUME NEW o \in Procs, Poll(o) \/ ReapKilled(o) \/ WaitReturns(o) \/ Look(o)
      PROVE  \A q \in Procs : Settled(q)'
  <2>1. pc[o] \notin {"idle", "plain", "on_exit"} /\ UNCHANGED <<request, found, exit_status>>
    BY <1>6 DEF Poll, ReapKilled, WaitReturns, Look, serviceVars
  <2>2. (~ChildAlive(pid[o]) /\ Reap(pid[o])) => st'[o] = "reaped"
    BY <2>1, CallReaps
  <2>3. /\ \/ ~ChildAlive(pid[o]) /\ Reap(pid[o]) 
           \/ pc'[o] \notin {"check", "store"}
        /\ \A q \in Procs \ {o} : Untouched(q)
    BY <1>6, DoneAt, MoveAt, GotAt DEF Poll, ReapKilled, WaitReturns, Look, Waited, StillTimed, IInv
  <2> QED
    BY <1>2, <2>1, <2>2, <2>3
<1>7. ASSUME NEW o \in Procs, Check(o) \/ KillChild(o) PROVE \A q \in Procs : Settled(q)'
  <2>1. /\ exit_status' = exit_status
        /\ pc'[o] \in {"check", "store"} => pc[o] = "check"
        /\ \A q \in Procs \ {o} : Untouched(q)
    <3>1. exit_status' = exit_status
      BY <1>7 DEF Check, KillChild, serviceVars
    <3>2. \/ Done(o, call[o], "over") \/ Done(o, call[o], "error") \/ Move(o, call[o], "reap")
          \/ pc[o] = "check" /\ Move(o, call[o], "store")
      BY <1>7 DEF Check, KillChild
    <3> QED
      BY <3>1, <3>2, DoneAt, MoveAt DEF IInv
  <2> QED
    BY <1>1, <1>2, <2>1 DEF Settled
<1>8. ASSUME NEW o \in Procs, Store(o) PROVE \A q \in Procs : Settled(q)'
  <2>1. pc'[o] = "idle" /\ \A q \in Procs \ {o} : Untouched(q)
    BY <1>8, DoneAt DEF Store, IInv
  <2>2. \A q \in Procs \ {o} : exit_status'[q] = exit_status[q]
    BY <1>8 DEF Store, IInv, TypeInv, TypeOK, ServiceTypeOK
  <2>3. st'[o] = "reaped"
    BY <1>1, <1>8 DEF Store, Settled
  <2> QED
    BY <1>1, <2>1, <2>2, <2>3 DEF Settled, Untouched
<1>9. ASSUME NEW o \in Procs, Child(o) PROVE \A q \in Procs : Settled(q)'
  BY <1>3, <1>9 DEF Child, Killed, childVars, serviceVars
<1>10. ASSUME NEW o \in Procs, CallReceiver(o), UNCHANGED <<childVars, timedVars>>
       PROVE  \A q \in Procs : Settled(q)'
  <2>1. /\ pc' = pc /\ exit_status'[o] = found[o] /\ found' = found
        /\ \A q \in Procs \ {o} : exit_status'[q] = exit_status[q]
    BY <1>10 DEF CallReceiver, childVars, IInv, TypeInv, TypeOK, ServiceTypeOK
  <2> QED
    BY <1>1, <2>1, FinalStatusIsFinal DEF Settled
<1>11. CASE Strand
  <2>1. UNCHANGED exit_status \/ \E o \in Procs : CallReceiver(o)
    BY <1>11 DEF Strand, Receiver, HandleSignal, FinishLoop, PollReceiver, HandlerReturns
  <2> QED
    BY <1>3, <1>10, <1>11, <2>1 DEF Strand, childVars
<1>12. CASE CatchSigchld
  <2>1. exit_status' = exit_status /\ \A q \in Procs : pc'[q] \in {"check", "store"} => pc[q] \in {"check", "store"}
    BY <1>12, Children DEF CatchSigchld, Done, Goto, ChildTypeOK, IInv
  <2> QED
    BY <1>1, <2>1 DEF Settled
<1>13. CASE Reactor \/ UNCHANGED vars
  BY <1>3, <1>13 DEF Reactor, DeliverSigchld, vars, childVars, serviceVars
<1> QED
  BY <1>4, <1>5, <1>6, <1>7, <1>8, <1>9, <1>11, <1>12, <1>13 DEF Next

LEMMA PromiseInit == Init => Promise
<1> SUFFICES ASSUME Init PROVE Promise
  OBVIOUS
<1>1. Listed
  BY DEF Init, ServiceInit, Listed
<1>2. ASSUME NEW o \in Procs PROVE Settled(o) /\ Reported(o)
  BY FinalStatusIsFinal DEF Init, KernelInit, ServiceInit, Settled, Reported, Terminated
<1> QED
  BY <1>1, <1>2 DEF Promise

LEMMA PromiseStep ==
  ASSUME IInv, Promise, [Next]_vars
  PROVE  Promise'
BY ListedStep, ReportedStep, SettledStep DEF Promise

LEMMA ReportedInvariance ==
  ASSUME ~PidReuse
  PROVE  Spec => [](IInv /\ Promise)
<1>1. Init => Promise
  BY PromiseInit
<1>2. IInv /\ Promise /\ [Next]_vars => Promise'
  BY PromiseStep
<1> QED
  BY <1>1, <1>2, Invariance, PTL DEF Spec

-------------------------------------------------------------------------------
LEMMA DestroyStep ==
  ASSUME IInv, Promise, [Next]_vars, NEW o \in Procs,
         obj[o] = "attached", obj'[o] = "gone", ~terminated[o]
  PROVE  st'[o] = "reaped" \/ (sigchld /\ ~sigchld')
<1>1. Settled(o) /\ Launched(o) /\ (st[o] = "reaped" => st'[o] = "reaped")
  BY ReportedStep DEF Promise, IInv
<1>2. ASSUME NEW q \in Procs,
             \/ Running(q) \/ Terminate(q) \/ Destroy(q) \/ Wait(q) \/ WaitUntil(q)
      PROVE  st'[o] = "reaped"
  <2>1. PICK c, where : /\ Exited(q) \/ (c = "destroy" /\ obj[q] = "detached") \/ Move(q, c, where)
                        /\ Done(q, c, "over") \/ Move(q, c, where)
    BY <1>2 DEF Running, Terminate, Destroy, Wait, WaitUntil, Begin
  <2>2. q = o /\ ~Move(q, c, where)
    BY <2>1, DoneAt, MoveAt DEF IInv, Untouched
  <2> QED
    BY <1>1, <2>1, <2>2 DEF Exited, Settled
<1>3. ASSUME NEW q \in Procs, LaunchFork(q) \/ Construct(q) \/ OnSuccess(q) \/ Detach(q) \/ Wake(q) \/ Child(q)
      PROVE  FALSE
  BY <1>3, Children DEF LaunchFork, Construct, OnSuccess, Detach, Wake, Child, Killed, childVars, ChildTypeOK, IInv
<1>4. ASSUME NEW q \in Procs, Poll(q) \/ ReapKilled(q) \/ WaitReturns(q) \/ Look(q)
      PROVE  st'[o] = "reaped"
  <2>1. pc[q] \notin {"idle", "plain", "on_exit"} /\ UNCHANGED <<request, found>>
    BY <1>4 DEF Poll, ReapKilled, WaitReturns, Look, serviceVars
  <2>2. (~ChildAlive(pid[q]) /\ Reap(pid[q])) => st'[q] = "reaped"
    BY <2>1, CallReaps
  <2>3. /\ \/ ~ChildAlive(pid[q]) /\ Reap(pid[q])
           \/ obj'[q] = obj[q]
        /\ \A r \in Procs \ {q} : Untouched(r)
    BY <1>4, DoneAt, MoveAt DEF Poll, ReapKilled, WaitReturns, Look, Waited, StillTimed, Got, Goto, Untouched,
       IInv, Children
  <2> QED
    BY <2>2, <2>3 DEF Untouched
<1>5. ASSUME NEW q \in Procs, Check(q) \/ Store(q) PROVE st'[o] = "reaped"
  <2>1. pc[q] \in {"check", "store"} /\ \A r \in Procs \ {q} : Untouched(r)
    BY <1>5, DoneAt, MoveAt DEF Check, Store, IInv
  <2> QED
    BY <1>1, <2>1 DEF Settled, Untouched
<1>6. ASSUME NEW q \in Procs, KillChild(q) PROVE st'[o] = "reaped"
  <2>1. /\ \A r \in Procs \ {q} : Untouched(r)
        /\ ChildGone(pid[q]) \/ obj'[q] = obj[q]
        /\ pc[q] = "kill"
    BY <1>6, DoneAt, MoveAt DEF KillChild, IInv
  <2>2. q = o /\ ChildGone(pid[o])
    BY <2>1 DEF Untouched
  <2>3. st[o] # "unborn"
    BY <1>1 DEF Launched
  <2> QED
    BY <1>1, <2>2, <2>3, Answered
<1>7. CASE Strand \/ Reactor \/ UNCHANGED vars
  BY <1>7 DEF Strand, Reactor, vars, childVars
<1>8. CASE CatchSigchld
  BY <1>8 DEF CatchSigchld
<1> QED
  BY <1>2, <1>3, <1>4, <1>5, <1>6, <1>7, <1>8 DEF Next

(***************************************************************************)
(* DestroyReaps: the destructor of a child that is attached, and has not   *)
(* been terminated, leaves no process and no zombie behind, also when the  *)
(* strand of sigchld_service or an earlier call takes the status first,    *)
(* unless a SIGCHLD interrupts the waitpid of terminate() in that step.    *)
(***************************************************************************)
THEOREM DestroyReapsHolds ==
  ASSUME ~PidReuse
  PROVE  Spec => DestroyReaps
<1>1. IInv /\ Promise /\ [Next]_vars =>
        [\A o \in Procs : obj[o] = "attached" /\ obj'[o] = "gone" /\ ~terminated[o] =>
           st'[o] = "reaped" \/ (sigchld /\ ~sigchld')]_vars
  BY DestroyStep
<1> QED
  BY <1>1, ReportedInvariance, PTL DEF Spec, DestroyReaps

-------------------------------------------------------------------------------
(***************************************************************************)
(* The refinement: what each kind of step is in ExitNotice.                *)
(***************************************************************************)
Called(o) == request[o] \in {"inside", "over"}

Notified(o) ==
  IF request[o] = "none" THEN "none"
  ELSE IF ~Called(o) THEN "pending"
  ELSE IF found[o] = -1 THEN "failed" ELSE "answered"

CodeOf(o) == evaluate_exit_code(IF Called(o) /\ found[o] # -1 THEN found[o] ELSE still_active)

LEMMA SameCodes ==
  /\ Notice!still_active = still_active
  /\ \A s : Notice!evaluate_exit_code(s) = evaluate_exit_code(s)
BY DEF Notice!still_active, still_active, Notice!evaluate_exit_code, evaluate_exit_code,
       Notice!WIFEXITED, WIFEXITED, Notice!WEXITSTATUS, WEXITSTATUS, Notice!WIFSIGNALED, WIFSIGNALED,
       Notice!WTERMSIG, WTERMSIG

LEMMA NotFinal == -1 \notin FinalStatus /\ still_active \notin FinalStatus
<1>1. \A n \in ExitCodes : ExitedWith(n) # -1
  BY ChildAssumption DEF ExitedWith
<1>2. \A s \in FatalSignals : KilledBy(s) # -1
  BY DEF FatalSignals, KilledBy, SIGINT, SIGKILL, SIGTERM
<1> QED
  BY <1>1, <1>2, FinalStatusIsFinal DEF FinalStatus

\* Nothing that ExitNotice speaks of changes for q.
Same(q) == Notified(q)' = Notified(q) /\ CodeOf(q)' = CodeOf(q) /\ (Taken(q)' <=> Taken(q))

LEMMA SameOthers ==
  ASSUME TypeInv, NEW o \in Procs, NEW r, Becomes(o, r),
         \A q \in Procs \ {o} : found'[q] = found[q] /\ (st'[q] = "reaped" <=> st[q] = "reaped")
  PROVE  \A q \in Procs \ {o} : Same(q)
BY Request DEF Same, Notified, CodeOf, Called, Taken

LEMMA RefineInit == Init => Notice!Init
<1> SUFFICES ASSUME Init PROVE Notice!Init
  OBVIOUS
<1>1. \A o \in Procs : /\ Taken(o) = FALSE /\ Notified(o) = "none"
                       /\ CodeOf(o) = evaluate_exit_code(still_active)
  BY DEF Init, KernelInit, ServiceInit, Taken, Notified, CodeOf, Called
<1>2. /\ [o \in Procs |-> Taken(o)] = [o \in Procs |-> FALSE]
      /\ [o \in Procs |-> Notified(o)] = [o \in Procs |-> "none"]
      /\ [o \in Procs |-> CodeOf(o)] = [o \in Procs |-> Notice!evaluate_exit_code(Notice!still_active)]
  BY <1>1, SameCodes
<1>3. status = [o \in Procs |-> Notice!still_active]
  BY SameCodes DEF Init, KernelInit
<1> QED
  BY <1>2, <1>3 DEF Notice!Init, Notified, CodeOf, Called, Taken

LEMMA RefineStutter ==
  ASSUME \A q \in Procs : Same(q), status' = status
  PROVE  UNCHANGED Notice!vars
<1>1. /\ [q \in Procs |-> Notified(q)]' = [q \in Procs |-> Notified(q)]
      /\ [q \in Procs |-> CodeOf(q)]' = [q \in Procs |-> CodeOf(q)]
      /\ [q \in Procs |-> Taken(q)]' = [q \in Procs |-> Taken(q)]
  <2>1. \A q \in Procs : Taken(q) \in BOOLEAN /\ Taken(q)' \in BOOLEAN
    BY DEF Taken
  <2>2. \A q \in Procs : Taken(q)' = Taken(q)
    BY <2>1 DEF Same
  <2> QED
    BY <2>2 DEF Same
<1> QED
  BY <1>1 DEF Notice!vars, Notified, CodeOf, Called, Taken

\* What a step tells one handler.
Asked(o) ==
  /\ Notified(o) = "none" /\ Notified(o)' = "pending"
  /\ CodeOf(o)' = CodeOf(o) /\ (Taken(o)' <=> Taken(o))

Failed(o) ==
  /\ Notified(o) = "pending" /\ Notified(o)' = "failed"
  /\ CodeOf(o)' = CodeOf(o) /\ (Taken(o)' <=> Taken(o)) /\ Taken(o)

Told(o) ==
  /\ Notified(o) = "pending" /\ Notified(o)' = "answered"
  /\ status[o] # still_active /\ CodeOf(o)' = evaluate_exit_code(status[o])
  /\ (Taken(o)' <=> Taken(o))

\* A waitpid for a handler does not let go of its child.
LEMMA LearnsKeeps ==
  ASSUME IInv, Promise, NEW o \in Procs, Learns(o), found[o] = still_active
  PROVE  /\ Taken(o)' <=> Taken(o)
         /\ status' = status
         /\ \A q \in Procs \ {o} : found'[q] = found[q] /\ (st'[q] = "reaped" <=> st[q] = "reaped")
<1>1. /\ KernelTypeOK /\ found \in [Procs -> Answers \cup {still_active}]
      /\ Terminated(o) => status[o] \in FinalStatus
  BY Kernel DEF IInv, KernelSane, TypeInv, TypeOK, ServiceTypeOK
<1>2. CASE Collected(o) /\ found' = [found EXCEPT ![o] = status[o]]
  BY <1>1, <1>2 DEF Collected, KernelTypeOK, Taken, Terminated
<1>3. CASE /\ st[o] = "reaped" /\ found' = [found EXCEPT ![o] = -1]
           /\ UNCHANGED <<st, pid, status>>
  BY <1>1, <1>3, NotFinal DEF Taken
<1> QED
  BY <1>2, <1>3 DEF Learns

LEMMA RequestTells ==
  ASSUME IInv, Promise, NEW o \in Procs, Requests(o)
  PROVE  /\ Same(o) \/ Asked(o) \/ Failed(o) \/ Told(o)
         /\ status' = status
         /\ \A q \in Procs \ {o} : Same(q)
<1>1. TypeInv /\ Reported(o) /\ Settled(o)
  BY DEF IInv, Promise
<1>2. CASE /\ Learns(o)
           /\ \/ request[o] = "none" /\ Becomes(o, "posted")
              \/ request[o] = "waiting" /\ Becomes(o, "found")
  <2>1. /\ Taken(o)' <=> Taken(o)
        /\ status' = status
        /\ \A q \in Procs \ {o} : found'[q] = found[q] /\ (st'[q] = "reaped" <=> st[q] = "reaped")
    BY <1>1, <1>2, LearnsKeeps DEF Reported
  <2>2. Same(o) \/ Asked(o)
    BY <1>1, <1>2, <2>1, Request DEF Same, Asked, Notified, CodeOf, Called
  <2>3. \A q \in Procs \ {o} : Same(q)
    BY <1>1, <1>2, <2>1, SameOthers
  <2> QED
    BY <2>1, <2>2, <2>3
<1>3. CASE /\ UNCHANGED <<st, status, found>>
           /\ \/ request[o] = "none" /\ Becomes(o, "initiating")
              \/ request[o] = "initiating" /\ Becomes(o, "waiting")
              \/ request[o] = "inside" /\ Becomes(o, "over")
  <2>1. Same(o) \/ Asked(o)
    BY <1>1, <1>3, Request DEF Same, Asked, Notified, CodeOf, Called, Taken
  <2>2. \A q \in Procs \ {o} : Same(q)
    BY <1>1, <1>3, SameOthers
  <2> QED
    BY <1>3, <2>1, <2>2
<1>4. CASE /\ UNCHANGED <<st, status, found>>
           /\ request[o] \in {"found", "posted"} /\ Becomes(o, "inside")
  <2>1. \A q \in Procs \ {o} : Same(q)
    BY <1>1, <1>4, SameOthers
  <2>2. request'[o] = "inside"
    BY <1>1, <1>4, Request
  <2>3. /\ Notified(o) = "pending" /\ ~Called(o) /\ Called(o)'
        /\ CodeOf(o) = evaluate_exit_code(still_active)
        /\ Taken(o)' <=> Taken(o)
    BY <1>4, <2>2 DEF Notified, CodeOf, Called, Taken
  <2>4. CASE found[o] = -1
    <3>1. Taken(o)
      BY <1>1, <2>4, NotFinal DEF Taken, Settled, still_active
    <3>2. Notified(o)' = "failed" /\ CodeOf(o)' = CodeOf(o)
      BY <1>4, <2>2, <2>3, <2>4 DEF Notified, CodeOf, Called
    <3> QED
      BY <1>4, <2>1, <2>3, <3>1, <3>2 DEF Failed
  <2>5. CASE found[o] # -1
    <3>1. found[o] = status[o] /\ status[o] # still_active
      BY <1>1, <1>4, <2>5 DEF Reported
    <3>2. Notified(o)' = "answered" /\ CodeOf(o)' = evaluate_exit_code(status[o])
      BY <1>4, <2>2, <2>3, <2>5, <3>1 DEF Notified, CodeOf, Called
    <3> QED
      BY <1>4, <2>1, <2>3, <3>1, <3>2 DEF Told
  <2> QED
    BY <2>4, <2>5
<1> QED
  BY <1>2, <1>3, <1>4 DEF Requests

LEMMA RefineRequest ==
  ASSUME IInv, Promise, NEW o \in Procs, Requests(o)
  PROVE  [Notice!Next]_(Notice!vars)
<1> DEFINE N == [q \in Procs |-> Notified(q)]
           C == [q \in Procs |-> CodeOf(q)]
           R == [q \in Procs |-> Taken(q)]
<1>1. /\ N' = [N EXCEPT ![o] = Notified(o)'] /\ C' = [C EXCEPT ![o] = CodeOf(o)']
      /\ status' = status
  BY RequestTells DEF Same
<1>2. (Taken(o)' <=> Taken(o)) => R' = R
  <2>1. \A q \in Procs : Taken(q) \in BOOLEAN /\ Taken(q)' \in BOOLEAN
    BY DEF Taken
  <2>2. (Taken(o)' <=> Taken(o)) => \A q \in Procs : Taken(q)' = Taken(q)
    BY <2>1, RequestTells DEF Same
  <2> QED
    BY <2>2
<1>3. CASE Same(o)
  <2>1. \A q \in Procs : Same(q)
    BY <1>3, RequestTells
  <2> QED
    BY <1>1, <2>1, RefineStutter
<1>4. CASE Asked(o)
  <2>1. N[o] = "none" /\ N' = [N EXCEPT ![o] = "pending"] /\ C' = C /\ R' = R
    BY <1>1, <1>2, <1>4 DEF Asked
  <2>2. Notice!Ask(o)
    BY <1>1, <2>1 DEF Notice!Ask, Notified, CodeOf, Called, Taken
  <2> QED
    BY <2>2 DEF Notice!Next
<1>5. CASE Failed(o)
  <2>1. N[o] = "pending" /\ N' = [N EXCEPT ![o] = "failed"] /\ C' = C /\ R' = R /\ R[o]
    BY <1>1, <1>2, <1>5 DEF Failed
  <2>2. Notice!Fail(o)
    BY <1>1, <2>1 DEF Notice!Fail, Notice!Unanswered, Notified, CodeOf, Called, Taken
  <2> QED
    BY <2>2 DEF Notice!Next
<1>6. CASE Told(o)
  <2>1. /\ N[o] = "pending" /\ N' = [N EXCEPT ![o] = "answered"] /\ R' = R
        /\ C' = [C EXCEPT ![o] = Notice!evaluate_exit_code(status[o])]
        /\ status[o] # Notice!still_active
    BY <1>1, <1>2, <1>6, SameCodes DEF Told
  <2>2. Notice!Answer(o)
    BY <1>1, <2>1 DEF Notice!Answer, Notice!Unanswered, Notified, CodeOf, Called, Taken
  <2> QED
    BY <2>2 DEF Notice!Next
<1> QED
  BY <1>3, <1>4, <1>5, <1>6, RequestTells

\* A call on the object takes the status: its owner lets go of the child.
LEMMA RefineTakes ==
  ASSUME IInv, Promise, NEW o \in Procs, Takes(o)
  PROVE  Notice!Release(o)
<1> DEFINE R == [q \in Procs |-> Taken(q)]
<1>1. KernelTypeOK /\ Settled(o)
  BY Kernel DEF IInv, Promise
<1>2. /\ st[o] # "reaped" /\ st'[o] = "reaped" /\ status' = status
      /\ \A q \in Procs \ {o} : st'[q] = st[q]
  BY <1>1 DEF Takes, Collected, KernelTypeOK
<1>3. found[o] \notin FinalStatus
  BY <1>1, <1>2, NotFinal DEF Settled
<1>4. R' = [R EXCEPT ![o] = TRUE]
  <2>1. R \in [Procs -> BOOLEAN] /\ R' \in [Procs -> BOOLEAN]
    BY DEF Taken
  <2>2. \A q \in Procs : R'[q] <=> R[q] \/ q = o
    BY <1>2, <1>3 DEF Takes, Taken
  <2> HIDE DEF R
  <2> QED
    BY <2>1, <2>2
<1> QED
  BY <1>2, <1>4 DEF Takes, Notice!Release, Notified, CodeOf, Called, Taken

LEMMA RefineDies ==
  ASSUME IInv, Promise, NEW o \in Procs, Dies(o)
  PROVE  Notice!Terminate(o)
<1>1. KernelTypeOK /\ Reported(o)
  BY Kernel DEF IInv, Promise
<1>2. status[o] = still_active
  BY <1>1 DEF Dies, Ended, Living, Reported, Terminated
<1>3. \E s \in FinalStatus : status' = [status EXCEPT ![o] = s]
  BY <1>1 DEF Dies, Ended
<1>4. \A q \in Procs : Same(q)
  BY <1>1 DEF Dies, Ended, Living, Same, Notified, CodeOf, Called, Taken, KernelTypeOK
<1>5. /\ [q \in Procs |-> Notified(q)]' = [q \in Procs |-> Notified(q)]
      /\ [q \in Procs |-> CodeOf(q)]' = [q \in Procs |-> CodeOf(q)]
  BY <1>4 DEF Same
<1>6. [q \in Procs |-> Taken(q)]' = [q \in Procs |-> Taken(q)]
  <2>1. \A q \in Procs : Taken(q) \in BOOLEAN /\ Taken(q)' \in BOOLEAN
    BY DEF Taken
  <2>2. \A q \in Procs : Taken(q)' = Taken(q)
    BY <1>4, <2>1 DEF Same
  <2> QED
    BY <2>2
<1> QED
  BY <1>2, <1>3, <1>5, <1>6, SameCodes DEF Notice!Terminate, Notified, CodeOf, Called, Taken

LEMMA RefineNext ==
  ASSUME IInv, Promise, [Next]_vars
  PROVE  [Notice!Next]_(Notice!vars)
<1>1. CASE Quiet
  <2>1. \A q \in Procs : Same(q)
    BY <1>1 DEF Quiet, Same, Notified, CodeOf, Called, Taken
  <2> QED
    BY <1>1, <2>1, RefineStutter DEF Quiet
<1>2. ASSUME NEW o \in Procs, Takes(o) \/ Dies(o) PROVE Notice!Next
  BY <1>2, RefineTakes, RefineDies DEF Notice!Next
<1>3. ASSUME NEW o \in Procs, Requests(o) PROVE [Notice!Next]_(Notice!vars)
  BY <1>3, RefineRequest
<1> QED
  BY <1>1, <1>2, <1>3, StepKinds DEF Promise

(***************************************************************************)
(* The on_exit handlers of v1 keep the promise of ExitNotice with any      *)
(* number of children and calls: each is called once at most, after the    *)
(* end of its child and with its code, and with an error only if a call on *)
(* the object has taken the status from sigchld_service.                   *)
(***************************************************************************)
THEOREM KeepsPromiseHolds ==
  ASSUME ~PidReuse
  PROVE  Spec => KeepsPromise
<1>1. IInv /\ Promise /\ [Next]_vars => [Notice!Next]_(Notice!vars)
  BY RefineNext
<1> QED
  BY <1>1, RefineInit, ReportedInvariance, PTL DEF Spec, KeepsPromise, Notice!Spec

===============================================================================
